--------------------------- MODULE MigrationProofs ---------------------------
(***************************************************************************)
(* What Migration promises, proved for any number of processes and for     *)
(* both databases, whatever release left them.                             *)
(***************************************************************************)
EXTENDS Migration, TLAPS

-----------------------------------------------------------------------------
(* The lists                                                               *)

LEMMA Lengths == Latest("sqlite") = 8 /\ Latest("postgres") = 9
  BY DEF Latest, Migrations, sqliteMigrations, postgresMigrations

(* What an entry does to the tables of its own release, and to those of    *)
(* the latest one: it fails, or only makes and touches the lock table, or  *)
(* is the last and drops what is retired.                                  *)
EntryOK(d, i) ==
  LET e == Entry(d, i) IN
  /\ e.makes \cap e.drops = {}
  /\ "schema_migrations" \notin e.drops
  /\ e.makes \subseteq Tables
  /\ \/ ~e.lenient /\ e.makes \cap Schema.makes # {}
     \/ "manga_sync" \in e.needs
     \/ e.makes \subseteq {"sync_lock"} /\ e.drops = {} /\ i + 1 < Latest(d)
     \/ e.makes = {} /\ e.drops = Retired /\ i + 1 = Latest(d)

LEMMA SqliteEntries == \A i \in 1..7 : EntryOK("sqlite", i)
<1> SUFFICES ASSUME NEW i \in 1..7 PROVE EntryOK("sqlite", i)
  OBVIOUS
<1> USE Lengths DEF EntryOK, Entry, Migrations, sqliteMigrations, Migration, Nothing,
                    Touches, Schema, Retired, Tables, FirstTables
<1>1. CASE i = 1 BY <1>1
<1>2. CASE i = 2 BY <1>2
<1>3. CASE i = 3 BY <1>3
<1>4. CASE i = 4 BY <1>4
<1>5. CASE i = 5 BY <1>5
<1>6. CASE i = 6 BY <1>6
<1>7. CASE i = 7 BY <1>7
<1>8. i = 1 \/ i = 2 \/ i = 3 \/ i = 4 \/ i = 5 \/ i = 6 \/ i = 7 OBVIOUS
<1>9. QED BY ONLY <1>1, <1>2, <1>3, <1>4, <1>5, <1>6, <1>7, <1>8

LEMMA PostgresEntries == \A i \in 1..8 : EntryOK("postgres", i)
<1> SUFFICES ASSUME NEW i \in 1..8 PROVE EntryOK("postgres", i)
  OBVIOUS
<1> USE Lengths DEF EntryOK, Entry, Migrations, postgresMigrations, Migration, Nothing,
                    Touches, Schema, Retired, Tables, FirstTables
<1>1. CASE i = 1 BY <1>1
<1>2. CASE i = 2 BY <1>2
<1>3. CASE i = 3 BY <1>3
<1>4. CASE i = 4 BY <1>4
<1>5. CASE i = 5 BY <1>5
<1>6. CASE i = 6 BY <1>6
<1>7. CASE i = 7 BY <1>7
<1>8. CASE i = 8 BY <1>8
<1>9. i = 1 \/ i = 2 \/ i = 3 \/ i = 4 \/ i = 5 \/ i = 6 \/ i = 7 \/ i = 8 OBVIOUS
<1>10. QED BY ONLY <1>1, <1>2, <1>3, <1>4, <1>5, <1>6, <1>7, <1>8, <1>9

LEMMA Entries ==
  ASSUME NEW d \in Dialects
  PROVE  /\ Latest(d) \in Nat /\ Latest(d) > 1
         /\ \A i \in 1..(Latest(d) - 1) : EntryOK(d, i)
BY SqliteEntries, PostgresEntries, Lengths, ConstantsAssumption

(* TablesAt, element by element.                                           *)
LEMMA InTablesAt ==
  ASSUME NEW d, NEW v \in Nat, v # 0, NEW t
  PROVE  t \in TablesAt(d, v) <=>
           \/ t \in VersionTable(d)
           \/ \E i \in 0..(v - 1) :
                /\ t \in Made(d, i)
                /\ \A j \in (i + 1)..(v - 1) : t \notin Entry(d, j).drops
BY DEF TablesAt

(* An entry takes the tables of its version to those of the next.          *)
LEMMA EntryUpgrades ==
  ASSUME NEW d \in Dialects, NEW v \in 1..(Latest(d) - 1)
  PROVE  Result(Entry(d, v), TablesAt(d, v)) = TablesAt(d, v + 1)
<1>1. Latest(d) \in Nat /\ EntryOK(d, v) BY Entries
<1>2. v \in Nat /\ v # 0 /\ v + 1 \in Nat /\ v + 1 # 0 /\ (v + 1) - 1 = v BY <1>1
<1>3. Made(d, v) = Entry(d, v).makes BY <1>2 DEF Made
<1> DEFINE made(i, w, t) == /\ t \in Made(d, i)
                            /\ \A j \in (i + 1)..(w - 1) : t \notin Entry(d, j).drops
<1>4. ASSUME NEW t
      PROVE  t \in Result(Entry(d, v), TablesAt(d, v)) <=> t \in TablesAt(d, v + 1)
  <2>1. t \in TablesAt(d, v) <=> t \in VersionTable(d) \/ \E i \in 0..(v - 1) : made(i, v, t)
    BY <1>2, InTablesAt
  <2>2. t \in TablesAt(d, v + 1) <=>
          t \in VersionTable(d) \/ \E i \in 0..v : made(i, v + 1, t)
    BY <1>2, InTablesAt
  <2>3. t \in VersionTable(d) => t \notin Entry(d, v).drops
    BY <1>1 DEF EntryOK, VersionTable
  <2>4. t \in Entry(d, v).makes => t \notin Entry(d, v).drops
    BY <1>1 DEF EntryOK
  <2>5. made(v, v + 1, t) <=> t \in Entry(d, v).makes
    BY <1>2, <1>3
  <2>6. \A i \in 0..(v - 1) : made(i, v + 1, t) <=> made(i, v, t) /\ t \notin Entry(d, v).drops
    BY <1>2
  <2>7. \A i \in 0..v : i \in 0..(v - 1) \/ i = v
    BY <1>2
  <2>8. (\E i \in 0..v : made(i, v + 1, t)) <=>
          \/ t \in Entry(d, v).makes
          \/ (\E i \in 0..(v - 1) : made(i, v, t)) /\ t \notin Entry(d, v).drops
    <3> HIDE DEF made
    <3> v \in 0..v /\ 0..(v - 1) \subseteq 0..v BY <1>2
    <3> QED BY <2>5, <2>6, <2>7
  <2> HIDE DEF made
  <2> QED BY <2>1, <2>2, <2>3, <2>4, <2>8 DEF Result
<1>5. QED BY <1>4

(* The tables of this release.                                             *)
Current(d) == TablesAt(d, Latest(d))

(* The last entry alone drops anything.                                    *)
Drops(d, i) ==
  Entry(d, i).drops = IF i + 1 = Latest(d) THEN Retired ELSE {}

(* What the entries make one by one.                                       *)
EntriesMake ==
  {"notification", "sync_lock", "manga_sync.device_id", "sync_data"}

LEMMA SqliteMakes ==
  /\ \A i \in 1..7 : Drops("sqlite", i) /\ Entry("sqlite", i).makes \subseteq EntriesMake
  /\ \A t \in EntriesMake : \E i \in 1..7 : t \in Entry("sqlite", i).makes
  /\ Entry("sqlite", 7).makes = {}
<1> USE Lengths DEF Drops, EntriesMake, Entry, Migrations, sqliteMigrations, Migration, Nothing,
                    Touches, Retired
<1>1. ASSUME NEW i \in 1..7
      PROVE  Drops("sqlite", i) /\ Entry("sqlite", i).makes \subseteq EntriesMake
  <2>1. CASE i = 1 BY <2>1
  <2>2. CASE i = 2 BY <2>2
  <2>3. CASE i = 3 BY <2>3
  <2>4. CASE i = 4 BY <2>4
  <2>5. CASE i = 5 BY <2>5
  <2>6. CASE i = 6 BY <2>6
  <2>7. CASE i = 7 BY <2>7
  <2>8. i = 1 \/ i = 2 \/ i = 3 \/ i = 4 \/ i = 5 \/ i = 6 \/ i = 7 OBVIOUS
  <2>9. QED BY ONLY <2>1, <2>2, <2>3, <2>4, <2>5, <2>6, <2>7, <2>8
<1>2. /\ "notification" \in Entry("sqlite", 1).makes
      /\ "sync_lock" \in Entry("sqlite", 2).makes
      /\ "manga_sync.device_id" \in Entry("sqlite", 5).makes
      /\ "sync_data" \in Entry("sqlite", 6).makes
      /\ Entry("sqlite", 7).makes = {}
  OBVIOUS
<1>3. 1 \in 1..7 /\ 2 \in 1..7 /\ 5 \in 1..7 /\ 6 \in 1..7
  OBVIOUS
<1>4. \A t \in EntriesMake : \E i \in 1..7 : t \in Entry("sqlite", i).makes
  BY ONLY <1>2, <1>3 DEF EntriesMake
<1> QED BY ONLY <1>1, <1>2, <1>4

LEMMA PostgresMakes ==
  /\ \A i \in 1..8 : Drops("postgres", i) /\ Entry("postgres", i).makes \subseteq EntriesMake
  /\ \A t \in EntriesMake : \E i \in 1..8 : t \in Entry("postgres", i).makes
  /\ Entry("postgres", 8).makes = {}
<1> USE Lengths DEF Drops, EntriesMake, Entry, Migrations, postgresMigrations, Migration, Nothing,
                    Touches, Retired
<1>1. ASSUME NEW i \in 1..8
      PROVE  Drops("postgres", i) /\ Entry("postgres", i).makes \subseteq EntriesMake
  <2>1. CASE i = 1 BY <2>1
  <2>2. CASE i = 2 BY <2>2
  <2>3. CASE i = 3 BY <2>3
  <2>4. CASE i = 4 BY <2>4
  <2>5. CASE i = 5 BY <2>5
  <2>6. CASE i = 6 BY <2>6
  <2>7. CASE i = 7 BY <2>7
  <2>8. CASE i = 8 BY <2>8
  <2>9. i = 1 \/ i = 2 \/ i = 3 \/ i = 4 \/ i = 5 \/ i = 6 \/ i = 7 \/ i = 8 OBVIOUS
  <2>10. QED BY ONLY <2>1, <2>2, <2>3, <2>4, <2>5, <2>6, <2>7, <2>8, <2>9
<1>2. /\ "notification" \in Entry("postgres", 1).makes
      /\ "sync_lock" \in Entry("postgres", 2).makes
      /\ "manga_sync.device_id" \in Entry("postgres", 6).makes
      /\ "sync_data" \in Entry("postgres", 7).makes
      /\ Entry("postgres", 8).makes = {}
  OBVIOUS
<1>3. 1 \in 1..8 /\ 2 \in 1..8 /\ 6 \in 1..8 /\ 7 \in 1..8
  OBVIOUS
<1>4. \A t \in EntriesMake : \E i \in 1..8 : t \in Entry("postgres", i).makes
  BY ONLY <1>2, <1>3 DEF EntriesMake
<1> QED BY ONLY <1>1, <1>2, <1>4

(* A new installation has the tables that an upgraded one has.             *)
LEMMA CurrentTables ==
  ASSUME NEW d \in Dialects
  PROVE  Current(d) = VersionTable(d) \cup Schema.makes
<1> DEFINE last == Latest(d) - 1
<1>1. last \in Nat /\ last > 0 /\ Latest(d) = last + 1
  BY Entries
<1>2. /\ \A i \in 1..last : Drops(d, i) /\ Entry(d, i).makes \subseteq EntriesMake
      /\ \A t \in EntriesMake : \E i \in 1..last : t \in Entry(d, i).makes
      /\ Entry(d, last).makes = {}
  BY SqliteMakes, PostgresMakes, Lengths, ConstantsAssumption
<1>3. Entry(d, last).drops = Retired /\ \A i \in 1..(last - 1) : Entry(d, i).drops = {}
  BY <1>1, <1>2 DEF Drops
<1> HIDE DEF last
<1>4. ASSUME NEW t
      PROVE  t \in Current(d) <=>
               \/ t \in VersionTable(d)
               \/ t \in FirstTables \cup EntriesMake /\ t \notin Retired
  <2> DEFINE kept(i) == t \in Made(d, i) /\ \A j \in (i + 1)..last : t \notin Entry(d, j).drops
  <2>1. t \in Current(d) <=> t \in VersionTable(d) \/ \E i \in 0..last : kept(i)
    BY <1>1, InTablesAt DEF Current
  <2>2. \A i \in 0..(last - 1) : kept(i) <=> t \in Made(d, i) /\ t \notin Retired
    <3> TAKE i \in 0..(last - 1)
    <3>1. last \in (i + 1)..last /\ \A j \in (i + 1)..last : j = last \/ j \in 1..(last - 1)
      BY <1>1
    <3> QED BY <1>3, <3>1
  <2>3. ~kept(last) BY <1>1, <1>2 DEF Made
  <2>4. \A i \in 0..last : i = last \/ i \in 0..(last - 1)
    BY <1>1
  <2>5. (\E i \in 0..last : kept(i)) <=> t \notin Retired /\ \E i \in 0..(last - 1) : t \in Made(d, i)
    <3> HIDE DEF kept
    <3>1. 0..(last - 1) \subseteq 0..last BY <1>1
    <3> QED BY <2>2, <2>3, <2>4, <3>1
  <2>6. (\E i \in 0..(last - 1) : t \in Made(d, i)) <=> t \in FirstTables \cup EntriesMake
    <3>1. \A i \in 0..(last - 1) : i = 0 \/ i \in 1..last BY <1>1
    <3>2. 0 \in 0..(last - 1) /\ \A i \in 1..last : i # 0 /\ (i = last \/ i \in 0..(last - 1))
      BY <1>1
    <3> QED BY <1>2, <3>1, <3>2 DEF Made
  <2> HIDE DEF kept
  <2> QED BY <2>1, <2>5, <2>6
<1>5. {t \in FirstTables \cup EntriesMake : t \notin Retired} = Schema.makes
  BY DEF FirstTables, EntriesMake, Retired, Schema, Migration
<1> QED BY <1>4, <1>5

LEMMA TablesAreTables ==
  ASSUME NEW d \in Dialects, NEW v \in 0..Latest(d)
  PROVE  TablesAt(d, v) \subseteq Tables
<1> SUFFICES ASSUME NEW t \in TablesAt(d, v) PROVE t \in Tables
  OBVIOUS
<1>1. Latest(d) \in Nat BY Entries
<1>2. v # 0 BY DEF TablesAt
<1>3. CASE t \in VersionTable(d) BY <1>3 DEF VersionTable, Tables
<1>4. CASE t \notin VersionTable(d)
  <2>1. PICK i \in 0..(v - 1) : t \in Made(d, i)
    BY <1>1, <1>2, <1>4, InTablesAt
  <2>2. CASE i = 0 BY <2>1, <2>2 DEF Made, Tables
  <2>3. CASE i # 0
    <3>1. i \in 1..(Latest(d) - 1) BY <1>1, <2>3
    <3>2. EntryOK(d, i) BY <3>1, Entries
    <3> QED BY <2>1, <2>3, <3>2 DEF Made, EntryOK
  <2> QED BY <2>2, <2>3
<1> QED BY <1>3, <1>4

(* What a transaction can see that applies entries to a database that has  *)
(* been upgraded by somebody else in the meantime.                         *)
Overtaken(d, i, tables) ==
  /\ Current(d) \subseteq tables
  /\ tables \subseteq Current(d) \cup {"sync_lock"}
  /\ i = Latest(d) => tables = Current(d)

(* There, every entry fails or does no harm.                               *)
LEMMA OvertakenStep ==
  ASSUME NEW d \in Dialects, NEW i \in 1..(Latest(d) - 1), NEW tables,
         Overtaken(d, i, tables), Executes(Entry(d, i), tables)
  PROVE  Overtaken(d, i + 1, Result(Entry(d, i), tables))
<1> DEFINE e == Entry(d, i)
<1>1. Latest(d) \in Nat /\ EntryOK(d, i) BY Entries
<1>2. Current(d) = VersionTable(d) \cup Schema.makes BY CurrentTables
<1>3. "manga_sync" \notin tables
  BY <1>2 DEF Overtaken, VersionTable, Schema, Migration
<1>4. e.makes \cap Schema.makes = {} \/ e.lenient
  BY <1>2 DEF Overtaken, Executes
<1>5. "manga_sync" \notin e.needs
  BY <1>3 DEF Executes
<1>6. CASE e.makes \subseteq {"sync_lock"} /\ e.drops = {} /\ i + 1 < Latest(d)
  BY <1>1, <1>6 DEF Overtaken, Result
<1>7. CASE e.makes = {} /\ e.drops = Retired /\ i + 1 = Latest(d)
  <2>1. Current(d) \cap Retired = {}
    BY <1>2 DEF VersionTable, Schema, Migration, Retired
  <2>2. "sync_lock" \in Retired BY DEF Retired
  <2> QED BY <1>7, <2>1, <2>2 DEF Overtaken, Result
<1> QED BY <1>1, <1>4, <1>5, <1>6, <1>7 DEF EntryOK

-----------------------------------------------------------------------------
(* The invariant                                                           *)

ProcTypes ==
  [Procs -> [pc : {"off", "begin", "version", "lock", "apply", "serving", "refused"},
             version : 0..Latest(dialect), next : 0..Latest(dialect), tables : SUBSET Tables]]

(* A process that applies entries sees the tables of the entry it has come *)
(* to, or has been overtaken.                                              *)
ApplyOK(p) ==
  IF proc[p].version = db.version
    THEN \/ /\ proc[p].version = 0 /\ proc[p].next = 0
            /\ proc[p].tables = VersionTable(dialect)
         \/ /\ proc[p].next > 0
            /\ proc[p].version = 0 => proc[p].next = Latest(dialect)
            /\ proc[p].tables = TablesAt(dialect, proc[p].next)
    ELSE /\ db.version = Latest(dialect)
         /\ Overtaken(dialect, proc[p].next, proc[p].tables)
         /\ proc[p].version = 0 => proc[p].next = 0

(* A process that has not written yet on Postgres found the version's      *)
(* table, so the version it read is not 0.                                 *)
ProcOK(p) ==
  /\ proc[p].pc = "version" =>
       IF writer = p
         THEN db.version = 0 /\ proc[p].tables = VersionTable(dialect)
         ELSE VersionTable(dialect) \subseteq db.tables
  /\ proc[p].pc = "lock" =>
       /\ proc[p].version < Latest(dialect)
       /\ proc[p].version = db.version \/ db.version = Latest(dialect)
       /\ proc[p].next = proc[p].version
       /\ proc[p].version = 0 => VersionTable(dialect) = {}
  /\ proc[p].pc = "apply" => ApplyOK(p)
  /\ proc[p].pc = "serving" => db.version = Latest(dialect)

DbOK ==
  \/ db.version <= Latest(dialect) /\ db.tables = TablesAt(dialect, db.version)
  \/ db.version = Latest(dialect) + 1 /\ db.tables = Current(dialect)

Inv == TypeOK /\ DbOK /\ \A p \in Procs : ProcOK(p)

LEMMA InitInv == Init => Inv
<1> SUFFICES ASSUME Init PROVE Inv
  OBVIOUS
<1>1. dialect \in Dialects /\ Latest(dialect) \in Nat BY Entries DEF Init
<1>2. db \in [version : 0..(Latest(dialect) + 1), tables : SUBSET Tables] /\ DbOK
  <2>1. CASE \E v \in 0..Latest(dialect) : db = [version |-> v, tables |-> TablesAt(dialect, v)]
    <3>1. PICK v \in 0..Latest(dialect) : db = [version |-> v, tables |-> TablesAt(dialect, v)]
      BY <2>1
    <3>2. TablesAt(dialect, v) \subseteq Tables BY <1>1, TablesAreTables
    <3> QED BY <1>1, <3>1, <3>2 DEF DbOK
  <2>2. CASE db = [version |-> Latest(dialect) + 1, tables |-> TablesAt(dialect, Latest(dialect))]
    <3>1. TablesAt(dialect, Latest(dialect)) \subseteq Tables BY <1>1, TablesAreTables
    <3> QED BY <1>1, <2>2, <3>1 DEF DbOK, Current
  <2> QED BY <2>1, <2>2 DEF Init
<1>3. \A p \in Procs : proc[p] = IdleProc BY DEF Init
<1>4. TypeOK
  <2>1. proc \in ProcTypes
    BY <1>1 DEF Init, IdleProc, ProcTypes
  <2>2. writer = Nobody BY DEF Init
  <2> QED BY <1>1, <1>2, <1>3, <2>1, <2>2, ConstantsAssumption DEF TypeOK, IdleProc, ProcTypes
<1>5. \A p \in Procs : ProcOK(p)
  <2> SUFFICES ASSUME NEW p \in Procs PROVE ProcOK(p)
    OBVIOUS
  <2>1. proc[p] = IdleProc BY <1>3
  <2> QED BY <2>1 DEF ProcOK, IdleProc
<1> QED BY <1>2, <1>4, <1>5 DEF Inv

(* Steps of p that leave the database alone disturb nobody else.           *)
LEMMA LocalStep ==
  ASSUME Inv, NEW p \in Procs, UNCHANGED <<dialect, db>>, TypeOK',
         \A q \in Procs \ {p} : proc'[q] = proc[q] /\ (writer' = q <=> writer = q),
         ProcOK(p)'
  PROVE  Inv'
<1>1. DbOK' BY DEF Inv, DbOK
<1>2. ASSUME NEW q \in Procs, q # p PROVE ProcOK(q)'
  <2>1. ProcOK(q) /\ proc'[q] = proc[q] /\ (writer' = q <=> writer = q) BY <1>2 DEF Inv
  <2> QED BY <2>1 DEF ProcOK, ApplyOK
<1> QED BY <1>1, <1>2 DEF Inv

(* A process that ends leaves the database as it is.                       *)
LEMMA ExitStep ==
  ASSUME Inv, NEW p \in Procs, UNCHANGED <<dialect, db>>,
         proc' = [proc EXCEPT ![p] = IdleProc],
         writer' = IF writer = p THEN Nobody ELSE writer
  PROVE  Inv'
<1>1. proc'[p] = IdleProc /\ \A q \in Procs \ {p} : proc'[q] = proc[q]
  BY DEF Inv, TypeOK
<1>2. \A q \in Procs \ {p} : writer' = q <=> writer = q
  BY ConstantsAssumption
<1>3. Latest(dialect) \in Nat BY Entries DEF Inv, TypeOK
<1>4. TypeOK'
  <2>1. proc' \in ProcTypes'
    BY <1>3 DEF Inv, TypeOK, IdleProc, ProcTypes
  <2>2. writer' \in Procs \cup {Nobody} BY DEF Inv, TypeOK
  <2> QED BY <1>1, <1>2, <1>3, <2>1, <2>2, ConstantsAssumption DEF Inv, TypeOK, IdleProc, ProcTypes
<1>5. ProcOK(p)' BY <1>1 DEF ProcOK, IdleProc
<1> QED BY <1>1, <1>2, <1>4, <1>5, LocalStep

LEMMA OpenStep ==
  ASSUME Inv, NEW p \in Procs, Open(p)
  PROVE  Inv'
<1> USE DEF Open, Goto
<1>1. proc'[p] = [proc[p] EXCEPT !.pc = IF dialect = "sqlite" THEN "version" ELSE "begin"]
      /\ \A q \in Procs \ {p} : proc'[q] = proc[q]
  BY DEF Inv, TypeOK
<1>2. TypeOK' BY DEF Inv, TypeOK
<1>3. writer # p BY DEF Inv, TypeOK
<1>4. ProcOK(p)'
  <2>1. dialect = "sqlite" => VersionTable(dialect) = {} BY DEF VersionTable
  <2> QED BY <1>1, <1>3, <2>1 DEF ProcOK, Inv, TypeOK
<1> QED BY <1>1, <1>2, <1>4, LocalStep

LEMMA CreateVersionTableStep ==
  ASSUME Inv, NEW p \in Procs, CreateVersionTable(p)
  PROVE  Inv'
<1> USE DEF CreateVersionTable, Goto
<1>1. CASE VersionTable(dialect) \subseteq db.tables
  <2>1. proc'[p] = [proc[p] EXCEPT !.pc = "version"] /\ \A q \in Procs \ {p} : proc'[q] = proc[q]
    BY <1>1 DEF Inv, TypeOK
  <2>2. TypeOK' BY <1>1 DEF Inv, TypeOK
  <2>3. writer # p /\ writer' = writer BY <1>1 DEF Inv, TypeOK
  <2>4. ProcOK(p)' BY <1>1, <2>1, <2>3 DEF ProcOK, Inv, TypeOK
  <2> QED BY <2>1, <2>2, <2>3, <2>4, LocalStep
<1>2. CASE ~(VersionTable(dialect) \subseteq db.tables)
  <2>1. writer = Nobody /\ writer' = p
    BY <1>2
  <2>2. proc' = [proc EXCEPT ![p] =
          [@ EXCEPT !.pc = "version", !.tables = db.tables \cup VersionTable(dialect)]]
    BY <1>2
  <2>3. proc'[p] = [proc[p] EXCEPT !.pc = "version", !.tables = db.tables \cup VersionTable(dialect)]
        /\ \A q \in Procs \ {p} : proc'[q] = proc[q]
    BY <2>2 DEF Inv, TypeOK
  <2>4. Latest(dialect) \in Nat BY Entries DEF Inv, TypeOK
  <2>5. VersionTable(dialect) \subseteq Tables BY DEF VersionTable, Tables
  <2>6. TypeOK'
    <3>1. proc' \in ProcTypes BY <2>2, <2>5 DEF Inv, TypeOK, ProcTypes
    <3>2. ASSUME NEW q \in Procs, q # p
          PROVE  /\ proc'[q].version <= proc'[q].next
                 /\ proc'[q].pc # "apply" /\ writer' # q
      BY <2>1, <2>3, <3>2, ConstantsAssumption DEF Inv, TypeOK
    <3>3. proc'[p].version <= proc'[p].next /\ proc'[p].pc = "version"
      BY <2>3 DEF Inv, TypeOK
    <3> QED BY <2>1, <3>1, <3>2, <3>3 DEF Inv, TypeOK, ProcTypes
  <2>7. db.version = 0 /\ db.tables = {}
    <3>1. db.version \in Nat /\ TablesAt(dialect, 0) = {}
      BY <2>4 DEF Inv, TypeOK, TablesAt
    <3>2. \A v \in Nat \ {0} : VersionTable(dialect) \subseteq TablesAt(dialect, v)
      BY DEF TablesAt
    <3>3. Latest(dialect) # 0 BY Entries DEF Inv, TypeOK
    <3> QED BY <1>2, <2>4, <3>1, <3>2, <3>3 DEF Inv, DbOK, Current
  <2>8. ProcOK(p)' BY <2>1, <2>3, <2>7 DEF ProcOK, Inv, TypeOK
  <2> QED BY <2>1, <2>3, <2>6, <2>8, ConstantsAssumption, LocalStep
<1> QED BY <1>1, <1>2

(* A database of version 0 has no table, any other the version's.          *)
LEMMA EmptyDatabase ==
  ASSUME Inv
  PROVE  /\ db.version = 0 => db.tables = {}
         /\ db.version # 0 => VersionTable(dialect) \subseteq db.tables
<1>1. Latest(dialect) \in Nat /\ Latest(dialect) > 1 BY Entries DEF Inv, TypeOK
<1>2. db.version \in Nat /\ TablesAt(dialect, 0) = {}
  BY <1>1 DEF Inv, TypeOK, TablesAt
<1>3. \A v \in Nat \ {0} : VersionTable(dialect) \subseteq TablesAt(dialect, v)
  BY DEF TablesAt
<1> QED BY <1>1, <1>2, <1>3 DEF Inv, DbOK, Current

LEMMA ReadVersionStep ==
  ASSUME Inv, NEW p \in Procs, ReadVersion(p)
  PROVE  Inv'
<1> USE DEF ReadVersion, Goto
<1>1. Latest(dialect) \in Nat /\ Latest(dialect) > 1 BY Entries DEF Inv, TypeOK
<1>2. ProcOK(p) /\ writer' = writer BY DEF Inv
<1>3. CASE /\ db.version >= Latest(dialect)
           /\ \E pc \in {"serving", "refused"} :
                /\ pc = "serving" => db.version = Latest(dialect)
                /\ proc' = [proc EXCEPT ![p].pc = pc]
  <2>1. PICK pc \in {"serving", "refused"} :
          /\ pc = "serving" => db.version = Latest(dialect)
          /\ proc' = [proc EXCEPT ![p].pc = pc]
    BY <1>3
  <2>2. proc'[p] = [proc[p] EXCEPT !.pc = pc] /\ \A q \in Procs \ {p} : proc'[q] = proc[q]
    BY <2>1 DEF Inv, TypeOK
  <2>3. writer # p BY <1>1, <1>2, <1>3 DEF ProcOK
  <2>4. TypeOK' BY <1>2, <2>1, <2>2, <2>3 DEF Inv, TypeOK
  <2>5. ProcOK(p)'
    <3>1. proc'[p].pc = pc BY <2>2 DEF Inv, TypeOK
    <3>2. db' = db /\ dialect' = dialect OBVIOUS
    <3> QED BY <2>1, <3>1, <3>2 DEF ProcOK
  <2> QED BY <1>2, <2>2, <2>4, <2>5, LocalStep
<1>4. CASE /\ db.version < Latest(dialect)
           /\ proc' = [proc EXCEPT ![p] =
                [@ EXCEPT !.pc = IF writer = p THEN "apply" ELSE "lock",
                          !.version = db.version, !.next = db.version]]
  <2>1. /\ proc'[p] = [proc[p] EXCEPT !.pc = IF writer = p THEN "apply" ELSE "lock",
                                      !.version = db.version, !.next = db.version]
        /\ \A q \in Procs \ {p} : proc'[q] = proc[q]
    BY <1>4 DEF Inv, TypeOK
  <2>2. db.version \in 0..Latest(dialect) BY <1>1, <1>4 DEF Inv, TypeOK
  <2>3. TypeOK'
    <3>1. proc' \in ProcTypes
      <4> DEFINE Record == [pc : {"off", "begin", "version", "lock", "apply", "serving", "refused"},
                            version : 0..Latest(dialect), next : 0..Latest(dialect),
                            tables : SUBSET Tables]
                 q == [proc[p] EXCEPT !.pc = IF writer = p THEN "apply" ELSE "lock",
                                      !.version = db.version, !.next = db.version]
      <4>1. proc \in [Procs -> Record] BY DEF Inv, TypeOK
      <4>2. q \in Record BY <2>2, <4>1
      <4>3. proc' = [proc EXCEPT ![p] = q] BY <1>4
      <4> HIDE DEF q, Record
      <4>4. proc' \in [Procs -> Record] BY <4>1, <4>2, <4>3
      <4>5. dialect' = dialect OBVIOUS
      <4> QED BY <4>4, <4>5 DEF Record, ProcTypes
    <3>2. proc'[p].version <= proc'[p].next /\ proc'[p].pc = (IF writer = p THEN "apply" ELSE "lock")
          /\ proc'[p].version < Latest(dialect)
      BY <1>4, <2>1, <2>2 DEF Inv, TypeOK
    <3> QED BY <1>2, <2>1, <3>1, <3>2 DEF Inv, TypeOK, ProcTypes
  <2>4. ProcOK(p)'
    <3>1. CASE writer = p
      BY <1>2, <2>1, <3>1 DEF ProcOK, ApplyOK, Inv, TypeOK
    <3>2. CASE writer # p
      BY <1>2, <1>4, <2>1, <3>2, EmptyDatabase DEF ProcOK, Inv, TypeOK
    <3> QED BY <3>1, <3>2
  <2> QED BY <1>2, <2>1, <2>3, <2>4, LocalStep
<1> QED BY <1>1, <1>3, <1>4 DEF Inv, TypeOK

LEMMA FirstWriteStep ==
  ASSUME Inv, NEW p \in Procs, FirstWrite(p)
  PROVE  Inv'
<1> USE DEF FirstWrite
<1>1. Latest(dialect) \in Nat /\ Latest(dialect) > 1 BY Entries DEF Inv, TypeOK
<1>2. ProcOK(p) /\ proc[p].pc = "lock" /\ writer = Nobody /\ writer' = p BY DEF Inv
<1>3. /\ proc'[p] = [proc[p] EXCEPT !.pc = "apply", !.tables = db.tables]
      /\ \A q \in Procs \ {p} : proc'[q] = proc[q]
  BY DEF Inv, TypeOK
<1>4. TypeOK'
  <2>1. proc' \in ProcTypes BY DEF Inv, TypeOK, ProcTypes
  <2>2. ASSUME NEW q \in Procs, q # p
        PROVE  /\ proc'[q].version <= proc'[q].next
               /\ proc'[q].pc # "apply" /\ writer' # q
    BY <1>2, <1>3, <2>2, ConstantsAssumption DEF Inv, TypeOK
  <2>3. /\ proc'[p].version <= proc'[p].next /\ proc'[p].pc = "apply"
        /\ proc'[p].version < Latest(dialect)
    BY <1>2, <1>3 DEF Inv, TypeOK, ProcOK
  <2> QED BY <1>2, <2>1, <2>2, <2>3 DEF Inv, TypeOK, ProcTypes
<1>5. ApplyOK(p)'
  <2>1. /\ proc'[p].version = proc[p].version /\ proc'[p].next = proc[p].version
        /\ proc'[p].tables = db.tables /\ proc[p].version < Latest(dialect)
        /\ proc[p].version \in Nat
    BY <1>1, <1>2, <1>3 DEF Inv, TypeOK, ProcOK
  <2>2. CASE proc[p].version = db.version /\ db.version = 0
    BY <1>2, <2>1, <2>2, EmptyDatabase DEF ProcOK, ApplyOK
  <2>3. CASE proc[p].version = db.version /\ db.version # 0
    <3>1. db.tables = TablesAt(dialect, db.version)
      BY <1>1, <2>1, <2>3 DEF Inv, DbOK
    <3> QED BY <2>1, <2>3, <3>1 DEF ApplyOK
  <2>4. CASE proc[p].version # db.version
    <3>1. db.version = Latest(dialect) BY <1>2, <2>4 DEF ProcOK
    <3>2. db.tables = Current(dialect) BY <1>1, <3>1 DEF Inv, DbOK, Current
    <3> QED BY <1>1, <2>1, <2>4, <3>1, <3>2 DEF ApplyOK, Overtaken
  <2> QED BY <2>2, <2>3, <2>4
<1>6. ProcOK(p)' BY <1>3, <1>5 DEF ProcOK, Inv, TypeOK
<1> QED BY <1>2, <1>3, <1>4, <1>6, ConstantsAssumption, LocalStep

LEMMA ApplyStep ==
  ASSUME Inv, NEW p \in Procs, Apply(p)
  PROVE  Inv'
<1> USE DEF Apply
<1>1. Latest(dialect) \in Nat /\ Latest(dialect) > 1 /\ dialect \in Dialects
  BY Entries DEF Inv, TypeOK
<1>2. /\ ApplyOK(p) /\ proc[p].pc = "apply" /\ writer = p
      /\ proc[p].version \in Nat /\ proc[p].next \in Nat
      /\ proc[p].version < Latest(dialect) /\ proc[p].next < Latest(dialect)
      /\ proc[p].version <= proc[p].next
  BY <1>1 DEF Inv, TypeOK, ProcOK
<1>3. CASE ~Executes(Statement(p), proc[p].tables)
  <2>1. writer' = Nobody /\ proc' = [proc EXCEPT ![p] = IdleProc] BY <1>3
  <2> QED BY <1>2, <2>1, ExitStep
<1>4. CASE Executes(Statement(p), proc[p].tables)
  <2> DEFINE next == Following(p)
             tables == Result(Statement(p), proc[p].tables)
  <2>1. /\ proc' = [proc EXCEPT ![p] = [@ EXCEPT !.next = next, !.tables = tables]]
        /\ writer' = writer
    BY <1>4
  <2>2. Schema.makes \subseteq Tables /\ Schema.drops = {}
        /\ "users" \in Schema.makes /\ ~Schema.lenient
    BY DEF Schema, Migration, Tables
  <2>3. proc[p].version # 0 => EntryOK(dialect, proc[p].next)
    BY <1>1, <1>2, Entries
  <2>4. next \in 1..Latest(dialect) /\ proc[p].version <= next
    BY <1>1, <1>2 DEF Following
  <2>5. tables \subseteq Tables
    BY <2>2, <2>3 DEF Inv, TypeOK, Statement, Result, EntryOK
  <2>6. proc'[p] = [proc[p] EXCEPT !.next = next, !.tables = tables]
        /\ \A q \in Procs \ {p} : proc'[q] = proc[q]
    BY <2>1 DEF Inv, TypeOK
  <2> HIDE DEF next, tables
  <2>7. /\ proc'[p].version = proc[p].version /\ proc'[p].pc = "apply"
        /\ proc'[p].next = next /\ proc'[p].tables = tables
    BY <1>2, <2>6 DEF Inv, TypeOK
  <2>8. TypeOK'
    <3>1. next \in 0..Latest(dialect) BY <1>1, <2>4
    <3>2. proc' \in ProcTypes BY <2>1, <2>5, <3>1 DEF Inv, TypeOK, ProcTypes
    <3> QED BY <1>2, <2>1, <2>4, <2>6, <2>7, <3>2 DEF Inv, TypeOK, ProcTypes
  <2>9. ApplyOK(p)'
    <3>1. CASE proc[p].version = 0 /\ db.version = 0
      <4>1. next = Latest(dialect) /\ Statement(p) = Schema
        BY <3>1 DEF next, Following, Statement
      <4>2. proc[p].tables = VersionTable(dialect)
        BY <1>1, <1>2, <3>1 DEF ApplyOK
      <4>3. tables = TablesAt(dialect, next)
        BY <1>1, <2>2, <4>1, <4>2, CurrentTables DEF tables, Result, Current
      <4> QED BY <1>1, <2>7, <3>1, <4>1, <4>3 DEF ApplyOK
    <3>2. CASE proc[p].version = 0 /\ db.version # 0
      <4>1. Current(dialect) \subseteq proc[p].tables
        BY <1>2, <3>2 DEF ApplyOK, Overtaken
      <4>2. "users" \in proc[p].tables
        BY <1>1, <2>2, <4>1, CurrentTables
      <4> QED BY <1>4, <2>2, <3>2, <4>2 DEF Executes, Statement
    <3>3. CASE proc[p].version # 0
      <4>1. next = proc[p].next + 1 /\ Statement(p) = Entry(dialect, proc[p].next)
        BY <3>3 DEF next, Following, Statement
      <4>2. proc[p].next \in 1..(Latest(dialect) - 1)
        BY <1>1, <1>2, <3>3
      <4>3. CASE proc[p].version = db.version
        <5>1. proc[p].tables = TablesAt(dialect, proc[p].next)
          BY <1>2, <3>3, <4>3 DEF ApplyOK
        <5>2. tables = TablesAt(dialect, next)
          BY <1>1, <4>1, <4>2, <5>1, EntryUpgrades DEF tables
        <5> QED BY <2>4, <2>7, <3>3, <4>3, <5>2 DEF ApplyOK
      <4>4. CASE proc[p].version # db.version
        <5>1. db.version = Latest(dialect) /\ Overtaken(dialect, proc[p].next, proc[p].tables)
          BY <1>2, <4>4 DEF ApplyOK
        <5>2. Overtaken(dialect, next, tables)
          BY <1>1, <1>4, <4>1, <4>2, <5>1, OvertakenStep DEF tables
        <5> QED BY <2>7, <3>3, <4>4, <5>1, <5>2 DEF ApplyOK
      <4> QED BY <4>3, <4>4
    <3> QED BY <3>1, <3>2, <3>3
  <2>10. ProcOK(p)' BY <2>7, <2>9 DEF ProcOK
  <2> QED BY <2>1, <2>6, <2>8, <2>10, LocalStep
<1> QED BY <1>3, <1>4

(* A commit may overtake those who wait, and those only.                   *)
LEMMA CommitStep ==
  ASSUME Inv, NEW p \in Procs, Commit(p)
  PROVE  Inv'
<1> USE DEF Commit
<1>1. Latest(dialect) \in Nat /\ Latest(dialect) > 1 /\ dialect \in Dialects
  BY Entries DEF Inv, TypeOK
<1>2. ApplyOK(p) /\ writer = p BY DEF Inv, TypeOK, ProcOK
<1>3. proc[p].tables = Current(dialect)
  BY <1>1, <1>2 DEF ApplyOK, Overtaken, Current
<1>4. db' = [version |-> Latest(dialect), tables |-> Current(dialect)]
      /\ dialect' = dialect /\ writer' = Nobody
  BY <1>3
<1>5. /\ proc'[p] = [IdleProc EXCEPT !.pc = "serving"]
      /\ \A q \in Procs \ {p} : proc'[q] = proc[q] /\ writer # q
  BY <1>2 DEF Inv, TypeOK
<1>6. Current(dialect) \subseteq Tables /\ VersionTable(dialect) \subseteq Current(dialect)
  BY <1>1, TablesAreTables, CurrentTables DEF Current
<1>7. TypeOK'
  <2>1. proc' \in ProcTypes BY <1>1 DEF Inv, TypeOK, IdleProc, ProcTypes
  <2>2. ASSUME NEW q \in Procs
        PROVE  proc'[q].version <= proc'[q].next /\ proc'[q].pc # "apply"
    <3>1. CASE q = p BY <1>5, <3>1 DEF IdleProc
    <3>2. CASE q # p BY <1>5, <3>2 DEF Inv, TypeOK
    <3> QED BY <3>1, <3>2
  <2>3. db' \in [version : 0..(Latest(dialect) + 1), tables : SUBSET Tables]
    BY <1>1, <1>4, <1>6
  <2>4. \A q \in Procs : writer' # q BY <1>4, ConstantsAssumption
  <2> QED BY <1>1, <1>4, <2>1, <2>2, <2>3, <2>4 DEF TypeOK, ProcTypes
<1>8. DbOK' BY <1>1, <1>4 DEF DbOK, Current
<1>9. ASSUME NEW q \in Procs PROVE ProcOK(q)'
  <2>1. writer' # q BY <1>4, ConstantsAssumption
  <2>2. CASE q = p BY <1>4, <1>5, <2>2 DEF ProcOK, IdleProc
  <2>3. CASE q # p
    <3>1. ProcOK(q) /\ proc'[q] = proc[q] /\ proc[q].pc # "apply"
      BY <1>5, <2>3 DEF Inv, TypeOK
    <3> QED BY <1>4, <1>6, <2>1, <3>1 DEF ProcOK
  <2> QED BY <2>2, <2>3
<1> QED BY <1>7, <1>8, <1>9 DEF Inv

LEMMA NextInv == Inv /\ [Next]_vars => Inv'
<1> SUFFICES ASSUME Inv, [Next]_vars PROVE Inv'
  OBVIOUS
<1>1. CASE UNCHANGED vars
  BY <1>1 DEF vars, Inv, TypeOK, DbOK, ProcOK, ApplyOK
<1>2. ASSUME NEW p \in Procs, Open(p) \/ Start(p) \/ Exit(p) PROVE Inv'
  <2>1. CASE Exit(p) BY <2>1, ExitStep DEF Exit
  <2> QED BY <1>2, <2>1, OpenStep, CreateVersionTableStep, ReadVersionStep,
             FirstWriteStep, ApplyStep, CommitStep DEF Start
<1> QED BY <1>1, <1>2 DEF Next

THEOREM Invariant == Spec => []Inv
BY InitInv, NextInv, PTL DEF Spec

-----------------------------------------------------------------------------
(* Results                                                                 *)

(* Types; whoever applies migrations is the only one who has written       *)
(* (migrateSQLite and migratePostgres within their transaction).           *)
THEOREM TypeCorrect == Spec => []TypeOK
<1>1. Inv => TypeOK BY DEF Inv
<1> QED BY <1>1, Invariant, PTL

(* The version read by PRAGMA user_version or from schema_migrations is    *)
(* the version of the tables there are, whichever release left them, and   *)
(* however many processes migrate at once or stop half way.                *)
THEOREM SchemaStaysTrue == Spec => []SchemaIsTrue
<1>1. Inv => SchemaIsTrue
  <2> SUFFICES ASSUME Inv PROVE SchemaIsTrue
    OBVIOUS
  <2>1. Latest(dialect) \in Nat BY Entries DEF Inv, TypeOK
  <2> QED BY <2>1 DEF Inv, DbOK, SchemaIsTrue
<1> QED BY <1>1, Invariant, PTL

(* A process whose DB.Open has returned works on the tables of its         *)
(* release.                                                                *)
THEOREM ServingIsCurrent == Spec => []ServingHasItsSchema
<1>1. Inv => ServingHasItsSchema
  <2> SUFFICES ASSUME Inv PROVE ServingHasItsSchema
    OBVIOUS
  <2>1. Latest(dialect) \in Nat /\ Schema.makes \subseteq Current(dialect)
    BY Entries, CurrentTables DEF Inv, TypeOK
  <2> QED BY <2>1 DEF Inv, DbOK, ProcOK, ServingHasItsSchema, Current
<1> QED BY <1>1, Invariant, PTL
=============================================================================

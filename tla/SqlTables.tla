----------------------------- MODULE SqlTables ------------------------------
(***************************************************************************)
(* The catalog of the SQL layer and what hangs on it (sqlledger/database.go *)
(* createTable ... renameIndex; store.go loadCatalog, commit,               *)
(* reconcileScanSpace; table.go editors, Truncate, AUTO_INCREMENT):         *)
(* definitions and rows in the ledger, entries in the derived keyspaces,    *)
(* and a copy of the catalog with the AUTO_INCREMENT counters in memory.    *)
(*                                                                         *)
(* Every table has one AUTO_INCREMENT primary key; a row is its key.  Row   *)
(* values, unique indexes and savepoints are SqlTxn's subject.  A commit is *)
(* two backend writes, the ledger's and the keyspaces', under the store's   *)
(* lock; TRUNCATE and DROP TABLE hold the lock over a commit per chunk of   *)
(* rows.  A crash can fall between any two writes.                          *)
(*                                                                         *)
(* A statement takes its *tableDef from the catalog under a lock that it    *)
(* has released when it runs (GetTableInsensitive), and keeps it: the table  *)
(* may have been renamed, dropped or re-created in between.  Any *tableDef   *)
(* that this process has had can therefore turn up in a statement, and       *)
(* mem.name is the name it has (RENAME TABLE changes the object in place).   *)
(* CREATE, DROP and RENAME TABLE look the name up under the lock they run    *)
(* with.                                                                     *)
(***************************************************************************)
EXTENDS Integers, Sequences, FiniteSets, SequencesExt

CONSTANTS
    Sessions,
    Tables,         \* table names
    NoName,         \* no table name
    Indexes,        \* index names
    Narrow,         \* ids of tables whose AUTO_INCREMENT column has 8 or 16 bits
    Chunk,          \* scanChunkSize
    MaxTable,       \* bound: table ids
    MaxIndex,       \* bound: index ids
    MaxKey,         \* bound: keys
    SetValues,      \* bound: values that SetAutoIncrementValue is called with
    MaxBuffered,    \* bound: rows buffered by a session
    MaxCrashes      \* bound: crashes

ASSUME NamesAssumption == NoName \notin Tables

ASSUME TablesBoundsAssumption ==
    /\ Chunk \in Nat \ {0}
    /\ MaxTable \in Nat
    /\ MaxIndex \in Nat
    /\ MaxKey \in Nat
    /\ SetValues \subseteq Nat \ {0}
    /\ MaxBuffered \in Nat
    /\ MaxCrashes \in Nat

Ids  == 1..MaxTable
Keys == 1..MaxKey
None == 0               \* no id, no counter

VARIABLES
    led,        \* the ledger: catalog, rows and counters
    scan,       \* backend 'i': set of <<table id, key>>
    sec,        \* backend 'x': set of <<index id, key>>
    synced,     \* backend 'j': does the marker carry the ledger's version?
    mem,        \* Store: the catalog in memory, and a *tableDef per id
    phase,      \* down, drop, build (reconciling), up
    todo,       \* rows the rebuild has still to write
    half,       \* << >>, or the second write of the commit under way
    job,        \* the TRUNCATE or DROP TABLE that holds the lock
    buf,        \* session -> pending rows: <<id, key>> -> insert, delete, update
    given,      \* session -> the AUTO_INCREMENT value of its next row
    crashes,    \* number of crashes so far
    lowered,    \* rows that SetAutoIncrementValue set the counter back to or below
    skipped,    \* rows whose explicit value did not advance the counter
    late        \* dropped tables that this process still ran an index statement on

derived == <<scan, sec, synced>>
stmts   == <<buf, given>>
record  == <<lowered, skipped, late>>       \* history (not code)
vars    == <<led, derived, mem, phase, todo, half, job, stmts, crashes, record>>

NoDef == [id |-> None, idx |-> {}]
NoJob == [op |-> "none", id |-> None, name |-> NoName]
Empty == [p \in {} |-> ""]
NoGiven == [id |-> None, key |-> None]

-----------------------------------------------------------------------------
(* The catalog.                                                             *)

\* loadCatalog, loadTable: the copy a store opens with.  A counter that was
\* never written loads as 1.
LoadCatalog(l) ==
    [nextTable |-> l.nextTable,
     nextIndex |-> l.nextIndex,
     tables |-> [n \in Tables |-> IF n \in l.names THEN l.defs[n].id ELSE None],
     name |-> [i \in Ids |-> IF \E n \in l.names : l.defs[n].id = i
                             THEN CHOOSE n \in l.names : l.defs[n].id = i
                             ELSE NoName],
     idx |-> [i \in Ids |-> UNION {l.defs[n].idx : n \in {m \in l.names : l.defs[m].id = i}}],
     next |-> [i \in Ids |-> IF l.auto[i] = None THEN 1 ELSE l.auto[i]]]

Init ==
    /\ led = [nextTable |-> 1, nextIndex |-> 1, names |-> {},
              defs |-> [n \in Tables |-> NoDef], rows |-> {},
              auto |-> [i \in Ids |-> None]]
    /\ scan = {}
    /\ sec = {}
    /\ synced = TRUE
    /\ mem = LoadCatalog(led)
    /\ phase = "up"
    /\ todo = {}
    /\ half = << >>
    /\ job = NoJob
    /\ buf = [s \in Sessions |-> Empty]
    /\ given = [s \in Sessions |-> NoGiven]
    /\ crashes = 0
    /\ lowered = {}
    /\ skipped = {}
    /\ late = {}

Live == {mem.tables[n] : n \in Tables} \ {None}

\* The tables that a statement may hold a *tableDef of.
Handles == {i \in Ids : mem.name[i] # NoName}

\* Some call may take the store's lock.
Free == phase = "up" /\ half = << >> /\ job = NoJob

\* The first half of commit: the ledger batch.  The second half will write the
\* entries and the marker, and then the caller updates the catalog in memory
\* and goes on with its job.
Commit(l, i, x, m, j) ==
    /\ led' = l
    /\ synced' = (synced /\ l = led)
    /\ half' = <<[scan |-> i, sec |-> x, mem |-> m, job |-> j]>>
    /\ UNCHANGED <<scan, sec, phase, todo, crashes>>

\* The second half.
CommitDerived ==
    /\ half # << >>
    /\ scan' = half[1].scan
    /\ sec' = half[1].sec
    /\ synced' = TRUE
    /\ mem' = half[1].mem
    /\ job' = half[1].job
    /\ half' = << >>
    /\ UNCHANGED <<led, phase, todo, stmts, crashes, record>>

\* A DDL statement: a commit that leaves the sessions' statements alone.
Ddl(l, x, m) ==
    /\ Free
    /\ Commit(l, scan, x, m, NoJob)
    /\ UNCHANGED <<mem, job, stmts, lowered, skipped>>

\* catalogOps: the meta entry and one table's definition.
CatalogOps(names, n, def) ==
    [led EXCEPT !.names = names, !.defs[n] = def]

\* Mutant of CreateTable: ids are numbered by the tables there are.
CreateTableCounts(n) ==
    LET id == Cardinality(led.names) + 1
    IN  /\ mem.tables[n] = None
        /\ id =< MaxTable
        /\ Ddl([CatalogOps(led.names \cup {n}, n, [id |-> id, idx |-> {}])
                    EXCEPT !.nextTable = id + 1],
               sec,
               [mem EXCEPT !.nextTable = id + 1, !.tables[n] = id, !.name[id] = n,
                           !.idx[id] = {}, !.next[id] = 1])
        /\ UNCHANGED late

CreateTable(n) ==
    LET id == mem.nextTable
    IN  /\ mem.tables[n] = None
        /\ id =< MaxTable
        /\ Ddl([CatalogOps(led.names \cup {n}, n, [id |-> id, idx |-> {}])
                    EXCEPT !.nextTable = id + 1],
               sec,
               [mem EXCEPT !.nextTable = id + 1, !.tables[n] = id, !.name[id] = n,
                           !.idx[id] = {}, !.next[id] = 1])
        /\ UNCHANGED late

RenameTable(old, new) ==
    LET id == mem.tables[old]
    IN  /\ id # None
        /\ mem.tables[new] = None
        /\ Ddl([CatalogOps((led.names \ {old}) \cup {new}, new,
                           [id |-> id, idx |-> mem.idx[id]])
                    EXCEPT !.defs[old] = NoDef],
               sec,
               [mem EXCEPT !.tables[old] = None, !.tables[new] = id, !.name[id] = new])
        /\ UNCHANGED late

IndexNames(i) == {x[1] : x \in mem.idx[i]}

\* Mutant of SetIndexes: the catalog in memory keeps its indexes.
SetIndexesLedgerOnly(i, idx, entries, m) ==
    /\ i \in Handles
    /\ Ddl([CatalogOps(led.names, mem.name[i], [id |-> i, idx |-> idx])
                EXCEPT !.nextIndex = m.nextIndex],
           entries, m)
    /\ late' = late \cup ({i} \ Live)

\* The rewrite of the indexes of a *tableDef: catalogOps puts the definition under
\* its name, whatever the catalog has there by now.
SetIndexes(i, idx, entries, m) ==
    /\ i \in Handles
    /\ Ddl([CatalogOps(led.names, mem.name[i], [id |-> i, idx |-> idx])
                EXCEPT !.nextIndex = m.nextIndex],
           entries,
           [m EXCEPT !.idx[i] = idx])
    /\ late' = late \cup ({i} \ Live)

\* The catalog first, then an entry for every row the scan space shows.
CreateIndex(i, x) ==
    LET id == mem.nextIndex
    IN  /\ x \notin IndexNames(i)
        /\ id =< MaxIndex
        /\ SetIndexes(i, mem.idx[i] \cup {<<x, id>>},
                      sec \cup {<<id, e[2]>> : e \in {f \in scan : f[1] = i}},
                      [mem EXCEPT !.nextIndex = id + 1])

DropIndex(i, x) ==
    \E y \in mem.idx[i] :
        /\ y[1] = x
        /\ SetIndexes(i, mem.idx[i] \ {y}, {e \in sec : e[1] # y[2]}, mem)

\* (The first index of the name; the new name is not compared with the others.)
RenameIndex(i, from, to) ==
    /\ from # to
    /\ \E y \in mem.idx[i] :
        /\ y[1] = from
        /\ SetIndexes(i, (mem.idx[i] \ {y}) \cup {<<to, y[2]>>}, sec, mem)

\* A statement on a table that is not there: ErrTableNotFound.
TableNotFound(n) ==
    /\ Free
    /\ mem.tables[n] = None
    /\ UNCHANGED vars

-----------------------------------------------------------------------------
(* TRUNCATE and DROP TABLE.                                                 *)

\* The entries of a row in the indexes of its table.
IndexEntries(i, keys) == {<<x[2], k>> : x \in mem.idx[i], k \in keys}

KeysOf(S, i) == {e[2] : e \in {f \in S : f[1] = i}}

\* The rows that the statement's session has buffered for the table are
\* discarded first.  own is that session, or empty for a session without any.
StartJob(own, op, i, n) ==
    LET Kept(b) == [p \in {q \in DOMAIN b : q[1] # i} |-> b[p]]
    IN  /\ Free
        /\ job' = [op |-> op, id |-> i, name |-> n]
        /\ buf' = [s \in Sessions |-> IF s \in own THEN Kept(buf[s]) ELSE buf[s]]
        /\ UNCHANGED <<led, derived, mem, phase, todo, half, given, crashes, record>>

Truncate(own, i) == i \in Handles /\ StartJob(own, "truncate", i, mem.name[i])

DropTable(own, n) == mem.tables[n] # None /\ StartJob(own, "drop", mem.tables[n], n)

\* One commit per chunk of the scan space, until it shows no row.
DeleteChunk ==
    LET i    == job.id
        keys == SetToSortSeq(KeysOf(scan, i), <)
        del  == {keys[k] : k \in {j \in DOMAIN keys : j =< Chunk}}
    IN  /\ job # NoJob
        /\ phase = "up"
        /\ half = << >>
        /\ keys # << >>
        /\ Commit([led EXCEPT !.rows = @ \ ({i} \X del)],
                  scan \ ({i} \X del), sec \ IndexEntries(i, del), mem, job)
        /\ UNCHANGED <<mem, job, stmts, record>>

\* Mutant of LoopDone: the loop ends after a chunk.
LoopDoneEarly == job # NoJob /\ phase = "up" /\ half = << >>

LoopDone ==
    /\ job # NoJob
    /\ phase = "up"
    /\ half = << >>
    /\ KeysOf(scan, job.id) = {}

TruncateReturns ==
    /\ LoopDone
    /\ job.op = "truncate"
    /\ job' = NoJob
    /\ UNCHANGED <<led, derived, mem, phase, todo, half, stmts, crashes, record>>

\* The definition, the counter and the catalog reference go in one batch.
DropReturns ==
    /\ LoopDone
    /\ job.op = "drop"
    /\ Commit([led EXCEPT !.names = @ \ {job.name}, !.defs[job.name] = NoDef,
                          !.auto[job.id] = None],
              scan, sec, [mem EXCEPT !.tables[job.name] = None], NoJob)
    /\ UNCHANGED <<mem, job, stmts, record>>

-----------------------------------------------------------------------------
(* Rows and counters.                                                       *)

Pend(s, i, k, op) ==
    buf' = [buf EXCEPT ![s] =
                [p \in DOMAIN @ \cup {<<i, k>>} |-> IF p = <<i, k>> THEN op ELSE @[p]]]

\* GetNextAutoIncrementValue without a value: it is handed out once, whatever
\* becomes of the row.
GetNextAutoIncrementValue(s, i) ==
    /\ Free
    /\ i \in Handles
    /\ given[s] = NoGiven
    /\ Cardinality(DOMAIN buf[s]) < MaxBuffered
    /\ mem.next[i] =< MaxKey
    /\ given' = [given EXCEPT ![s] = [id |-> i, key |-> mem.next[i]]]
    /\ mem' = [mem EXCEPT !.next[i] = @ + 1]
    /\ UNCHANGED <<led, derived, phase, todo, half, job, buf, crashes, record>>

\* Mutant of Advanced: off by one.
AdvancedPast(next, k) == IF k > next THEN k + 1 ELSE next

\* A value at or past the counter advances it.
Advanced(next, k) == IF k >= next THEN k + 1 ELSE next

\* Does the session's transaction see the row?
Sees(s, p) == IF p \in DOMAIN buf[s] THEN buf[s][p] # "delete" ELSE p \in led.rows

\* tableEditor.Insert of a row with the value handed out, or with an explicit one
\* (the engine passes that on in the row only).  It advances the counter, then
\* refuses a duplicate (the statement's rows are discarded).  Its type switch has
\* no case for the Go types of 8 and 16 bit columns: their values leave the
\* counter as it is.
Insert(s, i, k) ==
    /\ Free
    /\ i \in Handles
    /\ \/ given[s] = [id |-> i, key |-> k]
       \/ given[s] = NoGiven /\ Cardinality(DOMAIN buf[s]) < MaxBuffered
    /\ IF i \in Narrow
       THEN /\ UNCHANGED mem
            /\ skipped' = IF k >= mem.next[i] THEN skipped \cup {<<i, k>>} ELSE skipped
       ELSE /\ mem' = [mem EXCEPT !.next[i] = Advanced(@, k)]
            /\ UNCHANGED skipped
    /\ IF Sees(s, <<i, k>>)
       THEN UNCHANGED buf
       ELSE Pend(s, i, k, IF <<i, k>> \in DOMAIN buf[s] THEN "update" ELSE "insert")
    /\ given' = [given EXCEPT ![s] = NoGiven]
    /\ UNCHANGED <<led, derived, phase, todo, half, job, crashes, lowered, late>>

\* tableEditor.Delete of a committed row.
Delete(s, i, k) ==
    /\ Free
    /\ i \in Handles
    /\ given[s] = NoGiven
    /\ Cardinality(DOMAIN buf[s]) < MaxBuffered
    /\ <<i, k>> \in led.rows
    /\ <<i, k>> \notin DOMAIN buf[s]
    /\ Pend(s, i, k, "delete")
    /\ UNCHANGED <<led, derived, mem, phase, todo, half, job, given, crashes, record>>

\* buildRowOps for every pending row and the counter of every table named, in
\* one batch.
Apply(s) ==
    LET ps   == DOMAIN buf[s]
        put  == {p \in ps : buf[s][p] # "delete"}
        del  == ps \ put
        x(P) == UNION {IndexEntries(p[1], {p[2]}) : p \in P}
        ids  == {p[1] : p \in ps}
        past == {p \in ids \X Keys : p[2] < mem.next[p[1]]}
    IN  /\ Commit([led EXCEPT !.rows = (@ \ del) \cup put,
                              !.auto = [i \in Ids |-> IF i \in ids THEN mem.next[i]
                                                                  ELSE @[i]]],
                  (scan \ del) \cup put, (sec \ x(del)) \cup x(put), mem, NoJob)
        /\ buf' = [buf EXCEPT ![s] = Empty]
        /\ lowered' = lowered \ past
        /\ skipped' = skipped \ past
        /\ UNCHANGED <<mem, job, given, late>>

\* commitTxn: a dropped table, or a row that is not as the transaction found
\* it, is a conflict.
TxnValid(s) ==
    \A p \in DOMAIN buf[s] :
        /\ p[1] \in Live
        /\ buf[s][p] = "insert" <=> p \notin led.rows

Ending(s) == Free /\ given[s] = NoGiven /\ buf[s] # Empty

CommitTxn(s) == Ending(s) /\ TxnValid(s) /\ Apply(s)

Rollback(s) ==
    /\ Ending(s)
    /\ buf' = [buf EXCEPT ![s] = Empty]
    /\ UNCHANGED <<led, derived, mem, phase, todo, half, job, given, crashes, record>>

\* tableEditor.Close of a session that is not the store's own: the definition
\* the editor was opened with is used as it is, its table may be gone.
CloseDirect(s) == Ending(s) /\ Apply(s)

SetAutoIncrementValue(i, v) ==
    /\ Free
    /\ i \in Handles
    /\ Commit([led EXCEPT !.auto[i] = v], scan, sec,
              [mem EXCEPT !.next[i] = v], NoJob)
    /\ lowered' = lowered \cup {p \in led.rows \cup UNION {DOMAIN buf[s] : s \in Sessions} :
                                    p[1] = i /\ p[2] >= v}
    /\ UNCHANGED <<mem, job, stmts, skipped, late>>

-----------------------------------------------------------------------------
(* Crash and reconciliation.                                                *)

Crash ==
    /\ phase # "down"
    /\ crashes < MaxCrashes
    /\ crashes' = crashes + 1
    /\ phase' = "down"
    /\ todo' = {}
    /\ half' = << >>
    /\ job' = NoJob
    /\ buf' = [s \in Sessions |-> Empty]
    /\ given' = [s \in Sessions |-> NoGiven]
    /\ late' = {}
    /\ UNCHANGED <<led, derived, mem, lowered, skipped>>

Open ==
    /\ phase = "down"
    /\ mem' = LoadCatalog(led)
    /\ phase' = IF synced THEN "up" ELSE "drop"
    /\ UNCHANGED <<led, derived, todo, half, job, stmts, crashes, record>>

\* The scan space of all tables is dropped in chunks.
ReconcileDrop ==
    /\ phase = "drop"
    /\ IF scan = {}
       THEN phase' = "build" /\ todo' = led.rows /\ scan' = scan
       ELSE /\ \E e \in scan : scan' = scan \ {e}
            /\ UNCHANGED <<phase, todo>>
    /\ UNCHANGED <<led, sec, synced, mem, half, job, stmts, crashes, record>>

\* Mutant of ReconcileBuild: rows are re-entered without their index entries.
ReconcileBuildRowsOnly ==
    /\ phase = "build"
    /\ IF todo = {}
       THEN /\ phase' = "up"
            /\ synced' = TRUE
            /\ UNCHANGED <<scan, sec, todo>>
       ELSE \E p \in todo :
            /\ todo' = todo \ {p}
            /\ scan' = IF p[1] \in Live THEN scan \cup {p} ELSE scan
            /\ UNCHANGED <<phase, synced, sec>>
    /\ UNCHANGED <<led, mem, half, job, stmts, crashes, record>>

\* Every leaf of a table in the catalog is entered again; rows of dropped tables
\* are passed over.  The last batch carries the marker.
ReconcileBuild ==
    /\ phase = "build"
    /\ IF todo = {}
       THEN /\ phase' = "up"
            /\ synced' = TRUE
            /\ UNCHANGED <<scan, sec, todo>>
       ELSE \E p \in todo :
            /\ todo' = todo \ {p}
            /\ IF p[1] \in Live
               THEN /\ scan' = scan \cup {p}
                    /\ sec' = sec \cup IndexEntries(p[1], {p[2]})
               ELSE UNCHANGED <<scan, sec>>
            /\ UNCHANGED <<phase, synced>>
    /\ UNCHANGED <<led, mem, half, job, stmts, crashes, record>>

-----------------------------------------------------------------------------
DdlStep ==
    \/ \E n \in Tables : CreateTable(n) \/ TableNotFound(n)
    \/ \E old, new \in Tables : RenameTable(old, new)
    \/ \E i \in Ids, x \in Indexes : CreateIndex(i, x) \/ DropIndex(i, x)
    \/ \E i \in Ids, from, to \in Indexes : RenameIndex(i, from, to)
    \/ \E own \in {{}} \cup {{s} : s \in Sessions} :
        \/ \E i \in Ids : Truncate(own, i)
        \/ \E n \in Tables : DropTable(own, n)
    \/ DeleteChunk
    \/ TruncateReturns
    \/ DropReturns
    \/ \E i \in Ids, v \in SetValues : SetAutoIncrementValue(i, v)

RowStep(s) ==
    \/ \E i \in Ids : GetNextAutoIncrementValue(s, i)
    \/ \E i \in Ids, k \in Keys : Insert(s, i, k) \/ Delete(s, i, k)
    \/ CommitTxn(s)
    \/ Rollback(s)
    \/ CloseDirect(s)

Next ==
    \/ DdlStep
    \/ \E s \in Sessions : RowStep(s)
    \/ CommitDerived
    \/ Crash
    \/ Open
    \/ ReconcileDrop
    \/ ReconcileBuild

Spec == Init /\ [][Next]_vars

-----------------------------------------------------------------------------
(* Properties.                                                              *)

\* The catalog of a ledger that can be opened: every name has its definition
\* and no two tables or indexes share an id.
CatalogOpens(l) ==
    /\ \A n \in l.names : l.defs[n] # NoDef
    /\ \A m, n \in l.names :
        m # n => /\ l.defs[m].id # l.defs[n].id
                 /\ \A x \in l.defs[m].idx, y \in l.defs[n].idx : x[2] # y[2]

\* After a crash anywhere the catalog loads.  A store that opened now would load
\* the names and the next ids of the running store, and under each name a
\* definition, with its indexes, that the running store has under that name: the
\* one it serves, or that of a dropped table of the name if an index statement
\* still ran on it (createIndex, dropIndex, renameIndex take the *tableDef).
CatalogDurable ==
    /\ CatalogOpens(led)
    /\ (phase # "down" /\ half = << >>) =>
        LET loaded == LoadCatalog(led)
        IN  /\ mem.nextTable = loaded.nextTable
            /\ mem.nextIndex = loaded.nextIndex
            /\ \A n \in Tables : mem.tables[n] = None <=> loaded.tables[n] = None
            /\ \A n \in led.names :
                LET i == loaded.tables[n]
                IN  /\ mem.name[i] = n
                    /\ mem.idx[i] = loaded.idx[i]
                    /\ i = mem.tables[n] \/ i \in late

\* The rows and entries of the tables of a catalog are in step.
InStep(catalog) ==
    \A n \in Tables :
        LET i == catalog.tables[n]
        IN  i # None =>
            /\ KeysOf(scan, i) = KeysOf(led.rows, i)
            /\ \A x \in catalog.idx[i] : KeysOf(led.rows, i) \subseteq KeysOf(sec, x[2])

\* A marker that carries the ledger's version, after a crash anywhere in a DDL
\* statement, a TRUNCATE or a rebuild, vouches for a scan space with exactly
\* the rows and indexes that miss none; a store that serves has both.
TablesInStep ==
    /\ synced => InStep(LoadCatalog(led))
    /\ (phase = "up" /\ half = << >>) => InStep(mem)

\* Ids are never used again: what rows, counters and entries an id that has not
\* been handed out could inherit, from a dropped table, a direct writer that
\* came late or a crash, do not exist.  CREATE TABLE and CREATE INDEX start
\* empty.
FreshIds ==
    /\ \A i \in Ids : i >= led.nextTable =>
        KeysOf(led.rows, i) = {} /\ KeysOf(scan, i) = {} /\ led.auto[i] = None
    /\ \A i \in 1..MaxIndex : i >= led.nextIndex => KeysOf(sec, i) = {}

\* TRUNCATE and DROP TABLE return only when no row of the table is left.
EmptiedOnReturn ==
    [][(job # NoJob /\ job' = NoJob /\ phase' = "up") =>
            KeysOf(led'.rows, job.id) = {} /\ KeysOf(scan', job.id) = {}]_vars

\* No AUTO_INCREMENT value is handed out that a committed row has: the counter
\* in memory, and the one a crash falls back to, are past every key.  The rows of
\* which this is not true are those that were there, or buffered, when
\* SetAutoIncrementValue set the counter back, and those whose explicit value
\* Insert's type switch passed over, and only until a commit of the table has
\* written a counter that is past them.
AutoIncFresh ==
    \A p \in led.rows \ (lowered \cup skipped) :
        /\ p[1] \in {led.defs[n].id : n \in led.names} => p[2] < LoadCatalog(led).next[p[1]]
        /\ (phase = "up" /\ p[1] \in Live) => p[2] < mem.next[p[1]]

-----------------------------------------------------------------------------
(* The inductive invariant behind them.                                     *)

Index == Indexes \X (1..MaxIndex)

Ledger ==
    [nextTable : 1..MaxTable + 1, nextIndex : 1..MaxIndex + 1, names : SUBSET Tables,
     defs : [Tables -> [id : 0..MaxTable, idx : SUBSET Index]],
     rows : SUBSET (Ids \X Keys), auto : [Ids -> Nat]]

Memory ==
    [nextTable : 1..MaxTable + 1, nextIndex : 1..MaxIndex + 1,
     tables : [Tables -> 0..MaxTable], name : [Ids -> Tables \cup {NoName}],
     idx : [Ids -> SUBSET Index], next : [Ids -> Nat \ {0}]]

Job == {NoJob} \cup [op : {"truncate", "drop"}, id : Ids, name : Tables]

Half ==
    [scan : SUBSET (Ids \X Keys), sec : SUBSET ((1..MaxIndex) \X Keys),
     mem : Memory, job : Job]

Buffer == UNION {[D -> {"insert", "delete", "update"}] : D \in SUBSET (Ids \X Keys)}

\* Every variable holds a value of its kind.
TypeOK ==
    /\ led \in Ledger
    /\ scan \subseteq Ids \X Keys
    /\ sec \subseteq (1..MaxIndex) \X Keys
    /\ synced \in BOOLEAN
    /\ mem \in Memory
    /\ phase \in {"down", "drop", "build", "up"}
    /\ todo \subseteq Ids \X Keys
    /\ half = << >> \/ (half = <<half[1]>> /\ half[1] \in Half)
    /\ job \in Job
    /\ buf \in [Sessions -> Buffer]
    /\ given \in [Sessions -> {NoGiven} \cup [id : Ids, key : Keys]]
    /\ crashes \in Nat
    /\ lowered \subseteq Ids \X Keys
    /\ skipped \subseteq Ids \X Keys
    /\ late \subseteq Ids

\* Memory and keyspaces as they will be when the commit under way is through.
Settled ==
    IF half = << >> THEN [scan |-> scan, sec |-> sec, mem |-> mem, job |-> job]
    ELSE half[1]

\* The definitions in the ledger.  Index statements on dropped tables can leave
\* one that the catalog does not name.
Defined(l) == {n \in Tables : l.defs[n] # NoDef}

\* The catalog in the ledger: its ids are below the counters and are not shared.
LedgerSound(l) ==
    /\ l.names \subseteq Defined(l)
    /\ \A n \in Defined(l) : l.defs[n].id \in Ids /\ l.defs[n].id < l.nextTable
    /\ \A n \in Defined(l) : \A x \in l.defs[n].idx : x[2] < l.nextIndex
    /\ \A m, n \in Defined(l) :
        /\ l.defs[m].id = l.defs[n].id => m = n
        /\ \A x \in l.defs[m].idx, y \in l.defs[n].idx : x[2] = y[2] => m = n /\ x = y

\* The catalog m of a store on the ledger l, whose index statements came late for
\* the tables in lt: the tables that the catalog names, the definitions it has a
\* copy of, and the ids.
NamesOf(m, l, lt) ==
    /\ m.nextTable = l.nextTable
    /\ m.nextIndex = l.nextIndex
    /\ \A n \in Tables : IF n \in l.names
                         THEN m.tables[n] \in Ids /\ m.name[m.tables[n]] = n
                         ELSE m.tables[n] = None
    /\ \A i \in Ids : m.name[i] # NoName => i < m.nextTable
    /\ \A n \in l.names : /\ m.name[l.defs[n].id] # NoName
                          /\ l.defs[n].id = m.tables[n] \/ l.defs[n].id \in lt

IndexesOf(m, l) ==
    /\ \A n \in Defined(l) : m.name[l.defs[n].id] # NoName =>
        m.name[l.defs[n].id] = n /\ m.idx[l.defs[n].id] = l.defs[n].idx
    /\ \A i, j \in Ids : \A x \in m.idx[i], y \in m.idx[j] : x[2] = y[2] => i = j /\ x = y
    /\ \A i \in Ids : \A x \in m.idx[i] : x[2] < m.nextIndex
    /\ \A n \in Defined(l), j \in Ids : \A x \in l.defs[n].idx, y \in m.idx[j] :
        x[2] = y[2] => l.defs[n].id = j /\ x = y

CopyOf(m, l, lt) == NamesOf(m, l, lt) /\ IndexesOf(m, l)

\* Rows and entries of the catalog's tables in step, but for the rows in P.
InStepBut(l, sc, se, P) ==
    \A n \in l.names, k \in Keys :
        LET p == <<l.defs[n].id, k>>
        IN  p \notin P => /\ p \in sc <=> p \in l.rows
                          /\ p \in l.rows => \A x \in l.defs[n].idx : <<x[2], k>> \in se

\* Rows and entries in step of every table that a statement can have.
HandlesInStep(m, l, sc, se) ==
    \A i \in Ids, k \in Keys : m.name[i] # NoName =>
        /\ <<i, k>> \in sc <=> <<i, k>> \in l.rows
        /\ <<i, k>> \in l.rows => \A x \in m.idx[i] : <<x[2], k>> \in se

\* An id that has not been handed out has no rows and no entries.
FreshIn(l, sc, se) ==
    /\ \A p \in l.rows \cup sc : p[1] < l.nextTable
    /\ \A i \in Ids : i >= l.nextTable => l.auto[i] = None
    /\ \A e \in se : e[1] < l.nextIndex

Loaded(a) == IF a = None THEN 1 ELSE a

\* The rows whose keys the counter may not be past.
Exempt == lowered \cup skipped

\* The counters of the copy m: past those of the ledger l, and past the rows
\* inserted in the buffers b, but for the rows in low.
CountersOf(m, l, b, low) ==
    /\ \A i \in Ids : Loaded(l.auto[i]) =< m.next[i]
    /\ \A s \in Sessions, i \in Ids, k \in Keys :
        (<<i, k>> \in DOMAIN b[s] /\ b[s][<<i, k>>] # "delete" /\ <<i, k>> \notin low)
            => k < m.next[i]

KeyspacesInv ==
    /\ FreshIn(led, scan, sec) /\ FreshIn(led, Settled.scan, Settled.sec)
    /\ synced => InStepBut(led, scan, sec, {})
    /\ phase = "up" => HandlesInStep(Settled.mem, led, Settled.scan, Settled.sec)
    /\ phase = "up" /\ half = << >> => synced
    /\ phase \in {"drop", "build"} => ~synced /\ mem = LoadCatalog(led)
    /\ phase = "build" => InStepBut(led, scan, sec, todo) /\ scan \cup todo \subseteq led.rows
                          /\ scan \cap todo = {}

\* The table of the job j: one that a statement can have, and for DROP TABLE the
\* catalog's.
JobHas(j, m) ==
    j # NoJob => /\ m.name[j.id] # NoName
                 /\ j.op = "drop" => m.tables[j.name] = j.id

JobInv ==
    /\ half # << >> \/ job # NoJob => phase = "up"
    /\ Settled.job \in {NoJob, job}
    /\ JobHas(Settled.job, Settled.mem)
    /\ (job # NoJob /\ Settled.job = NoJob) =>
        \A k \in Keys : <<job.id, k>> \notin led.rows \cup Settled.scan

StatementsInv ==
    \A s \in Sessions :
        /\ \A p \in DOMAIN buf[s] : p[1] < led.nextTable
        /\ given[s].id < led.nextTable
        /\ phase = "down" => DOMAIN buf[s] = {}

CountersInv ==
    /\ \A p \in led.rows : p \notin Exempt =>
        /\ p[2] < Loaded(led.auto[p[1]])
        /\ phase = "up" => p[2] < mem.next[p[1]]
    /\ phase # "down" => CountersOf(Settled.mem, led, buf, Exempt)

TablesInv ==
    /\ TypeOK
    /\ LedgerSound(led)
    /\ phase # "down" => CopyOf(Settled.mem, led, late)
    /\ KeyspacesInv
    /\ JobInv
    /\ StatementsInv
    /\ CountersInv
=============================================================================

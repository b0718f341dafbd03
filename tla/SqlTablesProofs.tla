--------------------------- MODULE SqlTablesProofs ---------------------------
(***************************************************************************)
(* Proofs about SqlTables: a reopened store loads the names and ids of the   *)
(* running one, with definitions that the running one has; rows and entries *)
(* of every table are in step whenever the marker or the store vouches for  *)
(* them; ids are never used again; and the AUTO_INCREMENT counters are past  *)
(* every row but those that the code leaves behind.  For any number of       *)
(* sessions, tables, indexes, rows and crashes, any chunk size, and any      *)
(* *tableDef that a statement still has.                                     *)
(***************************************************************************)
EXTENDS SqlTables, TLAPS

-----------------------------------------------------------------------------
(* Types.                                                                   *)

\* The keys of an id in a set of pairs.
LEMMA KeysOfIs ==
    ASSUME NEW A, NEW S \in SUBSET (A \X Keys), NEW i
    PROVE  /\ KeysOf(S, i) \subseteq Keys
           /\ \A k \in Keys : k \in KeysOf(S, i) <=> <<i, k>> \in S
BY DEF KeysOf

\* The fields of the ledger.
LEMMA LedgerFields ==
    ASSUME NEW l \in Ledger
    PROVE  /\ l.nextTable \in 1 .. MaxTable + 1 /\ l.nextIndex \in 1 .. MaxIndex + 1
           /\ l.names \subseteq Tables
           /\ l.defs \in [Tables -> [id : 0 .. MaxTable, idx : SUBSET Index]]
           /\ l.rows \subseteq Ids \X Keys /\ l.auto \in [Ids -> Nat]
BY DEF Ledger

\* The fields of the catalog in memory.
LEMMA MemoryFields ==
    ASSUME NEW m \in Memory
    PROVE  /\ m.nextTable \in 1 .. MaxTable + 1 /\ m.nextIndex \in 1 .. MaxIndex + 1
           /\ m.tables \in [Tables -> 0 .. MaxTable]
           /\ m.name \in [Ids -> Tables \cup {NoName}]
           /\ m.idx \in [Ids -> SUBSET Index] /\ m.next \in [Ids -> Nat \ {0}]
BY DEF Memory

\* The catalog with another counter.
LEMMA CounterSet ==
    ASSUME NEW m \in Memory, NEW i \in Ids, NEW v \in Nat \ {0}
    PROVE  LET w == [m EXCEPT !.next[i] = v]
           IN  /\ w \in Memory
               /\ w.nextTable = m.nextTable /\ w.nextIndex = m.nextIndex
               /\ w.tables = m.tables /\ w.name = m.name /\ w.idx = m.idx
               /\ w.next = [m.next EXCEPT ![i] = v]
<1>1. [m.next EXCEPT ![i] = v] \in [Ids -> Nat \ {0}]
  BY MemoryFields
<1> QED
  BY <1>1 DEF Memory

\* The empty buffer.
LEMMA EmptyIs ==
    Empty \in Buffer /\ DOMAIN Empty = {}
<1>1. Empty \in [{} -> {"insert", "delete", "update"}] /\ {} \in SUBSET (Ids \X Keys)
  BY DEF Empty
<1> QED
  BY <1>1 DEF Buffer, Empty

\* What a buffer is.
LEMMA BufferIs ==
    ASSUME NEW b \in Buffer
    PROVE  DOMAIN b \subseteq Ids \X Keys /\ b \in [DOMAIN b -> {"insert", "delete", "update"}]
BY DEF Buffer

\* A function from some of the rows to operations is a buffer.
LEMMA BufferFrom ==
    ASSUME NEW D \in SUBSET (Ids \X Keys), NEW b \in [D -> {"insert", "delete", "update"}]
    PROVE  b \in Buffer
BY DEF Buffer

\* The state between commits, and in the middle of one.
LEMMA SettledIs ==
    /\ half = << >> => /\ Settled.scan = scan /\ Settled.sec = sec
                       /\ Settled.mem = mem /\ Settled.job = job
    /\ half # << >> => Settled = half[1]
BY DEF Settled

-----------------------------------------------------------------------------
(* The two kinds of steps of a store that serves.                           *)

\* A step between commits that leaves ledger and keyspaces alone: counters may
\* advance, a job may start or end, statements may go on.
LEMMA QuietKeeps ==
    ASSUME TablesInv, phase = "up", half = << >>,
           led' = led, scan' = scan, sec' = sec, synced' = synced, phase' = phase,
           todo' = todo, half' = half, crashes' = crashes, lowered' = lowered, late' = late,
           skipped' \in SUBSET (Ids \X Keys), skipped \subseteq skipped',
           mem' \in Memory,
           mem'.nextTable = mem.nextTable, mem'.nextIndex = mem.nextIndex,
           mem'.tables = mem.tables, mem'.name = mem.name, mem'.idx = mem.idx,
           \A i \in Ids : mem.next[i] =< mem'.next[i],
           job' \in Job, JobHas(job', mem),
           buf' \in [Sessions -> Buffer],
           given' \in [Sessions -> {NoGiven} \cup [id : Ids, key : Keys]],
           \A s \in Sessions : \A p \in DOMAIN buf'[s] : p[1] < led.nextTable,
           \A s \in Sessions : given'[s].id < led.nextTable,
           CountersOf(mem', led, buf', lowered \cup skipped')
    PROVE  TablesInv'
<1>1. TypeOK'
  BY DEF TablesInv, TypeOK
<1>2. /\ Settled.scan = scan /\ Settled.sec = sec /\ Settled.mem = mem /\ Settled.job = job
      /\ Settled'.scan = scan /\ Settled'.sec = sec /\ Settled'.mem = mem'
      /\ Settled'.job = job'
  BY DEF Settled
<1>3. LedgerSound(led)'
  BY DEF TablesInv, LedgerSound
<1>4. CopyOf(Settled.mem, led, late)'
  BY <1>2 DEF TablesInv, CopyOf, NamesOf, IndexesOf
<1>5. KeyspacesInv'
  BY <1>2 DEF TablesInv, KeyspacesInv, FreshIn, InStepBut, HandlesInStep
<1>6. JobInv'
  BY <1>2 DEF JobInv, JobHas
<1>7. StatementsInv'
  BY DEF StatementsInv
<1>8. CountersInv'
  <2>1. \A p \in led.rows : p[1] \in Ids
    BY LedgerFields DEF TablesInv, TypeOK
  <2>2. \A p \in led.rows : p[2] \in Keys
    BY LedgerFields DEF TablesInv, TypeOK
  <2>3. mem.next \in [Ids -> Nat \ {0}] /\ mem'.next \in [Ids -> Nat \ {0}]
    BY MemoryFields DEF TablesInv, TypeOK
  <2>4. \A p \in led.rows : p \notin Exempt => p[2] < mem'.next[p[1]]
    BY <2>1, <2>2, <2>3 DEF TablesInv, CountersInv, Keys
  <2>5. Exempt \subseteq Exempt' /\ Exempt' = lowered \cup skipped'
    BY DEF Exempt
  <2> QED
    BY <1>2, <2>4, <2>5 DEF TablesInv, CountersInv, CountersOf
<1> QED
  BY <1>1, <1>3, <1>4, <1>5, <1>6, <1>7, <1>8 DEF TablesInv

\* The first write of a commit, between commits.
LEMMA CommitKeeps ==
    ASSUME TablesInv, phase = "up", half = << >>,
           NEW l \in Ledger, NEW i \in SUBSET (Ids \X Keys),
           NEW x \in SUBSET ((1 .. MaxIndex) \X Keys), NEW m \in Memory, NEW j \in Job,
           Commit(l, i, x, m, j), mem' = mem, job' = job, given' = given,
           LedgerSound(l), CopyOf(m, l, late'), l.nextTable >= led.nextTable,
           FreshIn(l, scan, sec), FreshIn(l, i, x), HandlesInStep(m, l, i, x),
           j \in {NoJob, job}, JobHas(j, m),
           (job # NoJob /\ j = NoJob) => \A k \in Keys : <<job.id, k>> \notin l.rows \cup i,
           buf' \in [Sessions -> Buffer],
           \A s \in Sessions : \A p \in DOMAIN buf'[s] : p[1] < l.nextTable,
           lowered' \in SUBSET (Ids \X Keys), skipped' \in SUBSET (Ids \X Keys),
           late' \in SUBSET Ids, CountersOf(m, l, buf', Exempt'),
           \A p \in l.rows : p \notin Exempt' =>
               p[2] < Loaded(l.auto[p[1]]) /\ p[2] < mem.next[p[1]]
    PROVE  TablesInv'
<1> DEFINE h == [scan |-> i, sec |-> x, mem |-> m, job |-> j]
<1>1. /\ led' = l /\ synced' = (synced /\ l = led) /\ half' = <<h>>
      /\ scan' = scan /\ sec' = sec /\ phase' = phase /\ todo' = todo /\ crashes' = crashes
  BY DEF Commit
<1>2. h \in Half
  BY DEF Half
<1>3. half' # << >> /\ half'[1] = h
  BY <1>1
<1>4. /\ Settled'.scan = i /\ Settled'.sec = x /\ Settled'.mem = m /\ Settled'.job = j
  BY <1>1, <1>3 DEF Settled
<1>5. synced' \in BOOLEAN
  BY <1>1
<1>6. TypeOK'
  <2> HIDE DEF h
  <2> QED
    BY <1>1, <1>2, <1>3, <1>5 DEF TablesInv, TypeOK
<1>7. LedgerSound(led)' /\ CopyOf(Settled.mem, led, late)'
  BY <1>1, <1>4 DEF LedgerSound, CopyOf, NamesOf, IndexesOf
<1>8. KeyspacesInv'
  <2>1. FreshIn(led, scan, sec)' /\ FreshIn(led, Settled.scan, Settled.sec)'
    BY <1>1, <1>4 DEF FreshIn
  <2>2. HandlesInStep(Settled.mem, led, Settled.scan, Settled.sec)'
    BY <1>1, <1>4 DEF HandlesInStep
  <2>3. synced' => InStepBut(led, scan, sec, {})'
    BY <1>1 DEF TablesInv, KeyspacesInv, InStepBut
  <2> QED
    BY <1>1, <1>3, <2>1, <2>2, <2>3 DEF KeyspacesInv
<1>9. JobInv'
  BY <1>1, <1>4 DEF JobInv, JobHas
<1>10. StatementsInv'
  <2>1. \A s \in Sessions : given[s].id \in Nat /\ given[s].id < led.nextTable
    BY DEF TablesInv, StatementsInv, TypeOK, NoGiven, None, Ids
  <2>2. led.nextTable \in Nat /\ l.nextTable \in Nat
    BY LedgerFields DEF TablesInv, TypeOK
  <2> QED
    BY <1>1, <2>1, <2>2 DEF StatementsInv
<1>11. CountersInv'
  BY <1>1, <1>4 DEF CountersInv, CountersOf
<1> QED
  BY <1>1, <1>6, <1>7, <1>8, <1>9, <1>10, <1>11 DEF TablesInv

-----------------------------------------------------------------------------
(* The steps between commits.                                               *)

\* What a store that is free starts from.
LEMMA FreeHas ==
    ASSUME TablesInv, phase = "up", half = << >>
    PROVE  /\ led \in Ledger /\ mem \in Memory /\ job \in Job
           /\ scan \in SUBSET (Ids \X Keys) /\ sec \in SUBSET ((1 .. MaxIndex) \X Keys)
           /\ buf \in [Sessions -> Buffer] /\ lowered \in SUBSET (Ids \X Keys)
           /\ skipped \in SUBSET (Ids \X Keys) /\ late \in SUBSET Ids
           /\ given \in [Sessions -> {NoGiven} \cup [id : Ids, key : Keys]]
           /\ LedgerSound(led) /\ CopyOf(mem, led, late)
           /\ FreshIn(led, scan, sec) /\ HandlesInStep(mem, led, scan, sec)
           /\ JobHas(job, mem)
           /\ \A s \in Sessions : given[s].id < led.nextTable
           /\ \A s \in Sessions : \A p \in DOMAIN buf[s] : p[1] < led.nextTable
           /\ CountersOf(mem, led, buf, Exempt)
           /\ \A p \in led.rows : p \notin Exempt =>
                p[2] < Loaded(led.auto[p[1]]) /\ p[2] < mem.next[p[1]]
<1>1. Settled.scan = scan /\ Settled.sec = sec /\ Settled.mem = mem /\ Settled.job = job
  BY SettledIs
<1> QED
  BY <1>1 DEF TablesInv, TypeOK, KeyspacesInv, JobInv, JobHas, StatementsInv, CountersInv

\* A table in the catalog: a statement can have it, and its id has been handed out.
LEMMA TableId ==
    ASSUME NEW l, NEW m, NEW lt, CopyOf(m, l, lt), NEW n \in Tables, m.tables[n] # None
    PROVE  /\ n \in l.names /\ m.tables[n] \in Ids /\ m.tables[n] < l.nextTable
           /\ m.name[m.tables[n]] = n /\ n # NoName
BY NamesAssumption DEF CopyOf, NamesOf

\* GetNextAutoIncrementValue hands a key to a statement.
LEMMA GiveKeeps ==
    ASSUME TablesInv, NEW s \in Sessions, NEW i \in Ids, GetNextAutoIncrementValue(s, i)
    PROVE  TablesInv'
<1>1. /\ phase = "up" /\ half = << >> /\ job = NoJob /\ mem.name[i] # NoName
      /\ led' = led /\ scan' = scan /\ sec' = sec /\ synced' = synced /\ phase' = phase
      /\ todo' = todo /\ half' = half /\ crashes' = crashes /\ lowered' = lowered
      /\ skipped' = skipped /\ late' = late /\ job' = job /\ buf' = buf
      /\ mem' = [mem EXCEPT !.next[i] = mem.next[i] + 1]
      /\ given' = [given EXCEPT ![s] = [id |-> i, key |-> mem.next[i]]]
      /\ mem.next[i] =< MaxKey
  BY DEF GetNextAutoIncrementValue, Free, Handles, derived, record
<1>2. /\ led \in Ledger /\ mem \in Memory /\ CopyOf(mem, led, late)
      /\ given \in [Sessions -> {NoGiven} \cup [id : Ids, key : Keys]]
      /\ \A r \in Sessions : given[r].id < led.nextTable
      /\ \A r \in Sessions : \A p \in DOMAIN buf[r] : p[1] < led.nextTable
      /\ CountersOf(mem, led, buf, Exempt) /\ job \in Job /\ JobHas(job, mem)
      /\ buf \in [Sessions -> Buffer] /\ skipped \in SUBSET (Ids \X Keys)
  BY <1>1, FreeHas
<1>3. i < led.nextTable
  BY <1>1, <1>2 DEF CopyOf, NamesOf
<1>4. mem.next \in [Ids -> Nat \ {0}]
  BY <1>2, MemoryFields
<1>5. mem.next[i] \in Keys
  BY <1>1, <1>4, TablesBoundsAssumption DEF Keys
<1>7. /\ mem' \in Memory
      /\ mem'.nextTable = mem.nextTable /\ mem'.nextIndex = mem.nextIndex
      /\ mem'.tables = mem.tables /\ mem'.name = mem.name /\ mem'.idx = mem.idx
      /\ \A j \in Ids : mem.next[j] =< mem'.next[j]
  <2>1. mem.next[i] + 1 \in Nat \ {0}
    BY <1>4
  <2>2. /\ mem' \in Memory
        /\ mem'.nextTable = mem.nextTable /\ mem'.nextIndex = mem.nextIndex
        /\ mem'.tables = mem.tables /\ mem'.name = mem.name /\ mem'.idx = mem.idx
        /\ mem'.next = [mem.next EXCEPT ![i] = mem.next[i] + 1]
    BY <1>1, <1>2, <2>1, CounterSet
  <2> QED
    BY <1>4, <2>2
<1>8. given' \in [Sessions -> {NoGiven} \cup [id : Ids, key : Keys]]
  BY <1>1, <1>2, <1>5
<1>9. \A r \in Sessions : given'[r].id < led.nextTable
  BY <1>1, <1>2, <1>3
<1>10. CountersOf(mem', led, buf', lowered \cup skipped')
  <2>1. \A j \in Ids : Loaded(led.auto[j]) \in Nat
    BY <1>2, LedgerFields DEF Loaded
  <2>2. mem'.next \in [Ids -> Nat \ {0}]
    BY <1>7, MemoryFields
  <2> QED
    BY <1>1, <1>2, <1>4, <1>7, <2>1, <2>2 DEF CountersOf, Keys, Exempt
<1> QED
  BY <1>1, <1>2, <1>7, <1>8, <1>9, <1>10, QuietKeeps

\* A row goes into a session's buffer.
LEMMA PendIs ==
    ASSUME NEW s \in Sessions, NEW i \in Ids, NEW k \in Keys,
           NEW op \in {"insert", "delete", "update"}, buf \in [Sessions -> Buffer], Pend(s, i, k, op)
    PROVE  /\ buf' \in [Sessions -> Buffer]
           /\ \A r \in Sessions : \A p \in DOMAIN buf'[r] :
                \/ r = s /\ p = <<i, k>> /\ buf'[r][p] = op
                \/ p \in DOMAIN buf[r] /\ buf'[r][p] = buf[r][p]
<1> DEFINE D == DOMAIN buf[s] \cup {<<i, k>>}
           b == [p \in D |-> IF p = <<i, k>> THEN op ELSE buf[s][p]]
<1>1. buf' = [buf EXCEPT ![s] = b]
  BY DEF Pend
<1>2. DOMAIN buf[s] \subseteq Ids \X Keys /\ buf[s] \in [DOMAIN buf[s] -> {"insert", "delete", "update"}]
  BY BufferIs
<1>3. D \in SUBSET (Ids \X Keys) /\ b \in [D -> {"insert", "delete", "update"}]
  BY <1>2
<1>4. b \in Buffer
  <2> HIDE DEF D, b
  <2> QED
    BY <1>3, BufferFrom
<1> QED
  BY <1>1, <1>4

\* tableEditor.Insert: the counter is past the value, or the row is one that the
\* type switch skipped.
LEMMA InsertKeeps ==
    ASSUME TablesInv, NEW s \in Sessions, NEW i \in Ids, NEW k \in Keys, Insert(s, i, k)
    PROVE  TablesInv'
<1>1. /\ phase = "up" /\ half = << >> /\ job = NoJob /\ mem.name[i] # NoName
      /\ led' = led /\ scan' = scan /\ sec' = sec /\ synced' = synced /\ phase' = phase
      /\ todo' = todo /\ half' = half /\ crashes' = crashes /\ lowered' = lowered
      /\ late' = late /\ job' = job /\ given' = [given EXCEPT ![s] = NoGiven]
  BY DEF Insert, Free, Handles, derived
<1>2. /\ led \in Ledger /\ mem \in Memory /\ CopyOf(mem, led, late)
      /\ given \in [Sessions -> {NoGiven} \cup [id : Ids, key : Keys]]
      /\ \A r \in Sessions : given[r].id < led.nextTable
      /\ \A r \in Sessions : \A p \in DOMAIN buf[r] : p[1] < led.nextTable
      /\ CountersOf(mem, led, buf, Exempt) /\ job \in Job /\ JobHas(job, mem)
      /\ buf \in [Sessions -> Buffer] /\ skipped \in SUBSET (Ids \X Keys)
  BY <1>1, FreeHas
<1>3. mem.next \in [Ids -> Nat \ {0}] /\ led.auto \in [Ids -> Nat]
  BY <1>2, MemoryFields, LedgerFields
<1>4. \A j \in Ids : Loaded(led.auto[j]) \in Nat
  BY <1>3 DEF Loaded
<1>5. i < led.nextTable
  BY <1>1, <1>2 DEF CopyOf, NamesOf
<1>6. k \in Nat /\ mem.next[i] \in Nat \ {0}
  BY <1>3 DEF Keys
<1>7. /\ mem' \in Memory
      /\ mem'.nextTable = mem.nextTable /\ mem'.nextIndex = mem.nextIndex
      /\ mem'.tables = mem.tables /\ mem'.name = mem.name /\ mem'.idx = mem.idx
      /\ \A j \in Ids : mem.next[j] =< mem'.next[j]
      /\ skipped' \in SUBSET (Ids \X Keys) /\ skipped \subseteq skipped'
      /\ <<i, k>> \notin skipped' => k < mem'.next[i]
  <2>1. CASE i \in Narrow
    <3>1. mem' = mem /\ skipped' = IF k >= mem.next[i] THEN skipped \cup {<<i, k>>} ELSE skipped
      BY <2>1 DEF Insert
    <3> QED
      BY <1>2, <1>3, <1>6, <3>1
  <2>2. CASE i \notin Narrow
    <3>1. mem' = [mem EXCEPT !.next[i] = Advanced(mem.next[i], k)] /\ skipped' = skipped
      BY <2>2 DEF Insert
    <3>2. /\ Advanced(mem.next[i], k) \in Nat \ {0} /\ k < Advanced(mem.next[i], k)
          /\ mem.next[i] =< Advanced(mem.next[i], k)
      BY <1>6 DEF Advanced
    <3> QED
      BY <1>2, <1>3, <3>1, <3>2 DEF Memory
  <2> QED
    BY <2>1, <2>2
<1>8. given' \in [Sessions -> {NoGiven} \cup [id : Ids, key : Keys]]
  BY <1>1, <1>2
<1>9. \A r \in Sessions : given'[r].id < led.nextTable
  BY <1>1, <1>2, LedgerFields DEF NoGiven, None
<1>10. /\ buf' \in [Sessions -> Buffer]
       /\ \A r \in Sessions : \A p \in DOMAIN buf'[r] :
            \/ r = s /\ p = <<i, k>>
            \/ p \in DOMAIN buf[r] /\ buf'[r][p] = buf[r][p]
  <2>1. CASE buf' = buf
    BY <1>2, <2>1
  <2>2. ASSUME NEW op \in {"insert", "delete", "update"}, Pend(s, i, k, op) PROVE <1>10
    BY <1>2, <2>2, PendIs
  <2> QED
    BY <2>1, <2>2 DEF Insert
<1>11. \A r \in Sessions : \A p \in DOMAIN buf'[r] : p[1] < led.nextTable
  BY <1>2, <1>5, <1>10
<1>12. CountersOf(mem', led, buf', lowered \cup skipped')
  <2>1. mem'.next \in [Ids -> Nat \ {0}]
    BY <1>7, MemoryFields
  <2>2. \A j \in Ids : Loaded(led.auto[j]) =< mem'.next[j]
    BY <1>2, <1>3, <1>4, <1>7, <2>1 DEF CountersOf
  <2> SUFFICES ASSUME NEW r \in Sessions, NEW j \in Ids, NEW a \in Keys,
                      <<j, a>> \in DOMAIN buf'[r], buf'[r][<<j, a>>] # "delete",
                      <<j, a>> \notin lowered \cup skipped'
               PROVE  a < mem'.next[j]
    BY <2>2 DEF CountersOf
  <2>3. CASE <<j, a>> = <<i, k>>
    BY <1>7, <2>3
  <2>4. CASE <<j, a>> # <<i, k>>
    <3>1. <<j, a>> \in DOMAIN buf[r] /\ buf[r][<<j, a>>] # "delete" /\ <<j, a>> \notin Exempt
      BY <1>7, <1>10, <2>4 DEF Exempt
    <3>2. a < mem.next[j]
      BY <1>2, <3>1 DEF CountersOf
    <3> QED
      BY <1>3, <1>7, <2>1, <3>2 DEF Keys
  <2> QED
    BY <2>3, <2>4
<1> QED
  BY <1>1, <1>2, <1>7, <1>8, <1>9, <1>10, <1>11, <1>12, QuietKeeps

\* tableEditor.Delete.
LEMMA DeleteKeeps ==
    ASSUME TablesInv, NEW s \in Sessions, NEW i \in Ids, NEW k \in Keys, Delete(s, i, k)
    PROVE  TablesInv'
<1>1. /\ phase = "up" /\ half = << >> /\ job = NoJob /\ mem.name[i] # NoName
      /\ led' = led /\ scan' = scan /\ sec' = sec /\ synced' = synced /\ phase' = phase
      /\ todo' = todo /\ half' = half /\ crashes' = crashes /\ lowered' = lowered
      /\ skipped' = skipped /\ late' = late /\ job' = job /\ mem' = mem /\ given' = given
      /\ Pend(s, i, k, "delete")
  BY DEF Delete, Free, Handles, derived, record
<1>2. /\ led \in Ledger /\ mem \in Memory /\ CopyOf(mem, led, late)
      /\ given \in [Sessions -> {NoGiven} \cup [id : Ids, key : Keys]]
      /\ \A r \in Sessions : given[r].id < led.nextTable
      /\ \A r \in Sessions : \A p \in DOMAIN buf[r] : p[1] < led.nextTable
      /\ CountersOf(mem, led, buf, Exempt) /\ job \in Job /\ JobHas(job, mem)
      /\ buf \in [Sessions -> Buffer] /\ skipped \in SUBSET (Ids \X Keys)
  BY <1>1, FreeHas
<1>3. i < led.nextTable
  BY <1>1, <1>2 DEF CopyOf, NamesOf
<1>4. /\ buf' \in [Sessions -> Buffer]
      /\ \A r \in Sessions : \A p \in DOMAIN buf'[r] :
            \/ r = s /\ p = <<i, k>> /\ buf'[r][p] = "delete"
            \/ p \in DOMAIN buf[r] /\ buf'[r][p] = buf[r][p]
  BY <1>1, <1>2, PendIs
<1>5. \A r \in Sessions : \A p \in DOMAIN buf'[r] : p[1] < led.nextTable
  BY <1>2, <1>3, <1>4
<1>6. CountersOf(mem, led, buf', lowered \cup skipped')
  BY <1>1, <1>2, <1>4 DEF CountersOf, Exempt
<1>7. \A j \in Ids : mem.next[j] =< mem'.next[j]
  BY <1>1, <1>2, MemoryFields
<1> QED
  BY <1>1, <1>2, <1>4, <1>5, <1>6, <1>7, QuietKeeps

\* A step that only takes rows out of the buffers, and may start or end a job.
LEMMA QuietShrinks ==
    ASSUME TablesInv, phase = "up", half = << >>, mem' = mem, given' = given,
           led' = led, scan' = scan, sec' = sec, synced' = synced, phase' = phase,
           todo' = todo, half' = half, crashes' = crashes, lowered' = lowered,
           skipped' = skipped, late' = late,
           buf' \in [Sessions -> Buffer],
           \A r \in Sessions : \A p \in DOMAIN buf'[r] :
               p \in DOMAIN buf[r] /\ buf'[r][p] = buf[r][p],
           job' \in Job, JobHas(job', mem)
    PROVE  TablesInv'
<1>1. /\ mem \in Memory /\ CountersOf(mem, led, buf, Exempt)
      /\ given \in [Sessions -> {NoGiven} \cup [id : Ids, key : Keys]]
      /\ \A r \in Sessions : given[r].id < led.nextTable
      /\ \A r \in Sessions : \A p \in DOMAIN buf[r] : p[1] < led.nextTable
      /\ skipped \in SUBSET (Ids \X Keys)
  BY FreeHas
<1>2. CountersOf(mem, led, buf', lowered \cup skipped')
  BY <1>1 DEF CountersOf, Exempt
<1>3. \A r \in Sessions : \A p \in DOMAIN buf'[r] : p[1] < led.nextTable
  BY <1>1
<1>4. \A j \in Ids : mem.next[j] =< mem'.next[j]
  BY <1>1, MemoryFields
<1> QED
  BY <1>1, <1>2, <1>3, <1>4, QuietKeeps

\* Rollback, the start of TRUNCATE and DROP TABLE, and the end of TRUNCATE: rows
\* only leave the buffers.
LEMMA JobKeeps ==
    ASSUME TablesInv,
           \/ \E s \in Sessions : Rollback(s)
           \/ \E own \in SUBSET Sessions, i \in Ids : Truncate(own, i)
           \/ \E own \in SUBSET Sessions, n \in Tables : DropTable(own, n)
           \/ TruncateReturns
    PROVE  TablesInv'
<1>1. /\ phase = "up" /\ half = << >> /\ mem' = mem /\ given' = given
      /\ led' = led /\ scan' = scan /\ sec' = sec /\ synced' = synced /\ phase' = phase
      /\ todo' = todo /\ half' = half /\ crashes' = crashes /\ lowered' = lowered
      /\ skipped' = skipped /\ late' = late
  BY DEF Rollback, Ending, Truncate, DropTable, StartJob, TruncateReturns, LoopDone, Free,
     derived, stmts, record
<1>2. /\ led \in Ledger /\ mem \in Memory /\ LedgerSound(led) /\ CopyOf(mem, led, late)
      /\ given \in [Sessions -> {NoGiven} \cup [id : Ids, key : Keys]]
      /\ \A r \in Sessions : given[r].id < led.nextTable
      /\ \A r \in Sessions : \A p \in DOMAIN buf[r] : p[1] < led.nextTable
      /\ CountersOf(mem, led, buf, Exempt) /\ job \in Job /\ JobHas(job, mem)
      /\ buf \in [Sessions -> Buffer] /\ skipped \in SUBSET (Ids \X Keys)
  BY <1>1, FreeHas
<1>3. CASE \E own \in SUBSET Sessions, op \in {"truncate", "drop"}, i \in Ids, n \in Tables :
              /\ StartJob(own, op, i, n)
              /\ mem.name[i] # NoName
              /\ op = "drop" => mem.tables[n] = i
  <2>1. PICK own \in SUBSET Sessions, op \in {"truncate", "drop"}, i \in Ids, n \in Tables :
              /\ StartJob(own, op, i, n)
              /\ mem.name[i] # NoName
              /\ op = "drop" => mem.tables[n] = i
    BY <1>3
  <2> DEFINE K(r) == [p \in {q \in DOMAIN buf[r] : q[1] # i} |-> buf[r][p]]
  <2>2. /\ buf' = [r \in Sessions |-> IF r \in own THEN K(r) ELSE buf[r]]
        /\ job' = [op |-> op, id |-> i, name |-> n]
    BY <2>1 DEF StartJob
  <2>3. ASSUME NEW r \in Sessions PROVE K(r) \in Buffer
    <3> DEFINE D == {q \in DOMAIN buf[r] : q[1] # i}
    <3>1. DOMAIN buf[r] \subseteq Ids \X Keys
          /\ buf[r] \in [DOMAIN buf[r] -> {"insert", "delete", "update"}]
      BY <1>2, BufferIs
    <3>2. D \in SUBSET (Ids \X Keys) /\ K(r) \in [D -> {"insert", "delete", "update"}]
      BY <3>1
    <3> HIDE DEF D, K
    <3> QED
      BY <3>2, BufferFrom
  <2>4. /\ buf' \in [Sessions -> Buffer]
        /\ \A r \in Sessions : \A p \in DOMAIN buf'[r] :
              p \in DOMAIN buf[r] /\ buf'[r][p] = buf[r][p]
    BY <1>2, <2>2, <2>3
  <2>5. job' \in Job /\ JobHas(job', mem)
    BY <2>1, <2>2 DEF Job, JobHas
  <2> QED
    BY <1>1, <1>2, <2>4, <2>5, QuietShrinks
<1>4. CASE \E s \in Sessions : Rollback(s)
  <2>1. /\ buf' \in [Sessions -> Buffer] /\ job' = job
        /\ \A r \in Sessions : \A p \in DOMAIN buf'[r] :
              p \in DOMAIN buf[r] /\ buf'[r][p] = buf[r][p]
    BY <1>2, <1>4, EmptyIs DEF Rollback
  <2> QED
    BY <1>1, <1>2, <2>1, QuietShrinks
<1>5. CASE TruncateReturns
  <2>1. buf' = buf /\ job' = NoJob
    BY <1>5 DEF TruncateReturns, stmts
  <2>2. job' \in Job /\ JobHas(job', mem)
    BY <2>1 DEF Job, JobHas
  <2> QED
    BY <1>1, <1>2, <2>1, <2>2, QuietShrinks
<1>6. ASSUME NEW own \in SUBSET Sessions, NEW i \in Ids, Truncate(own, i)
      PROVE  <1>3!1
  BY <1>2, <1>6, MemoryFields DEF Truncate, Handles
<1>7. ASSUME NEW own \in SUBSET Sessions, NEW n \in Tables, DropTable(own, n)
      PROVE  <1>3!1
  <2>1. mem.tables[n] # None /\ StartJob(own, "drop", mem.tables[n], n)
    BY <1>7 DEF DropTable
  <2>2. mem.tables[n] \in Ids /\ mem.name[mem.tables[n]] # NoName
    BY <1>2, <2>1, TableId
  <2> QED
    BY <2>1, <2>2
<1> QED
  BY <1>3, <1>4, <1>5, <1>6, <1>7

-----------------------------------------------------------------------------
(* Commits.                                                                 *)

\* The numbers of a ledger.
LEMMA CounterTypes ==
    ASSUME NEW l \in Ledger, NEW m \in Memory
    PROVE  /\ \A i \in Ids : l.auto[i] \in Nat /\ Loaded(l.auto[i]) \in Nat
           /\ \A i \in Ids : m.next[i] \in Nat \ {0}
BY LedgerFields, MemoryFields DEF Loaded

\* A DDL statement that keeps the rows and counters.
LEMMA DdlKeeps ==
    ASSUME TablesInv, NEW l \in Ledger, NEW x \in SUBSET ((1 .. MaxIndex) \X Keys),
           NEW m \in Memory, Ddl(l, x, m), late' \in SUBSET Ids,
           LedgerSound(l), CopyOf(m, l, late'), l.nextTable >= led.nextTable,
           l.nextIndex >= led.nextIndex, \A e \in x : e[1] < l.nextIndex,
           l.rows = led.rows, l.auto = led.auto, HandlesInStep(m, l, scan, x),
           \A i \in Ids : i < led.nextTable => m.next[i] = mem.next[i]
    PROVE  TablesInv'
<1>1. /\ phase = "up" /\ half = << >> /\ job = NoJob /\ Commit(l, scan, x, m, NoJob)
      /\ mem' = mem /\ job' = job /\ buf' = buf /\ given' = given /\ lowered' = lowered
      /\ skipped' = skipped
  BY DEF Ddl, Free, stmts
<1>2. /\ led \in Ledger /\ mem \in Memory
      /\ scan \in SUBSET (Ids \X Keys) /\ sec \in SUBSET ((1 .. MaxIndex) \X Keys)
      /\ buf \in [Sessions -> Buffer] /\ lowered \in SUBSET (Ids \X Keys)
      /\ skipped \in SUBSET (Ids \X Keys) /\ FreshIn(led, scan, sec)
      /\ \A s \in Sessions : \A p \in DOMAIN buf[s] : p[1] < led.nextTable
      /\ CountersOf(mem, led, buf, Exempt)
      /\ \A p \in led.rows : p \notin Exempt =>
           p[2] < Loaded(led.auto[p[1]]) /\ p[2] < mem.next[p[1]]
  BY <1>1, FreeHas
<1>3. /\ led.nextTable \in Nat /\ l.nextTable \in Nat
      /\ led.nextIndex \in Nat /\ l.nextIndex \in Nat
      /\ \A p \in led.rows \cup scan : p[1] \in Nat
      /\ \A e \in sec : e[1] \in Nat
  BY <1>2, LedgerFields DEF Ids
<1>4. FreshIn(l, scan, sec) /\ FreshIn(l, scan, x)
  BY <1>2, <1>3 DEF FreshIn, Ids
<1>5. \A s \in Sessions : \A p \in DOMAIN buf[s] : p[1] < l.nextTable
  <2>1. \A s \in Sessions : \A p \in DOMAIN buf[s] : p[1] \in Nat
    BY <1>2, BufferIs DEF Ids
  <2> QED
    BY <1>2, <1>3, <2>1
<1>6. CountersOf(m, l, buf, Exempt)
  <2>1. ASSUME NEW i \in Ids PROVE Loaded(l.auto[i]) =< m.next[i]
    <3>1. CASE i < led.nextTable
      BY <1>2, <3>1 DEF CountersOf
    <3>2. CASE ~(i < led.nextTable)
      <4>1. l.auto[i] = None
        BY <1>2, <1>3, <3>2 DEF FreshIn, Ids
      <4> QED
        BY <4>1, CounterTypes DEF Loaded
    <3> QED
      BY <3>1, <3>2
  <2>2. ASSUME NEW s \in Sessions, NEW i \in Ids, NEW k \in Keys, <<i, k>> \in DOMAIN buf[s],
               buf[s][<<i, k>>] # "delete", <<i, k>> \notin Exempt
        PROVE  k < m.next[i]
    <3>1. i < led.nextTable
      BY <1>2, <2>2
    <3> QED
      BY <1>2, <2>2, <3>1 DEF CountersOf
  <2> QED
    BY <2>1, <2>2 DEF CountersOf
<1>7. NoJob \in Job /\ JobHas(NoJob, m) /\ Exempt' = Exempt
  BY <1>1 DEF Job, JobHas, Exempt
<1> QED
  BY <1>1, <1>2, <1>4, <1>5, <1>6, <1>7, CommitKeeps

\* CREATE TABLE: the id is fresh, so the table starts empty.
LEMMA CreateTableKeeps ==
    ASSUME TablesInv, NEW n \in Tables, CreateTable(n)
    PROVE  TablesInv'
<1> DEFINE id == mem.nextTable
           d == [id |-> id, idx |-> {}]
           l == [CatalogOps(led.names \cup {n}, n, d) EXCEPT !.nextTable = id + 1]
           m == [mem EXCEPT !.nextTable = id + 1, !.tables[n] = id, !.name[id] = n,
                            !.idx[id] = {}, !.next[id] = 1]
<1>1. /\ mem.tables[n] = None /\ id =< MaxTable /\ Ddl(l, sec, m)
      /\ phase = "up" /\ half = << >> /\ late' = late
  BY DEF CreateTable, Ddl, Free
<1>2. /\ led \in Ledger /\ mem \in Memory /\ LedgerSound(led) /\ CopyOf(mem, led, late)
      /\ scan \in SUBSET (Ids \X Keys) /\ sec \in SUBSET ((1 .. MaxIndex) \X Keys)
      /\ FreshIn(led, scan, sec) /\ HandlesInStep(mem, led, scan, sec)
      /\ late \in SUBSET Ids
  BY <1>1, FreeHas
<1>3. id = led.nextTable /\ id \in Ids /\ id \in Nat /\ id # None /\ id + 1 \in 1 .. MaxTable + 1
  BY <1>1, <1>2, LedgerFields, TablesBoundsAssumption DEF CopyOf, NamesOf, Ids, None
<1>4. n \notin led.names
  BY <1>1, <1>2, TablesBoundsAssumption DEF CopyOf, NamesOf, Ids, None
<1>5. d \in [id : 0 .. MaxTable, idx : SUBSET Index] /\ d # NoDef /\ d.id = id /\ d.idx = {}
  BY <1>3 DEF NoDef, Ids
<1> HIDE DEF id, d
<1>6. /\ l \in Ledger
      /\ l.nextTable = id + 1 /\ l.nextIndex = led.nextIndex /\ l.names = led.names \cup {n}
      /\ l.defs = [led.defs EXCEPT ![n] = d] /\ l.rows = led.rows /\ l.auto = led.auto
  BY <1>2, <1>3, <1>5 DEF CatalogOps, Ledger
<1>7. /\ m \in Memory
      /\ m.nextTable = id + 1 /\ m.nextIndex = mem.nextIndex
      /\ m.tables = [mem.tables EXCEPT ![n] = id] /\ m.name = [mem.name EXCEPT ![id] = n]
      /\ m.idx = [mem.idx EXCEPT ![id] = {}] /\ m.next = [mem.next EXCEPT ![id] = 1]
  <2>1. id \in 0 .. MaxTable /\ 1 \in Nat \ {0} /\ {} \in SUBSET Index
    BY <1>3 DEF Ids
  <2>2. /\ [mem.tables EXCEPT ![n] = id] \in [Tables -> 0 .. MaxTable]
        /\ [mem.name EXCEPT ![id] = n] \in [Ids -> Tables \cup {NoName}]
        /\ [mem.idx EXCEPT ![id] = {}] \in [Ids -> SUBSET Index]
        /\ [mem.next EXCEPT ![id] = 1] \in [Ids -> Nat \ {0}]
    BY <1>2, <2>1, MemoryFields
  <2> QED
    BY <1>2, <1>3, <2>2 DEF Memory
<1> HIDE DEF l, m
<1>8. /\ led.defs \in [Tables -> [id : 0 .. MaxTable, idx : SUBSET Index]]
      /\ led.nextTable \in Nat /\ led.names \subseteq Tables
      /\ mem.tables \in [Tables -> 0 .. MaxTable]
      /\ mem.name \in [Ids -> Tables \cup {NoName}]
      /\ mem.idx \in [Ids -> SUBSET Index] /\ mem.next \in [Ids -> Nat \ {0}]
  BY <1>2, LedgerFields, MemoryFields
<1>9. /\ l.defs[n] = d
      /\ \A o \in Defined(l) \ {n} : /\ o \in Defined(led) /\ l.defs[o] = led.defs[o]
                                     /\ led.defs[o].id \in Ids \ {id}
  <2>1. \A o \in Tables \ {n} : l.defs[o] = led.defs[o]
    BY <1>6, <1>8
  <2>2. \A o \in Defined(led) : led.defs[o].id \in Ids \ {id}
    BY <1>2, <1>3 DEF LedgerSound, Ids
  <2> QED
    BY <1>6, <1>8, <2>1, <2>2 DEF Defined
<1>10. /\ m.name[id] = n /\ m.idx[id] = {} /\ m.tables[n] = id /\ n # NoName
       /\ \A i \in Ids \ {id} : m.name[i] = mem.name[i] /\ m.idx[i] = mem.idx[i]
       /\ \A o \in Tables \ {n} : m.tables[o] = mem.tables[o]
  BY <1>3, <1>7, <1>8, NamesAssumption
<1>11. LedgerSound(l)
  <2>1. l.names \subseteq Defined(l)
    BY <1>2, <1>5, <1>6, <1>8 DEF LedgerSound, Defined
  <2>2. \A o \in Defined(l) : l.defs[o].id \in Ids /\ l.defs[o].id < l.nextTable
    BY <1>2, <1>3, <1>5, <1>6, <1>9 DEF LedgerSound, Ids
  <2>3. \A o \in Defined(l) : \A x \in l.defs[o].idx : x[2] < l.nextIndex
    BY <1>2, <1>5, <1>6, <1>9 DEF LedgerSound
  <2>4. \A o, q \in Defined(l) :
            /\ l.defs[o].id = l.defs[q].id => o = q
            /\ \A x \in l.defs[o].idx, y \in l.defs[q].idx : x[2] = y[2] => o = q /\ x = y
    BY <1>2, <1>5, <1>6, <1>9 DEF LedgerSound
  <2> QED
    BY <2>1, <2>2, <2>3, <2>4 DEF LedgerSound
<1>12. NamesOf(m, l, late)
  <2>1. \A o \in led.names : /\ o # n /\ o \in Tables /\ o \in Defined(l) \ {n}
                             /\ mem.tables[o] \in Ids \ {id} /\ mem.name[mem.tables[o]] = o
    <3> SUFFICES ASSUME NEW o \in led.names
                 PROVE  /\ o # n /\ o \in Tables /\ o \in Defined(l) \ {n}
                        /\ mem.tables[o] \in Ids \ {id} /\ mem.name[mem.tables[o]] = o
      OBVIOUS
    <3>1. o # n /\ o \in Tables /\ o \in Defined(l)
      BY <1>4, <1>6, <1>8, <1>11 DEF LedgerSound
    <3>2. mem.tables[o] \in Ids /\ mem.name[mem.tables[o]] = o
      BY <1>2, <3>1 DEF CopyOf, NamesOf
    <3>3. mem.tables[o] < mem.nextTable
      BY <1>2, <3>1, <3>2, NamesAssumption DEF CopyOf, NamesOf
    <3> QED
      BY <1>3, <3>1, <3>2, <3>3 DEF id
  <2>2. \A o \in Tables : IF o \in l.names THEN m.tables[o] \in Ids /\ m.name[m.tables[o]] = o
                                          ELSE m.tables[o] = None
    <3> SUFFICES ASSUME NEW o \in Tables
                 PROVE  IF o \in l.names THEN m.tables[o] \in Ids /\ m.name[m.tables[o]] = o
                                         ELSE m.tables[o] = None
      OBVIOUS
    <3>1. CASE o = n
      BY <1>3, <1>6, <1>10, <3>1
    <3>2. CASE o \in led.names
      BY <1>6, <1>10, <2>1, <3>2
    <3>3. CASE o # n /\ o \notin led.names
      <4>1. mem.tables[o] = None
        BY <1>2, <3>3 DEF CopyOf, NamesOf
      <4> QED
        BY <1>6, <1>10, <3>3, <4>1
    <3> QED
      BY <3>1, <3>2, <3>3
  <2>3. \A i \in Ids : m.name[i] # NoName => i < m.nextTable
    <3>1. \A i \in Ids \ {id} : m.name[i] # NoName => i < mem.nextTable
      BY <1>2, <1>10 DEF CopyOf, NamesOf
    <3> QED
      BY <1>3, <1>7, <3>1 DEF id, Ids
  <2>4. \A o \in l.names : /\ m.name[l.defs[o].id] # NoName
                           /\ l.defs[o].id = m.tables[o] \/ l.defs[o].id \in late
    BY <1>2, <1>5, <1>6, <1>9, <1>10, <2>1 DEF CopyOf, NamesOf
  <2>5. m.nextTable = l.nextTable /\ m.nextIndex = l.nextIndex
    BY <1>2, <1>6, <1>7 DEF CopyOf, NamesOf
  <2> QED
    BY <2>2, <2>3, <2>4, <2>5 DEF NamesOf
<1>13. IndexesOf(m, l)
  <2>1. \A i \in Ids : m.idx[i] \subseteq mem.idx[i]
    BY <1>10
  <2>2. \A o \in Defined(l) : m.name[l.defs[o].id] # NoName =>
            m.name[l.defs[o].id] = o /\ m.idx[l.defs[o].id] = l.defs[o].idx
    <3> SUFFICES ASSUME NEW o \in Defined(l), m.name[l.defs[o].id] # NoName
                 PROVE  m.name[l.defs[o].id] = o /\ m.idx[l.defs[o].id] = l.defs[o].idx
      OBVIOUS
    <3>1. CASE o = n
      BY <1>5, <1>9, <1>10, <3>1
    <3>2. CASE o # n
      <4>1. /\ o \in Defined(led) /\ l.defs[o] = led.defs[o] /\ led.defs[o].id \in Ids \ {id}
        BY <1>9, <3>2
      <4>2. mem.name[led.defs[o].id] # NoName =>
                mem.name[led.defs[o].id] = o /\ mem.idx[led.defs[o].id] = led.defs[o].idx
        BY <1>2, <4>1 DEF CopyOf, IndexesOf
      <4> QED
        BY <1>10, <4>1, <4>2
    <3> QED
      BY <3>1, <3>2
  <2>3. \A i, j \in Ids : \A x \in m.idx[i], y \in m.idx[j] : x[2] = y[2] => i = j /\ x = y
    BY <1>2, <2>1 DEF CopyOf, IndexesOf
  <2>4. \A i \in Ids : \A x \in m.idx[i] : x[2] < m.nextIndex
    BY <1>2, <1>7, <2>1 DEF CopyOf, IndexesOf
  <2>5. \A o \in Defined(l), j \in Ids : \A x \in l.defs[o].idx, y \in m.idx[j] :
            x[2] = y[2] => l.defs[o].id = j /\ x = y
    BY <1>2, <1>5, <1>9, <2>1 DEF CopyOf, IndexesOf
  <2> QED
    BY <2>2, <2>3, <2>4, <2>5 DEF IndexesOf
<1>14. HandlesInStep(m, l, scan, sec)
  <2>1. \A k \in Keys : <<id, k>> \notin scan /\ <<id, k>> \notin led.rows
    BY <1>2, <1>3 DEF FreshIn
  <2> QED
    BY <1>2, <1>6, <1>10, <2>1 DEF HandlesInStep
<1>15. l.nextTable >= led.nextTable /\ l.nextIndex >= led.nextIndex
       /\ \A e \in sec : e[1] < l.nextIndex
  BY <1>2, <1>3, <1>6, LedgerFields DEF FreshIn
<1>16. \A i \in Ids : i < led.nextTable => m.next[i] = mem.next[i]
  BY <1>3, <1>7, <1>8
<1>17. CopyOf(m, l, late') /\ late' \in SUBSET Ids
  BY <1>1, <1>2, <1>12, <1>13 DEF CopyOf
<1> QED
  BY <1>1, <1>2, <1>6, <1>7, <1>11, <1>14, <1>15, <1>16, <1>17, DdlKeeps

\* RENAME TABLE: the definition moves to the new name.
LEMMA RenameTableKeeps ==
    ASSUME TablesInv, NEW old \in Tables, NEW new \in Tables, RenameTable(old, new)
    PROVE  TablesInv'
<1> DEFINE id == mem.tables[old]
           d == [id |-> id, idx |-> mem.idx[id]]
           l == [CatalogOps((led.names \ {old}) \cup {new}, new, d)
                    EXCEPT !.defs[old] = NoDef]
           m == [mem EXCEPT !.tables[old] = None, !.tables[new] = id, !.name[id] = new]
<1>1. /\ mem.tables[new] = None /\ id # None /\ Ddl(l, sec, m)
      /\ phase = "up" /\ half = << >> /\ late' = late
  BY DEF RenameTable, Ddl, Free
<1>2. /\ led \in Ledger /\ mem \in Memory /\ LedgerSound(led) /\ CopyOf(mem, led, late)
      /\ scan \in SUBSET (Ids \X Keys) /\ sec \in SUBSET ((1 .. MaxIndex) \X Keys)
      /\ FreshIn(led, scan, sec) /\ HandlesInStep(mem, led, scan, sec)
      /\ late \in SUBSET Ids
  BY <1>1, FreeHas
<1>3. /\ old \in led.names /\ id \in Ids /\ id < led.nextTable /\ mem.name[id] = old
      /\ old # NoName /\ new # NoName
  BY <1>1, <1>2, TableId, NamesAssumption
<1>4. new \notin led.names /\ old # new
  BY <1>1, <1>2, <1>3, TablesBoundsAssumption DEF CopyOf, NamesOf, Ids, None
<1>5. /\ led.defs \in [Tables -> [id : 0 .. MaxTable, idx : SUBSET Index]]
      /\ led.nextTable \in Nat /\ led.names \subseteq Tables
      /\ mem.tables \in [Tables -> 0 .. MaxTable]
      /\ mem.name \in [Ids -> Tables \cup {NoName}]
      /\ mem.idx \in [Ids -> SUBSET Index] /\ mem.next \in [Ids -> Nat \ {0}]
  BY <1>2, LedgerFields, MemoryFields
<1>6. /\ d \in [id : 0 .. MaxTable, idx : SUBSET Index] /\ d # NoDef
      /\ d.id = id /\ d.idx = mem.idx[id]
  BY <1>1, <1>3, <1>5 DEF NoDef
<1>7. NoDef \in [id : 0 .. MaxTable, idx : SUBSET Index]
  BY TablesBoundsAssumption DEF NoDef, None
<1> HIDE DEF id, d
<1>8. /\ l \in Ledger
      /\ l.nextTable = led.nextTable /\ l.nextIndex = led.nextIndex
      /\ l.names = (led.names \ {old}) \cup {new}
      /\ l.defs = [led.defs EXCEPT ![new] = d, ![old] = NoDef]
      /\ l.rows = led.rows /\ l.auto = led.auto
  BY <1>2, <1>6, <1>7 DEF CatalogOps, Ledger
<1>9. /\ m \in Memory
      /\ m.nextTable = mem.nextTable /\ m.nextIndex = mem.nextIndex
      /\ m.tables = [mem.tables EXCEPT ![old] = None, ![new] = id]
      /\ m.name = [mem.name EXCEPT ![id] = new]
      /\ m.idx = mem.idx /\ m.next = mem.next
  <2>1. id \in 0 .. MaxTable /\ None \in 0 .. MaxTable
    BY <1>3, TablesBoundsAssumption DEF Ids, None
  <2>2. /\ [mem.tables EXCEPT ![old] = None, ![new] = id] \in [Tables -> 0 .. MaxTable]
        /\ [mem.name EXCEPT ![id] = new] \in [Ids -> Tables \cup {NoName}]
    BY <1>5, <2>1
  <2> QED
    BY <1>2, <2>2 DEF Memory
<1> HIDE DEF l, m
<1>10. /\ l.defs[new] = d /\ old \notin Defined(l) /\ new \in Defined(l)
       /\ \A o \in Defined(l) \ {new} :
            /\ o # old /\ o \in Defined(led) /\ l.defs[o] = led.defs[o]
            /\ led.defs[o].id \in Ids \ {id}
  <2>1. l.defs[new] = d /\ l.defs[old] = NoDef
        /\ \A o \in Tables \ {old, new} : l.defs[o] = led.defs[o]
    BY <1>4, <1>5, <1>8
  <2>2. \A o \in Defined(led) \ {old} : led.defs[o].id \in Ids \ {id}
    BY <1>2, <1>3 DEF LedgerSound, CopyOf, IndexesOf
  <2> QED
    BY <1>6, <2>1, <2>2 DEF Defined
<1>11. /\ m.name[id] = new /\ m.tables[new] = id /\ m.tables[old] = None
       /\ \A i \in Ids \ {id} : m.name[i] = mem.name[i]
       /\ \A o \in Tables \ {old, new} : m.tables[o] = mem.tables[o]
  BY <1>3, <1>4, <1>5, <1>9
<1>12. \A o \in Defined(l) \ {new} : \A x \in d.idx, y \in led.defs[o].idx : x[2] # y[2]
  BY <1>2, <1>3, <1>6, <1>10 DEF CopyOf, IndexesOf
<1>13. LedgerSound(l)
  <2>1. l.names \subseteq Defined(l)
    <3>1. \A o \in led.names \ {old} : o \in Defined(led) /\ l.defs[o] = led.defs[o]
      BY <1>2, <1>4, <1>5, <1>8 DEF LedgerSound
    <3> QED
      BY <1>8, <1>10, <3>1 DEF Defined
  <2>2. \A o \in Defined(l) : l.defs[o].id \in Ids /\ l.defs[o].id < l.nextTable
    BY <1>2, <1>3, <1>6, <1>8, <1>10 DEF LedgerSound
  <2>3. \A o \in Defined(l) : \A x \in l.defs[o].idx : x[2] < l.nextIndex
    <3>1. \A x \in d.idx : x[2] < led.nextIndex
      BY <1>2, <1>3, <1>6 DEF CopyOf, NamesOf, IndexesOf
    <3> QED
      BY <1>2, <1>8, <1>10, <3>1 DEF LedgerSound
  <2>4. \A o, q \in Defined(l) : l.defs[o].id = l.defs[q].id => o = q
    BY <1>2, <1>6, <1>10 DEF LedgerSound
  <2>5. ASSUME NEW o \in Defined(l), NEW q \in Defined(l), NEW x \in l.defs[o].idx,
               NEW y \in l.defs[q].idx, x[2] = y[2]
        PROVE  o = q /\ x = y
    <3>1. CASE o = new /\ q = new
      <4>1. x \in mem.idx[id] /\ y \in mem.idx[id]
        BY <1>6, <1>10, <3>1
      <4> QED
        BY <1>2, <1>3, <2>5, <3>1, <4>1 DEF CopyOf, IndexesOf
    <3>2. CASE o = new /\ q # new
      BY <1>10, <1>12, <2>5, <3>2
    <3>3. CASE o # new /\ q = new
      BY <1>10, <1>12, <2>5, <3>3
    <3>4. CASE o # new /\ q # new
      BY <1>2, <1>10, <2>5, <3>4 DEF LedgerSound
    <3> QED
      BY <3>1, <3>2, <3>3, <3>4
  <2> QED
    BY <2>1, <2>2, <2>3, <2>4, <2>5 DEF LedgerSound
<1>14. NamesOf(m, l, late)
  <2>1. \A o \in led.names \ {old} :
            /\ o \in Tables \ {old, new} /\ mem.tables[o] \in Ids \ {id}
            /\ mem.name[mem.tables[o]] = o
    BY <1>2, <1>3, <1>4, <1>5 DEF CopyOf, NamesOf
  <2>2. \A o \in Tables : IF o \in l.names THEN m.tables[o] \in Ids /\ m.name[m.tables[o]] = o
                                          ELSE m.tables[o] = None
    <3> SUFFICES ASSUME NEW o \in Tables
                 PROVE  IF o \in l.names THEN m.tables[o] \in Ids /\ m.name[m.tables[o]] = o
                                         ELSE m.tables[o] = None
      OBVIOUS
    <3>1. CASE o \in {old, new}
      BY <1>3, <1>4, <1>8, <1>11, <3>1
    <3>2. CASE o \in led.names \ {old}
      BY <1>8, <1>11, <2>1, <3>2
    <3>3. CASE o \notin {old, new} /\ o \notin led.names
      <4>1. mem.tables[o] = None
        BY <1>2, <3>3 DEF CopyOf, NamesOf
      <4> QED
        BY <1>8, <1>11, <3>3, <4>1
    <3> QED
      BY <3>1, <3>2, <3>3
  <2>3. \A i \in Ids : m.name[i] # NoName => i < m.nextTable
    BY <1>2, <1>3, <1>9, <1>11 DEF CopyOf, NamesOf
  <2>4. \A o \in l.names : /\ m.name[l.defs[o].id] # NoName
                           /\ l.defs[o].id = m.tables[o] \/ l.defs[o].id \in late
    <3> SUFFICES ASSUME NEW o \in l.names
                 PROVE  /\ m.name[l.defs[o].id] # NoName
                        /\ l.defs[o].id = m.tables[o] \/ l.defs[o].id \in late
      OBVIOUS
    <3>1. CASE o = new
      BY <1>3, <1>6, <1>10, <1>11, <3>1
    <3>2. CASE o \in led.names \ {old}
      <4>1. o \in Defined(l) \ {new}
        BY <1>4, <1>13, <3>2 DEF LedgerSound
      <4>2. /\ mem.name[led.defs[o].id] # NoName
            /\ led.defs[o].id = mem.tables[o] \/ led.defs[o].id \in late
        BY <1>2, <3>2 DEF CopyOf, NamesOf
      <4> QED
        BY <1>10, <1>11, <2>1, <3>2, <4>1, <4>2
    <3> QED
      BY <1>8, <3>1, <3>2
  <2>5. m.nextTable = l.nextTable /\ m.nextIndex = l.nextIndex
    BY <1>2, <1>8, <1>9 DEF CopyOf, NamesOf
  <2> QED
    BY <2>2, <2>3, <2>4, <2>5 DEF NamesOf
<1>15. IndexesOf(m, l)
  <2>1. \A o \in Defined(l) : m.name[l.defs[o].id] # NoName =>
            m.name[l.defs[o].id] = o /\ m.idx[l.defs[o].id] = l.defs[o].idx
    <3> SUFFICES ASSUME NEW o \in Defined(l), m.name[l.defs[o].id] # NoName
                 PROVE  m.name[l.defs[o].id] = o /\ m.idx[l.defs[o].id] = l.defs[o].idx
      OBVIOUS
    <3>1. CASE o = new
      BY <1>6, <1>9, <1>10, <1>11, <3>1
    <3>2. CASE o # new
      <4>1. o \in Defined(led) /\ l.defs[o] = led.defs[o] /\ led.defs[o].id \in Ids \ {id}
        BY <1>10, <3>2
      <4>2. mem.name[led.defs[o].id] # NoName =>
                mem.name[led.defs[o].id] = o /\ mem.idx[led.defs[o].id] = led.defs[o].idx
        BY <1>2, <4>1 DEF CopyOf, IndexesOf
      <4> QED
        BY <1>9, <1>11, <4>1, <4>2
    <3> QED
      BY <3>1, <3>2
  <2>2. \A i, j \in Ids : \A x \in m.idx[i], y \in m.idx[j] : x[2] = y[2] => i = j /\ x = y
    BY <1>2, <1>9 DEF CopyOf, IndexesOf
  <2>3. \A i \in Ids : \A x \in m.idx[i] : x[2] < m.nextIndex
    BY <1>2, <1>9 DEF CopyOf, IndexesOf
  <2>4. ASSUME NEW o \in Defined(l), NEW j \in Ids, NEW x \in l.defs[o].idx, NEW y \in m.idx[j],
               x[2] = y[2]
        PROVE  l.defs[o].id = j /\ x = y
    <3>1. CASE o = new
      <4>1. x \in mem.idx[id] /\ y \in mem.idx[j] /\ l.defs[o].id = id
        BY <1>6, <1>9, <1>10, <3>1
      <4> QED
        BY <1>2, <1>3, <2>4, <4>1 DEF CopyOf, IndexesOf
    <3>2. CASE o # new
      <4>1. o \in Defined(led) /\ x \in led.defs[o].idx /\ y \in mem.idx[j]
            /\ l.defs[o] = led.defs[o]
        BY <1>9, <1>10, <3>2
      <4> QED
        BY <1>2, <2>4, <4>1 DEF CopyOf, IndexesOf
    <3> QED
      BY <3>1, <3>2
  <2> QED
    BY <2>1, <2>2, <2>3, <2>4 DEF IndexesOf
<1>16. HandlesInStep(m, l, scan, sec)
  BY <1>2, <1>3, <1>8, <1>9, <1>11 DEF HandlesInStep
<1>17. l.nextTable >= led.nextTable /\ l.nextIndex >= led.nextIndex
       /\ \A e \in sec : e[1] < l.nextIndex
  BY <1>2, <1>8, LedgerFields DEF FreshIn
<1>18. \A i \in Ids : i < led.nextTable => m.next[i] = mem.next[i]
  BY <1>9
<1>19. CopyOf(m, l, late') /\ late' \in SUBSET Ids
  BY <1>1, <1>2, <1>14, <1>15 DEF CopyOf
<1> QED
  BY <1>1, <1>2, <1>8, <1>9, <1>13, <1>16, <1>17, <1>18, <1>19, DdlKeeps

\* A rewrite of the indexes of a table, which may have been dropped: the new ones
\* share no id with others, and no entry that an index needs goes.
LEMMA SetIndexesKeeps ==
    ASSUME TablesInv, NEW i \in Ids, NEW idx \in SUBSET Index,
           NEW entries \in SUBSET ((1 .. MaxIndex) \X Keys), NEW v \in 1 .. MaxIndex + 1,
           SetIndexes(i, idx, entries, [mem EXCEPT !.nextIndex = v]),
           v >= mem.nextIndex,
           \A x \in idx : x[2] < v,
           \A x, y \in idx : x[2] = y[2] => x = y,
           \A j \in Ids \ {i} : \A x \in idx, y \in mem.idx[j] : x[2] # y[2],
           \A o \in Defined(led) : led.defs[o].id # i =>
               \A x \in idx, y \in led.defs[o].idx : x[2] # y[2],
           \A e \in entries : e[1] < v,
           \A j \in Ids \ {i}, k \in Keys :
               \A y \in mem.idx[j] : <<y[2], k>> \in sec => <<y[2], k>> \in entries,
           \A k \in Keys : <<i, k>> \in led.rows => \A x \in idx : <<x[2], k>> \in entries
    PROVE  TablesInv'
<1> DEFINE n == mem.name[i]
           d == [id |-> i, idx |-> idx]
           l == [CatalogOps(led.names, n, d) EXCEPT !.nextIndex = v]
           m == [mem EXCEPT !.nextIndex = v, !.idx[i] = idx]
<1>1. /\ Ddl([CatalogOps(led.names, n, d) EXCEPT
                  !.nextIndex = [mem EXCEPT !.nextIndex = v].nextIndex],
             entries, [[mem EXCEPT !.nextIndex = v] EXCEPT !.idx[i] = idx])
      /\ phase = "up" /\ half = << >> /\ n # NoName /\ late' = late \cup ({i} \ Live)
  BY DEF SetIndexes, Ddl, Free, Handles
<1>2. /\ led \in Ledger /\ mem \in Memory /\ LedgerSound(led) /\ CopyOf(mem, led, late)
      /\ scan \in SUBSET (Ids \X Keys) /\ sec \in SUBSET ((1 .. MaxIndex) \X Keys)
      /\ FreshIn(led, scan, sec) /\ HandlesInStep(mem, led, scan, sec)
      /\ late \in SUBSET Ids
  BY <1>1, FreeHas
<1>3. /\ led.defs \in [Tables -> [id : 0 .. MaxTable, idx : SUBSET Index]]
      /\ led.nextTable \in Nat /\ led.nextIndex \in Nat /\ led.names \subseteq Tables
      /\ mem.tables \in [Tables -> 0 .. MaxTable]
      /\ mem.name \in [Ids -> Tables \cup {NoName}]
      /\ mem.idx \in [Ids -> SUBSET Index] /\ mem.next \in [Ids -> Nat \ {0}]
      /\ mem.nextIndex = led.nextIndex
  BY <1>2, LedgerFields, MemoryFields DEF CopyOf, NamesOf
<1>4. n \in Tables /\ i < led.nextTable
  BY <1>1, <1>2, <1>3 DEF CopyOf, NamesOf
<1>5. Ddl(l, entries, m)
  <2>1. [mem EXCEPT !.nextIndex = v].nextIndex = v
        /\ [[mem EXCEPT !.nextIndex = v] EXCEPT !.idx[i] = idx] = m
    BY <1>2 DEF Memory
  <2> QED
    BY <1>1, <2>1
<1>6. d \in [id : 0 .. MaxTable, idx : SUBSET Index] /\ d # NoDef /\ d.id = i /\ d.idx = idx
  BY TablesBoundsAssumption DEF NoDef, Ids, None
<1>7. mem.name[i] = n
  OBVIOUS
<1> HIDE DEF n, d
<1>8. /\ l \in Ledger
      /\ l.nextTable = led.nextTable /\ l.nextIndex = v /\ l.names = led.names
      /\ l.defs = [led.defs EXCEPT ![n] = d] /\ l.rows = led.rows /\ l.auto = led.auto
  BY <1>2, <1>6 DEF CatalogOps, Ledger
<1>9. /\ m \in Memory
      /\ m.nextTable = mem.nextTable /\ m.nextIndex = v /\ m.tables = mem.tables
      /\ m.name = mem.name /\ m.idx = [mem.idx EXCEPT ![i] = idx] /\ m.next = mem.next
  BY <1>2, <1>4 DEF Memory
<1> HIDE DEF l, m
<1>10. /\ l.defs[n] = d /\ n \in Defined(l)
       /\ \A o \in Defined(l) \ {n} :
            /\ o \in Defined(led) /\ l.defs[o] = led.defs[o] /\ led.defs[o].id \in Ids \ {i}
  <2>1. \A o \in Tables \ {n} : l.defs[o] = led.defs[o]
    BY <1>3, <1>8
  <2>2. \A o \in Defined(led) \ {n} : led.defs[o].id \in Ids \ {i}
    BY <1>1, <1>2, <1>7 DEF LedgerSound, CopyOf, IndexesOf
  <2>3. l.defs[n] = d
    BY <1>3, <1>4, <1>8
  <2> QED
    BY <1>4, <1>6, <2>1, <2>2, <2>3 DEF Defined
<1>11. \A o \in Defined(l) \ {n} : \A x \in led.defs[o].idx :
         x[2] \in Nat /\ x[2] < led.nextIndex /\ \A y \in idx : y[2] # x[2]
  <2>1. \A o \in Defined(led) : \A x \in led.defs[o].idx : x \in Index /\ x[2] < led.nextIndex
    BY <1>2, <1>3 DEF LedgerSound, Defined
  <2> QED
    BY <1>10, <2>1 DEF Index
<1>12. \A j \in Ids : m.idx[j] = IF j = i THEN idx ELSE mem.idx[j]
  BY <1>3, <1>9
<1>13. LedgerSound(l)
  <2>1. l.names \subseteq Defined(l)
    BY <1>2, <1>3, <1>4, <1>6, <1>8 DEF LedgerSound, Defined
  <2>2. \A o \in Defined(l) : l.defs[o].id \in Ids /\ l.defs[o].id < l.nextTable
    BY <1>2, <1>4, <1>6, <1>8, <1>10 DEF LedgerSound
  <2>3. \A o \in Defined(l) : \A x \in l.defs[o].idx : x[2] < l.nextIndex
    BY <1>3, <1>6, <1>8, <1>10, <1>11
  <2>4. \A o, q \in Defined(l) : l.defs[o].id = l.defs[q].id => o = q
    BY <1>2, <1>6, <1>10 DEF LedgerSound
  <2>5. ASSUME NEW o \in Defined(l), NEW q \in Defined(l), NEW x \in l.defs[o].idx,
               NEW y \in l.defs[q].idx, x[2] = y[2]
        PROVE  o = q /\ x = y
    <3>1. CASE o = n /\ q = n
      BY <1>6, <1>10, <2>5, <3>1
    <3>2. CASE o = n /\ q # n
      BY <1>6, <1>10, <1>11, <2>5, <3>2
    <3>3. CASE o # n /\ q = n
      BY <1>6, <1>10, <1>11, <2>5, <3>3
    <3>4. CASE o # n /\ q # n
      BY <1>2, <1>10, <2>5, <3>4 DEF LedgerSound
    <3> QED
      BY <3>1, <3>2, <3>3, <3>4
  <2> QED
    BY <2>1, <2>2, <2>3, <2>4, <2>5 DEF LedgerSound
<1>14. NamesOf(m, l, late')
  <2>1. \A o \in Tables : IF o \in l.names THEN m.tables[o] \in Ids /\ m.name[m.tables[o]] = o
                                          ELSE m.tables[o] = None
    BY <1>2, <1>8, <1>9 DEF CopyOf, NamesOf
  <2>2. \A j \in Ids : m.name[j] # NoName => j < m.nextTable
    BY <1>2, <1>9 DEF CopyOf, NamesOf
  <2>3. \A o \in l.names : /\ m.name[l.defs[o].id] # NoName
                           /\ l.defs[o].id = m.tables[o] \/ l.defs[o].id \in late'
    <3> SUFFICES ASSUME NEW o \in l.names
                 PROVE  /\ m.name[l.defs[o].id] # NoName
                        /\ l.defs[o].id = m.tables[o] \/ l.defs[o].id \in late'
      OBVIOUS
    <3>1. CASE o = n
      <4>1. l.defs[o].id = i /\ m.name[i] # NoName
        BY <1>1, <1>6, <1>9, <1>10, <3>1 DEF n
      <4>2. ASSUME i \in Live PROVE i = mem.tables[n]
        <5>1. PICK q \in Tables : mem.tables[q] = i /\ mem.tables[q] # None
          BY <4>2 DEF Live
        <5>2. mem.name[i] = q
          BY <1>2, <5>1, TableId
        <5> QED
          BY <1>7, <5>1, <5>2
      <4> QED
        BY <1>1, <1>9, <3>1, <4>1, <4>2
    <3>2. CASE o # n
      <4>1. l.defs[o] = led.defs[o]
        BY <1>10, <1>13, <3>2 DEF LedgerSound
      <4>2. /\ mem.name[led.defs[o].id] # NoName
            /\ led.defs[o].id = mem.tables[o] \/ led.defs[o].id \in late
        BY <1>2, <1>8 DEF CopyOf, NamesOf
      <4> QED
        BY <1>1, <1>9, <4>1, <4>2
    <3> QED
      BY <3>1, <3>2
  <2>4. m.nextTable = l.nextTable /\ m.nextIndex = l.nextIndex
    BY <1>2, <1>8, <1>9 DEF CopyOf, NamesOf
  <2> QED
    BY <2>1, <2>2, <2>3, <2>4 DEF NamesOf
<1>15. IndexesOf(m, l)
  <2>1. \A o \in Defined(l) : m.name[l.defs[o].id] # NoName =>
            m.name[l.defs[o].id] = o /\ m.idx[l.defs[o].id] = l.defs[o].idx
    <3> SUFFICES ASSUME NEW o \in Defined(l), m.name[l.defs[o].id] # NoName
                 PROVE  m.name[l.defs[o].id] = o /\ m.idx[l.defs[o].id] = l.defs[o].idx
      OBVIOUS
    <3>1. CASE o = n
      BY <1>6, <1>7, <1>9, <1>10, <1>12, <3>1
    <3>2. CASE o # n
      <4>1. o \in Defined(led) /\ l.defs[o] = led.defs[o] /\ led.defs[o].id \in Ids \ {i}
        BY <1>10, <3>2
      <4>2. mem.name[led.defs[o].id] # NoName =>
                mem.name[led.defs[o].id] = o /\ mem.idx[led.defs[o].id] = led.defs[o].idx
        BY <1>2, <4>1 DEF CopyOf, IndexesOf
      <4> QED
        BY <1>9, <1>12, <4>1, <4>2
    <3> QED
      BY <3>1, <3>2
  <2>2. \A j, h \in Ids : \A x \in m.idx[j], y \in m.idx[h] : x[2] = y[2] => j = h /\ x = y
    BY <1>2, <1>12 DEF CopyOf, IndexesOf
  <2>3. \A j \in Ids : \A x \in m.idx[j] : x[2] < m.nextIndex
    <3>1. \A j \in Ids : \A x \in mem.idx[j] : x[2] \in Nat /\ x[2] < mem.nextIndex
      BY <1>2, <1>3 DEF CopyOf, IndexesOf, Index
    <3> QED
      BY <1>3, <1>9, <1>12, <3>1
  <2>4. ASSUME NEW o \in Defined(l), NEW j \in Ids, NEW x \in l.defs[o].idx, NEW y \in m.idx[j],
               x[2] = y[2]
        PROVE  l.defs[o].id = j /\ x = y
    <3>1. CASE o = n
      <4>1. x \in idx /\ l.defs[o].id = i /\ x \in m.idx[i]
        BY <1>6, <1>10, <1>12, <3>1
      <4> QED
        BY <2>2, <2>4, <4>1
    <3>2. CASE o # n
      <4>1. o \in Defined(led) /\ x \in led.defs[o].idx /\ l.defs[o] = led.defs[o]
        BY <1>10, <3>2
      <4>2. j # i /\ y \in mem.idx[j]
        BY <1>11, <1>12, <2>4, <3>2, <4>1
      <4> QED
        BY <1>2, <2>4, <4>1, <4>2 DEF CopyOf, IndexesOf
    <3> QED
      BY <3>1, <3>2
  <2> QED
    BY <2>1, <2>2, <2>3, <2>4 DEF IndexesOf
<1>16. HandlesInStep(m, l, scan, entries)
  <2> SUFFICES ASSUME NEW j \in Ids, NEW k \in Keys, mem.name[j] # NoName
               PROVE  /\ <<j, k>> \in scan <=> <<j, k>> \in led.rows
                      /\ <<j, k>> \in led.rows => \A x \in m.idx[j] : <<x[2], k>> \in entries
    BY <1>8, <1>9 DEF HandlesInStep
  <2>1. /\ <<j, k>> \in scan <=> <<j, k>> \in led.rows
        /\ <<j, k>> \in led.rows => \A x \in mem.idx[j] : <<x[2], k>> \in sec
    BY <1>2 DEF HandlesInStep
  <2>2. CASE j = i
    BY <1>12, <2>1, <2>2
  <2>3. CASE j # i
    BY <1>12, <2>1, <2>3
  <2> QED
    BY <2>2, <2>3
<1>17. l.nextTable >= led.nextTable /\ l.nextIndex >= led.nextIndex
       /\ \A e \in entries : e[1] < l.nextIndex
  BY <1>3, <1>8
<1>18. \A j \in Ids : j < led.nextTable => m.next[j] = mem.next[j]
  BY <1>9
<1>19. CopyOf(m, l, late') /\ late' \in SUBSET Ids
  BY <1>1, <1>2, <1>14, <1>15 DEF CopyOf
<1> QED
  BY <1>5, <1>8, <1>9, <1>13, <1>16, <1>17, <1>18, <1>19, DdlKeeps

\* CREATE INDEX, DROP INDEX and RENAME INDEX.
LEMMA IndexKeeps ==
    ASSUME TablesInv, NEW i \in Ids,
           \/ \E x \in Indexes : CreateIndex(i, x) \/ DropIndex(i, x)
           \/ \E from, to \in Indexes : RenameIndex(i, from, to)
    PROVE  TablesInv'
<1>1. mem.name[i] # NoName /\ phase = "up" /\ half = << >>
  BY DEF CreateIndex, DropIndex, RenameIndex, SetIndexes, Ddl, Free, Handles
<1>2. /\ led \in Ledger /\ mem \in Memory /\ LedgerSound(led) /\ CopyOf(mem, led, late)
      /\ scan \in SUBSET (Ids \X Keys) /\ sec \in SUBSET ((1 .. MaxIndex) \X Keys)
      /\ FreshIn(led, scan, sec) /\ HandlesInStep(mem, led, scan, sec)
  BY <1>1, FreeHas
<1>3. \A o \in Defined(led) : led.defs[o].id # i =>
          \A x \in mem.idx[i], y \in led.defs[o].idx : x[2] # y[2]
  BY <1>2 DEF CopyOf, IndexesOf
<1>4. /\ mem.nextIndex \in 1 .. MaxIndex + 1 /\ mem.nextIndex = led.nextIndex
      /\ mem.idx \in [Ids -> SUBSET Index]
      /\ \A j \in Ids : \A y \in mem.idx[j] : y[2] \in 1 .. MaxIndex /\ y[2] < mem.nextIndex
      /\ \A e \in sec : e[1] \in 1 .. MaxIndex /\ e[1] < mem.nextIndex
      /\ \A o \in Defined(led) : \A y \in led.defs[o].idx : y[2] < mem.nextIndex
  BY <1>2, MemoryFields DEF CopyOf, NamesOf, IndexesOf, Index, FreshIn, LedgerSound
<1>5. \A k \in Keys : /\ <<i, k>> \in scan <=> <<i, k>> \in led.rows
                      /\ <<i, k>> \in led.rows => \A x \in mem.idx[i] : <<x[2], k>> \in sec
  BY <1>1, <1>2 DEF HandlesInStep
<1>6. \A j, h \in Ids : \A x \in mem.idx[j], y \in mem.idx[h] : x[2] = y[2] => j = h /\ x = y
  BY <1>2 DEF CopyOf, IndexesOf
<1>7. [mem EXCEPT !.nextIndex = mem.nextIndex] = mem
  BY <1>2 DEF Memory
<1>8. ASSUME NEW x \in Indexes, CreateIndex(i, x) PROVE TablesInv'
  <2> DEFINE id == mem.nextIndex
             idx == mem.idx[i] \cup {<<x, id>>}
             entries == sec \cup {<<id, e[2]>> : e \in {f \in scan : f[1] = i}}
             v == id + 1
  <2>1. id =< MaxIndex /\ SetIndexes(i, idx, entries, [mem EXCEPT !.nextIndex = v])
    BY <1>8 DEF CreateIndex
  <2>2. id \in 1 .. MaxIndex /\ v \in 1 .. MaxIndex + 1 /\ v >= mem.nextIndex
    BY <1>4, <2>1, TablesBoundsAssumption
  <2>3. idx \in SUBSET Index
    BY <1>4, <2>2 DEF Index
  <2>4. entries \in SUBSET ((1 .. MaxIndex) \X Keys)
    BY <1>2, <2>2
  <2>5. \A y \in idx : y[2] < v
    BY <1>4, <2>2
  <2>6. \A y, z \in idx : y[2] = z[2] => y = z
    BY <1>4, <1>6, <2>2
  <2>7. \A j \in Ids \ {i} : \A y \in idx, z \in mem.idx[j] : y[2] # z[2]
    BY <1>4, <1>6, <2>2
  <2>8. \A e \in entries : e[1] < v
    BY <1>4, <2>2
  <2>9. \A k \in Keys : <<i, k>> \in led.rows => \A y \in idx : <<y[2], k>> \in entries
    <3> SUFFICES ASSUME NEW k \in Keys, <<i, k>> \in led.rows, NEW y \in idx
                 PROVE  <<y[2], k>> \in entries
      OBVIOUS
    <3>1. CASE y \in mem.idx[i]
      BY <1>5, <3>1
    <3>2. CASE y = <<x, id>>
      <4>1. <<i, k>> \in scan
        BY <1>5
      <4>2. <<i, k>> \in {f \in scan : f[1] = i} /\ <<id, <<i, k>>[2]>> = <<y[2], k>>
        BY <3>2, <4>1
      <4> QED
        BY <4>2
    <3> QED
      BY <3>1, <3>2
  <2>10. \A j \in Ids \ {i}, k \in Keys :
            \A y \in mem.idx[j] : <<y[2], k>> \in sec => <<y[2], k>> \in entries
    OBVIOUS
  <2>11. \A o \in Defined(led) : led.defs[o].id # i =>
            \A y \in idx, z \in led.defs[o].idx : y[2] # z[2]
    BY <1>3, <1>4, <2>2
  <2> HIDE DEF idx, entries, v, id
  <2> QED
    BY <2>1, <2>2, <2>3, <2>4, <2>5, <2>6, <2>7, <2>8, <2>9, <2>10, <2>11, SetIndexesKeeps
<1>9. ASSUME NEW x \in Indexes, DropIndex(i, x) PROVE TablesInv'
  <2>1. PICK y \in mem.idx[i] :
            SetIndexes(i, mem.idx[i] \ {y}, {e \in sec : e[1] # y[2]}, mem)
    BY <1>9 DEF DropIndex
  <2> DEFINE idx == mem.idx[i] \ {y}
             entries == {e \in sec : e[1] # y[2]}
  <2>2. SetIndexes(i, idx, entries, [mem EXCEPT !.nextIndex = mem.nextIndex])
        /\ mem.nextIndex >= mem.nextIndex
    BY <1>4, <1>7, <2>1
  <2>3. idx \in SUBSET Index /\ entries \in SUBSET ((1 .. MaxIndex) \X Keys)
    BY <1>2, <1>4
  <2>4. /\ \A z \in idx : z[2] < mem.nextIndex
        /\ \A z, u \in idx : z[2] = u[2] => z = u
        /\ \A j \in Ids \ {i} : \A z \in idx, u \in mem.idx[j] : z[2] # u[2]
        /\ \A e \in entries : e[1] < mem.nextIndex
    BY <1>4, <1>6
  <2>5. \A j \in Ids \ {i}, k \in Keys :
            \A z \in mem.idx[j] : <<z[2], k>> \in sec => <<z[2], k>> \in entries
    BY <1>6, <2>1
  <2>6. \A k \in Keys : <<i, k>> \in led.rows => \A z \in idx : <<z[2], k>> \in entries
    BY <1>5, <1>6, <2>1
  <2>7. \A o \in Defined(led) : led.defs[o].id # i =>
            \A z \in idx, u \in led.defs[o].idx : z[2] # u[2]
    BY <1>3
  <2> HIDE DEF idx, entries
  <2> QED
    BY <1>4, <2>2, <2>3, <2>4, <2>5, <2>6, <2>7, SetIndexesKeeps
<1>10. ASSUME NEW from \in Indexes, NEW to \in Indexes, RenameIndex(i, from, to)
       PROVE  TablesInv'
  <2>1. PICK y \in mem.idx[i] :
            SetIndexes(i, (mem.idx[i] \ {y}) \cup {<<to, y[2]>>}, sec, mem)
    BY <1>10 DEF RenameIndex
  <2> DEFINE idx == (mem.idx[i] \ {y}) \cup {<<to, y[2]>>}
  <2>2. SetIndexes(i, idx, sec, [mem EXCEPT !.nextIndex = mem.nextIndex])
        /\ mem.nextIndex >= mem.nextIndex
    BY <1>4, <1>7, <2>1
  <2>3. idx \in SUBSET Index
    BY <1>4, <2>1 DEF Index
  <2>4. \A z \in idx : \E u \in mem.idx[i] : z[2] = u[2] /\ (z = u \/ u = y)
    BY <2>1
  <2>5. /\ \A z \in idx : z[2] < mem.nextIndex
        /\ \A j \in Ids \ {i} : \A z \in idx, u \in mem.idx[j] : z[2] # u[2]
    BY <1>4, <1>6, <2>4
  <2>6. \A z, u \in idx : z[2] = u[2] => z = u
    BY <1>6, <2>1
  <2>7. \A k \in Keys : <<i, k>> \in led.rows => \A z \in idx : <<z[2], k>> \in sec
    BY <1>5, <2>4
  <2>8. \A e \in sec : e[1] < mem.nextIndex
    BY <1>4
  <2>9. \A o \in Defined(led) : led.defs[o].id # i =>
            \A z \in idx, u \in led.defs[o].idx : z[2] # u[2]
    BY <1>3, <2>4
  <2> HIDE DEF idx
  <2> QED
    BY <1>2, <1>4, <2>2, <2>3, <2>5, <2>6, <2>7, <2>8, <2>9, SetIndexesKeeps
<1> QED
  BY <1>8, <1>9, <1>10

\* A batch of rows: entries go with the rows del and come with the rows put, and
\* rows and entries stay in step, because no other table's index, not even a
\* dropped one's, has the id of an index that stays.
LEMMA RowsInStep ==
    ASSUME TablesInv, phase = "up", half = << >>, NEW l \in Ledger,
           NEW del, NEW put \in SUBSET (Ids \X Keys), NEW gone, NEW come,
           \A p \in del : p = <<p[1], p[2]>> /\ p[1] \in Ids,
           \A e \in gone : \E p \in del : e \in IndexEntries(p[1], {p[2]}),
           \A p \in put : IndexEntries(p[1], {p[2]}) \subseteq come,
           l.rows = (led.rows \ del) \cup put
    PROVE  HandlesInStep(mem, l, (scan \ del) \cup put, (sec \ gone) \cup come)
<1>1. CopyOf(mem, led, late) /\ HandlesInStep(mem, led, scan, sec)
  BY FreeHas
<1> SUFFICES ASSUME NEW i \in Ids, NEW k \in Keys, mem.name[i] # NoName
             PROVE  LET p == <<i, k>>
                    IN  /\ p \in (scan \ del) \cup put <=> p \in (led.rows \ del) \cup put
                        /\ p \in (led.rows \ del) \cup put =>
                            \A x \in mem.idx[i] : <<x[2], k>> \in (sec \ gone) \cup come
  BY DEF HandlesInStep
<1>2. /\ <<i, k>> \in scan <=> <<i, k>> \in led.rows
      /\ <<i, k>> \in led.rows => \A x \in mem.idx[i] : <<x[2], k>> \in sec
  BY <1>1 DEF HandlesInStep
<1>3. ASSUME NEW x \in mem.idx[i], <<i, k>> \in put
      PROVE  <<x[2], k>> \in come
  <2>1. <<x[2], k>> \in IndexEntries(i, {k})
    BY DEF IndexEntries
  <2>2. IndexEntries(<<i, k>>[1], {<<i, k>>[2]}) \subseteq come
    BY <1>3
  <2> QED
    BY <2>1, <2>2
<1>4. ASSUME NEW x \in mem.idx[i], <<i, k>> \in led.rows \ del
      PROVE  <<x[2], k>> \in sec \ gone
  <2>1. <<x[2], k>> \in sec
    BY <1>2, <1>4
  <2>2. ASSUME <<x[2], k>> \in gone PROVE FALSE
    <3>1. PICK p \in del : <<x[2], k>> \in IndexEntries(p[1], {p[2]})
      BY <2>2
    <3>2. PICK y \in mem.idx[p[1]] : <<x[2], k>> = <<y[2], p[2]>>
      BY <3>1 DEF IndexEntries
    <3>3. p[1] \in Ids /\ p = <<p[1], p[2]>>
      OBVIOUS
    <3>4. p[1] = i
      BY <1>1, <3>2, <3>3 DEF CopyOf, IndexesOf
    <3>5. p = <<i, k>>
      BY <3>2, <3>3, <3>4
    <3> QED
      BY <1>4, <3>5
  <2> QED
    BY <2>1, <2>2
<1> QED
  BY <1>2, <1>3, <1>4

\* One chunk of TRUNCATE or DROP TABLE.
LEMMA DeleteChunkKeeps ==
    ASSUME TablesInv, DeleteChunk
    PROVE  TablesInv'
<1>1. PICK D : /\ job # NoJob /\ phase = "up" /\ half = << >>
               /\ Commit([led EXCEPT !.rows = @ \ ({job.id} \X D)],
                         scan \ ({job.id} \X D), sec \ IndexEntries(job.id, D), mem, job)
               /\ mem' = mem /\ job' = job /\ buf' = buf /\ given' = given
               /\ lowered' = lowered /\ skipped' = skipped /\ late' = late
  BY DEF DeleteChunk, stmts, record
<1>2. /\ led \in Ledger /\ mem \in Memory /\ LedgerSound(led) /\ CopyOf(mem, led, late)
      /\ scan \in SUBSET (Ids \X Keys) /\ sec \in SUBSET ((1 .. MaxIndex) \X Keys)
      /\ FreshIn(led, scan, sec) /\ buf \in [Sessions -> Buffer]
      /\ lowered \in SUBSET (Ids \X Keys) /\ skipped \in SUBSET (Ids \X Keys)
      /\ late \in SUBSET Ids
      /\ \A s \in Sessions : \A p \in DOMAIN buf[s] : p[1] < led.nextTable
      /\ CountersOf(mem, led, buf, Exempt) /\ job \in Job /\ JobHas(job, mem)
      /\ \A p \in led.rows : p \notin Exempt =>
           p[2] < Loaded(led.auto[p[1]]) /\ p[2] < mem.next[p[1]]
  BY <1>1, FreeHas
<1> DEFINE del == {job.id} \X D
           gone == IndexEntries(job.id, D)
           l == [led EXCEPT !.rows = @ \ del]
           i == scan \ del
           x == sec \ gone
<1>3. job.id \in Ids /\ Exempt' = Exempt
  BY <1>1, <1>2 DEF Job, Exempt
<1>4. Commit(l, i, x, mem, job)
  BY <1>1
<1>5. \A p \in del : p = <<p[1], p[2]>> /\ p[1] \in Ids
  BY <1>3
<1>6. \A e \in gone : \E p \in del : e \in IndexEntries(p[1], {p[2]})
  <2> SUFFICES ASSUME NEW e \in gone PROVE \E p \in del : e \in IndexEntries(p[1], {p[2]})
    OBVIOUS
  <2>1. PICK y \in mem.idx[job.id], k \in D : e = <<y[2], k>>
    BY DEF IndexEntries
  <2>2. <<job.id, k>> \in del /\ e \in IndexEntries(<<job.id, k>>[1], {<<job.id, k>>[2]})
    BY <2>1 DEF IndexEntries
  <2> QED
    BY <2>2
<1> HIDE DEF del, gone
<1>7. /\ l \in Ledger
      /\ l.nextTable = led.nextTable /\ l.nextIndex = led.nextIndex /\ l.names = led.names
      /\ l.defs = led.defs /\ l.auto = led.auto /\ l.rows = led.rows \ del
  BY <1>2 DEF Ledger
<1>8. i \in SUBSET (Ids \X Keys) /\ x \in SUBSET ((1 .. MaxIndex) \X Keys)
  BY <1>2
<1>9. HandlesInStep(mem, l, i, x)
  <2>1. l.rows = (led.rows \ del) \cup {} /\ {} \in SUBSET (Ids \X Keys)
    BY <1>7
  <2> HIDE DEF l, i, x
  <2>2. HandlesInStep(mem, l, (scan \ del) \cup {}, (sec \ gone) \cup {})
    BY <1>1, <1>5, <1>6, <1>7, <2>1, RowsInStep
  <2>3. (scan \ del) \cup {} = i /\ (sec \ gone) \cup {} = x
    BY DEF i, x
  <2> QED
    BY <2>2, <2>3
<1>10. FreshIn(l, scan, sec) /\ FreshIn(l, i, x)
  BY <1>2, <1>7 DEF FreshIn
<1>11. LedgerSound(l) /\ CopyOf(mem, l, late) /\ CountersOf(mem, l, buf, Exempt)
  BY <1>2, <1>7 DEF LedgerSound, Defined, CopyOf, NamesOf, IndexesOf, CountersOf
<1>12. l.nextTable >= led.nextTable
  BY <1>2, <1>7, LedgerFields
<1> HIDE DEF l, i, x
<1> QED
  BY <1>1, <1>2, <1>3, <1>4, <1>7, <1>8, <1>9, <1>10, <1>11, <1>12, CommitKeeps

\* The end of DROP TABLE: its loop has seen an empty scan space, and that was
\* in step with the rows.
LEMMA DropReturnsKeeps ==
    ASSUME TablesInv, DropReturns
    PROVE  TablesInv'
<1> DEFINE n == job.name
           l == [led EXCEPT !.names = @ \ {n}, !.defs[n] = NoDef, !.auto[job.id] = None]
           m == [mem EXCEPT !.tables[n] = None]
<1>1. /\ job # NoJob /\ phase = "up" /\ half = << >> /\ KeysOf(scan, job.id) = {}
      /\ job.op = "drop"
      /\ Commit(l, scan, sec, m, NoJob)
      /\ mem' = mem /\ job' = job /\ buf' = buf /\ given' = given
      /\ lowered' = lowered /\ skipped' = skipped /\ late' = late
  BY DEF DropReturns, LoopDone, stmts, record
<1>2. /\ led \in Ledger /\ mem \in Memory /\ LedgerSound(led) /\ CopyOf(mem, led, late)
      /\ scan \in SUBSET (Ids \X Keys) /\ sec \in SUBSET ((1 .. MaxIndex) \X Keys)
      /\ FreshIn(led, scan, sec) /\ buf \in [Sessions -> Buffer]
      /\ lowered \in SUBSET (Ids \X Keys) /\ skipped \in SUBSET (Ids \X Keys)
      /\ late \in SUBSET Ids
      /\ \A s \in Sessions : \A p \in DOMAIN buf[s] : p[1] < led.nextTable
      /\ CountersOf(mem, led, buf, Exempt) /\ job \in Job
      /\ JobHas(job, mem) /\ HandlesInStep(mem, led, scan, sec)
      /\ \A p \in led.rows : p \notin Exempt =>
           p[2] < Loaded(led.auto[p[1]]) /\ p[2] < mem.next[p[1]]
  BY <1>1, FreeHas
<1>3. job.id \in Ids /\ n \in Tables /\ Exempt' = Exempt
  BY <1>1, <1>2 DEF Job, Exempt
<1>4. mem.name[job.id] # NoName /\ mem.tables[n] = job.id
  BY <1>1, <1>2 DEF JobHas
<1>5. \A k \in Keys : <<job.id, k>> \notin scan /\ <<job.id, k>> \notin led.rows
  <2>1. \A k \in Keys : <<job.id, k>> \notin scan
    BY <1>1, <1>2, KeysOfIs
  <2> QED
    BY <1>2, <1>3, <1>4, <2>1 DEF HandlesInStep
<1>6. /\ led.defs \in [Tables -> [id : 0 .. MaxTable, idx : SUBSET Index]]
      /\ led.auto \in [Ids -> Nat] /\ led.rows \subseteq Ids \X Keys
      /\ mem.tables \in [Tables -> 0 .. MaxTable]
      /\ led.nextTable \in Nat /\ led.names \subseteq Tables
  BY <1>2, LedgerFields, MemoryFields
<1> HIDE DEF n
<1>7. /\ l \in Ledger
      /\ l.nextTable = led.nextTable /\ l.nextIndex = led.nextIndex
      /\ l.names = led.names \ {n} /\ l.defs = [led.defs EXCEPT ![n] = NoDef]
      /\ l.auto = [led.auto EXCEPT ![job.id] = None] /\ l.rows = led.rows
  <2>1. /\ [led.defs EXCEPT ![n] = NoDef] \in [Tables -> [id : 0 .. MaxTable, idx : SUBSET Index]]
        /\ [led.auto EXCEPT ![job.id] = None] \in [Ids -> Nat]
    <3>1. NoDef \in [id : 0 .. MaxTable, idx : SUBSET Index] /\ None \in Nat
      BY TablesBoundsAssumption DEF NoDef, None
    <3> QED
      BY <1>6, <3>1
  <2> QED
    BY <1>2, <2>1 DEF Ledger
<1>8. /\ m \in Memory
      /\ m.nextTable = mem.nextTable /\ m.nextIndex = mem.nextIndex
      /\ m.tables = [mem.tables EXCEPT ![n] = None]
      /\ m.name = mem.name /\ m.idx = mem.idx /\ m.next = mem.next
  <2>1. [mem.tables EXCEPT ![n] = None] \in [Tables -> 0 .. MaxTable]
    <3>1. None \in 0 .. MaxTable
      BY TablesBoundsAssumption DEF None
    <3> QED
      BY <1>6, <3>1
  <2> QED
    BY <1>2, <2>1 DEF Memory
<1> HIDE DEF l, m
<1>9. /\ \A o \in Tables \ {n} : l.defs[o] = led.defs[o] /\ m.tables[o] = mem.tables[o]
      /\ l.defs[n] = NoDef /\ m.tables[n] = None
  BY <1>3, <1>6, <1>7, <1>8
<1>10. /\ \A o \in Defined(l) : o \in Defined(led) /\ l.defs[o] = led.defs[o]
       /\ l.names \subseteq Defined(l)
       /\ \A o \in l.names : o \in led.names /\ o \in Tables \ {n} /\ l.defs[o] = led.defs[o]
  <2>1. \A o \in Defined(l) : o \in Tables \ {n}
    BY <1>9 DEF Defined
  <2>2. \A o \in l.names : o \in led.names /\ o \in Tables \ {n}
    BY <1>6, <1>7
  <2>3. \A o \in led.names : o \in Defined(led)
    BY <1>2 DEF LedgerSound
  <2> QED
    BY <1>9, <2>1, <2>2, <2>3 DEF Defined
<1>11. LedgerSound(l)
  BY <1>2, <1>7, <1>10 DEF LedgerSound
<1>12. CopyOf(m, l, late)
  <2>1. \A o \in Tables : IF o \in l.names THEN m.tables[o] \in Ids /\ m.name[m.tables[o]] = o
                                          ELSE m.tables[o] = None
    <3> SUFFICES ASSUME NEW o \in Tables
                 PROVE  IF o \in l.names THEN m.tables[o] \in Ids /\ m.name[m.tables[o]] = o
                                         ELSE m.tables[o] = None
      OBVIOUS
    <3>1. CASE o = n
      BY <1>7, <1>9, <3>1
    <3>2. CASE o # n
      <4>1. m.tables[o] = mem.tables[o] /\ (o \in l.names <=> o \in led.names)
        BY <1>7, <1>9, <3>2
      <4> QED
        BY <1>2, <1>8, <4>1 DEF CopyOf, NamesOf
    <3> QED
      BY <3>1, <3>2
  <2>2. \A o \in l.names : /\ m.name[l.defs[o].id] # NoName
                           /\ l.defs[o].id = m.tables[o] \/ l.defs[o].id \in late
    BY <1>2, <1>8, <1>9, <1>10 DEF CopyOf, NamesOf
  <2>3. NamesOf(m, l, late)
    BY <1>2, <1>7, <1>8, <2>1, <2>2 DEF CopyOf, NamesOf
  <2>4. IndexesOf(m, l)
    BY <1>2, <1>8, <1>10 DEF CopyOf, IndexesOf
  <2> QED
    BY <2>3, <2>4 DEF CopyOf
<1>13. FreshIn(l, scan, sec)
  BY <1>2, <1>3, <1>6, <1>7 DEF FreshIn
<1>14. HandlesInStep(m, l, scan, sec)
  BY <1>2, <1>7, <1>8 DEF HandlesInStep
<1>15. \A i \in Ids : Loaded(l.auto[i]) =< Loaded(led.auto[i]) /\ Loaded(l.auto[i]) \in Nat
                      /\ Loaded(led.auto[i]) \in Nat
  BY <1>3, <1>6, <1>7 DEF Loaded, None
<1>16. CountersOf(m, l, buf, Exempt)
  <2>1. \A i \in Ids : mem.next[i] \in Nat
    BY <1>2, MemoryFields
  <2> QED
    BY <1>2, <1>8, <1>15, <2>1 DEF CountersOf
<1>17. \A p \in l.rows : p \notin Exempt =>
           p[2] < Loaded(l.auto[p[1]]) /\ p[2] < mem.next[p[1]]
  <2> SUFFICES ASSUME NEW p \in led.rows, p \notin Exempt
               PROVE  p[2] < Loaded(l.auto[p[1]]) /\ p[2] < mem.next[p[1]]
    BY <1>7
  <2>1. p = <<p[1], p[2]>> /\ p[1] \in Ids /\ p[2] \in Keys
    BY <1>6
  <2>2. p[1] # job.id
    BY <1>5, <2>1
  <2>3. l.auto[p[1]] = led.auto[p[1]]
    BY <1>6, <1>7, <2>1, <2>2
  <2> QED
    BY <1>2, <2>3
<1>18. l.nextTable >= led.nextTable /\ NoJob \in Job /\ JobHas(NoJob, m)
  BY <1>6, <1>7 DEF Job, JobHas
<1>19. \A k \in Keys : <<job.id, k>> \notin l.rows \cup scan
  BY <1>5, <1>7
<1>20. \A s \in Sessions : \A p \in DOMAIN buf[s] : p[1] < l.nextTable
  BY <1>2, <1>7
<1> QED
  BY <1>1, <1>2, <1>3, <1>7, <1>8, <1>11, <1>12, <1>13, <1>14, <1>16, <1>17, <1>18, <1>19,
     <1>20, CommitKeeps

\* The rows of a transaction, or of a session that writes directly: every table
\* named has its counter written, past the rows that come.
LEMMA ApplyKeeps ==
    ASSUME TablesInv, NEW s \in Sessions, Free, Apply(s)
    PROVE  TablesInv'
<1> DEFINE ps   == DOMAIN buf[s]
           put  == {p \in ps : buf[s][p] # "delete"}
           del  == ps \ put
           X(P) == UNION {IndexEntries(p[1], {p[2]}) : p \in P}
           ids  == {p[1] : p \in ps}
           past == {p \in ids \X Keys : p[2] < mem.next[p[1]]}
           l    == [led EXCEPT !.rows = (@ \ del) \cup put,
                               !.auto = [i \in Ids |-> IF i \in ids THEN mem.next[i]
                                                                   ELSE @[i]]]
           sc   == (scan \ del) \cup put
           se   == (sec \ X(del)) \cup X(put)
<1>1. /\ phase = "up" /\ half = << >> /\ job = NoJob
      /\ Commit(l, sc, se, mem, NoJob) /\ buf' = [buf EXCEPT ![s] = Empty]
      /\ mem' = mem /\ job' = job /\ given' = given /\ late' = late
      /\ lowered' = lowered \ past /\ skipped' = skipped \ past
  BY DEF Apply, Free
<1>2. /\ led \in Ledger /\ mem \in Memory /\ LedgerSound(led) /\ CopyOf(mem, led, late)
      /\ scan \in SUBSET (Ids \X Keys) /\ sec \in SUBSET ((1 .. MaxIndex) \X Keys)
      /\ FreshIn(led, scan, sec) /\ buf \in [Sessions -> Buffer]
      /\ lowered \in SUBSET (Ids \X Keys) /\ skipped \in SUBSET (Ids \X Keys)
      /\ late \in SUBSET Ids
      /\ \A r \in Sessions : \A p \in DOMAIN buf[r] : p[1] < led.nextTable
      /\ CountersOf(mem, led, buf, Exempt)
      /\ \A p \in led.rows : p \notin Exempt =>
           p[2] < Loaded(led.auto[p[1]]) /\ p[2] < mem.next[p[1]]
  BY <1>1, FreeHas
<1>3. ps \subseteq Ids \X Keys /\ \A p \in ps : p = <<p[1], p[2]>> /\ p[1] \in Ids /\ p[2] \in Keys
  BY <1>2, BufferIs
<1>4. put \in SUBSET (Ids \X Keys) /\ put \subseteq ps /\ del \subseteq ps
  BY <1>3
<1>5. ASSUME NEW P \in SUBSET ps, NEW e \in X(P)
      PROVE  \E p \in P : e \in IndexEntries(p[1], {p[2]})
  OBVIOUS
<1>6. ASSUME NEW p \in put PROVE IndexEntries(p[1], {p[2]}) \subseteq X(put)
  OBVIOUS
<1>7. ASSUME NEW e \in X(put)
      PROVE  e \in (1 .. MaxIndex) \X Keys /\ e[1] < led.nextIndex
  <2>1. PICK p \in put : e \in IndexEntries(p[1], {p[2]})
    BY <1>4, <1>5
  <2>2. PICK y \in mem.idx[p[1]] : e = <<y[2], p[2]>>
    BY <2>1 DEF IndexEntries
  <2>3. p[1] \in Ids /\ p[2] \in Keys
    BY <1>3, <1>4
  <2>4. y \in Index
    BY <1>2, <2>3, MemoryFields
  <2>5. y[2] \in 1 .. MaxIndex /\ y[2] < led.nextIndex
    BY <1>2, <2>3, <2>4 DEF Index, CopyOf, NamesOf, IndexesOf
  <2> QED
    BY <2>2, <2>3, <2>5
<1>8. led.auto \in [Ids -> Nat] /\ mem.next \in [Ids -> Nat \ {0}] /\ led.nextTable \in Nat
      /\ led.rows \subseteq Ids \X Keys
  BY <1>2, LedgerFields, MemoryFields
<1>9. \A e \in X(del) : \E p \in del : e \in IndexEntries(p[1], {p[2]})
  BY <1>4, <1>5
<1>10. \A p \in put : IndexEntries(p[1], {p[2]}) \subseteq X(put)
  BY <1>6
<1>11. \A i \in Ids, k \in Keys : <<i, k>> \in put =>
          /\ i \in ids /\ i < led.nextTable
          /\ <<i, k>> \notin Exempt => k < mem.next[i]
  <2> SUFFICES ASSUME NEW i \in Ids, NEW k \in Keys, <<i, k>> \in put
               PROVE  /\ i \in ids /\ i < led.nextTable
                      /\ <<i, k>> \notin Exempt => k < mem.next[i]
    OBVIOUS
  <2>1. <<i, k>> \in DOMAIN buf[s] /\ buf[s][<<i, k>>] # "delete" /\ <<i, k>>[1] = i
    OBVIOUS
  <2>2. i \in ids
    BY <2>1
  <2>3. i < led.nextTable
    BY <1>2, <2>1
  <2> QED
    BY <1>2, <2>1, <2>2, <2>3 DEF CountersOf
<1>12. \A i \in ids : i \in Ids /\ i < led.nextTable
  BY <1>2, <1>3
<1>13. del \subseteq Ids \X Keys
  BY <1>3, <1>4
<1>14. /\ \A p \in past : p[1] \in ids /\ p[2] < mem.next[p[1]]
       /\ \A p : p \in Exempt' <=> p \in Exempt /\ p \notin past
       /\ lowered' \in SUBSET (Ids \X Keys) /\ skipped' \in SUBSET (Ids \X Keys)
  <2>1. \A p \in past : p[1] \in ids /\ p[2] < mem.next[p[1]]
    OBVIOUS
  <2> HIDE DEF past
  <2> QED
    BY <1>1, <1>2, <2>1 DEF Exempt
<1> HIDE DEF ps, put, del, X, ids, past
<1>15. /\ l \in Ledger
       /\ l.nextTable = led.nextTable /\ l.nextIndex = led.nextIndex /\ l.names = led.names
       /\ l.defs = led.defs /\ l.rows = (led.rows \ del) \cup put
       /\ l.auto = [i \in Ids |-> IF i \in ids THEN mem.next[i] ELSE led.auto[i]]
  <2>1. /\ (led.rows \ del) \cup put \in SUBSET (Ids \X Keys)
        /\ [i \in Ids |-> IF i \in ids THEN mem.next[i] ELSE led.auto[i]] \in [Ids -> Nat]
    BY <1>4, <1>8
  <2> QED
    BY <1>2, <2>1 DEF Ledger
<1>16. sc \in SUBSET (Ids \X Keys) /\ se \in SUBSET ((1 .. MaxIndex) \X Keys)
  BY <1>2, <1>4, <1>7
<1>17. HandlesInStep(mem, l, sc, se)
  <2>1. \A p \in del : p = <<p[1], p[2]>> /\ p[1] \in Ids
    BY <1>13
  <2> HIDE DEF l
  <2>2. HandlesInStep(mem, l, (scan \ del) \cup put, (sec \ X(del)) \cup X(put))
    BY <1>1, <1>4, <1>9, <1>10, <1>15, <2>1, RowsInStep
  <2> QED
    BY <2>2
<1> HIDE DEF l
<1>18. FreshIn(l, scan, sec) /\ FreshIn(l, sc, se)
  <2>1. \A p \in l.rows \cup sc \cup scan : p[1] < l.nextTable
    <3>1. \A p \in put : p[1] < led.nextTable
      BY <1>4, <1>11
    <3> QED
      BY <1>2, <1>15, <3>1 DEF FreshIn
  <2>2. \A i \in Ids : i >= l.nextTable => l.auto[i] = None
    <3> SUFFICES ASSUME NEW i \in Ids, i >= led.nextTable PROVE l.auto[i] = None
      BY <1>15
    <3>1. i \notin ids
      BY <1>8, <1>12 DEF Ids
    <3> QED
      BY <1>2, <1>15, <3>1 DEF FreshIn
  <2>3. \A e \in se \cup sec : e[1] < l.nextIndex
    BY <1>2, <1>7, <1>15 DEF FreshIn
  <2> QED
    BY <2>1, <2>2, <2>3 DEF FreshIn
<1>19. LedgerSound(l) /\ CopyOf(mem, l, late)
  BY <1>2, <1>15 DEF LedgerSound, Defined, CopyOf, NamesOf, IndexesOf
<1>20. \A i \in Ids : /\ Loaded(led.auto[i]) =< Loaded(l.auto[i])
                      /\ Loaded(l.auto[i]) =< mem.next[i]
                      /\ i \in ids => Loaded(l.auto[i]) = mem.next[i]
  BY <1>2, <1>8, <1>15 DEF CountersOf, Loaded, None
<1>21. /\ buf' \in [Sessions -> Buffer]
       /\ \A r \in Sessions : \A p \in DOMAIN buf'[r] :
            p \in DOMAIN buf[r] /\ buf'[r][p] = buf[r][p]
  BY <1>1, <1>2, EmptyIs
<1>22. CountersOf(mem, l, buf', Exempt')
  <2> SUFFICES ASSUME NEW i \in Ids, NEW r \in Sessions, NEW k \in Keys,
                      <<i, k>> \in DOMAIN buf'[r], buf'[r][<<i, k>>] # "delete",
                      <<i, k>> \notin Exempt'
               PROVE  k < mem.next[i]
    BY <1>20 DEF CountersOf
  <2>1. <<i, k>> \in DOMAIN buf[r] /\ buf[r][<<i, k>>] # "delete"
    BY <1>21
  <2>2. CASE <<i, k>> \in past
    BY <1>14, <2>2
  <2>3. CASE <<i, k>> \notin past
    BY <1>2, <1>14, <2>1, <2>3 DEF CountersOf
  <2> QED
    BY <2>2, <2>3
<1>23. \A p \in l.rows : p \notin Exempt' =>
           p[2] < Loaded(l.auto[p[1]]) /\ p[2] < mem.next[p[1]]
  <2> SUFFICES ASSUME NEW p \in l.rows, p \notin Exempt'
               PROVE  p[2] < Loaded(l.auto[p[1]]) /\ p[2] < mem.next[p[1]]
    OBVIOUS
  <2>1. p = <<p[1], p[2]>> /\ p[1] \in Ids /\ p[2] \in Keys /\ p[2] \in Nat
    BY <1>15, LedgerFields DEF Keys
  <2>2. CASE p \in past
    BY <1>14, <1>20, <2>1, <2>2
  <2>3. CASE p \notin past /\ p \in put
    <3>1. <<p[1], p[2]>> \in put /\ <<p[1], p[2]>> \notin Exempt
      BY <1>14, <2>1, <2>3
    <3>2. p[1] \in ids /\ p[2] < mem.next[p[1]]
      BY <1>11, <2>1, <3>1
    <3>3. Loaded(l.auto[p[1]]) = mem.next[p[1]]
      BY <1>20, <2>1, <3>2
    <3> QED
      BY <3>2, <3>3
  <2>4. CASE p \notin past /\ p \in led.rows
    <3>1. Loaded(led.auto[p[1]]) \in Nat /\ Loaded(l.auto[p[1]]) \in Nat
      BY <1>2, <1>15, <2>1, CounterTypes
    <3>2. p[2] < Loaded(led.auto[p[1]]) /\ p[2] < mem.next[p[1]]
      BY <1>2, <1>14, <2>4
    <3>3. Loaded(led.auto[p[1]]) =< Loaded(l.auto[p[1]])
      BY <1>20, <2>1
    <3> QED
      BY <2>1, <3>1, <3>2, <3>3
  <2> QED
    BY <1>15, <2>2, <2>3, <2>4
<1>24. \A r \in Sessions : \A p \in DOMAIN buf'[r] : p[1] < l.nextTable
  BY <1>2, <1>15, <1>21
<1>25. l.nextTable >= led.nextTable /\ NoJob \in Job /\ JobHas(NoJob, mem)
  BY <1>8, <1>15 DEF Job, JobHas
<1> HIDE DEF sc, se
<1> QED
  BY <1>1, <1>2, <1>14, <1>15, <1>16, <1>17, <1>18, <1>19, <1>21, <1>22, <1>23, <1>24, <1>25,
     CommitKeeps

\* SetAutoIncrementValue: the rows that the new counter is not past join the
\* lowered ones.
LEMMA SetAutoKeeps ==
    ASSUME TablesInv, NEW i \in Ids, NEW v \in SetValues, SetAutoIncrementValue(i, v)
    PROVE  TablesInv'
<1> DEFINE l == [led EXCEPT !.auto[i] = v]
           m == [mem EXCEPT !.next[i] = v]
           there == led.rows \cup UNION {DOMAIN buf[s] : s \in Sessions}
           back == {p \in there : p[1] = i /\ p[2] >= v}
<1>1. /\ phase = "up" /\ half = << >> /\ job = NoJob /\ mem.name[i] # NoName
      /\ Commit(l, scan, sec, m, NoJob) /\ buf' = buf
      /\ mem' = mem /\ job' = job /\ given' = given
      /\ lowered' = lowered \cup back /\ skipped' = skipped /\ late' = late
  BY DEF SetAutoIncrementValue, Free, Handles, stmts
<1>2. /\ led \in Ledger /\ mem \in Memory /\ LedgerSound(led) /\ CopyOf(mem, led, late)
      /\ scan \in SUBSET (Ids \X Keys) /\ sec \in SUBSET ((1 .. MaxIndex) \X Keys)
      /\ FreshIn(led, scan, sec) /\ buf \in [Sessions -> Buffer]
      /\ lowered \in SUBSET (Ids \X Keys) /\ skipped \in SUBSET (Ids \X Keys)
      /\ late \in SUBSET Ids
      /\ \A r \in Sessions : \A p \in DOMAIN buf[r] : p[1] < led.nextTable
      /\ CountersOf(mem, led, buf, Exempt) /\ HandlesInStep(mem, led, scan, sec)
      /\ \A p \in led.rows : p \notin Exempt =>
           p[2] < Loaded(led.auto[p[1]]) /\ p[2] < mem.next[p[1]]
  BY <1>1, FreeHas
<1>3. i < led.nextTable
  BY <1>1, <1>2 DEF CopyOf, NamesOf
<1>4. v \in Nat \ {0}
  BY TablesBoundsAssumption
<1>5. led.auto \in [Ids -> Nat] /\ mem.next \in [Ids -> Nat \ {0}] /\ led.nextTable \in Nat
      /\ led.rows \subseteq Ids \X Keys
  BY <1>2, LedgerFields, MemoryFields
<1>6. \A r \in Sessions : DOMAIN buf[r] \subseteq there
  OBVIOUS
<1>7. there \in SUBSET (Ids \X Keys)
  <2>1. \A r \in Sessions : DOMAIN buf[r] \subseteq Ids \X Keys
    BY <1>2, BufferIs
  <2> QED
    BY <1>5, <2>1
<1> HIDE DEF there
<1>8. /\ \A k \in Keys : <<i, k>> \in there /\ <<i, k>> \notin back => k < v
      /\ back \in SUBSET (Ids \X Keys)
  BY <1>4, <1>7 DEF Keys
<1> HIDE DEF back
<1>9. /\ l \in Ledger
      /\ l.nextTable = led.nextTable /\ l.nextIndex = led.nextIndex /\ l.names = led.names
      /\ l.defs = led.defs /\ l.rows = led.rows /\ l.auto = [led.auto EXCEPT ![i] = v]
  <2>1. [led.auto EXCEPT ![i] = v] \in [Ids -> Nat]
    BY <1>4, <1>5
  <2> QED
    BY <1>2, <2>1 DEF Ledger
<1>10. /\ m \in Memory
       /\ m.nextTable = mem.nextTable /\ m.nextIndex = mem.nextIndex
       /\ m.tables = mem.tables /\ m.name = mem.name /\ m.idx = mem.idx
       /\ m.next = [mem.next EXCEPT ![i] = v]
  BY <1>2, <1>4, CounterSet
<1> HIDE DEF l, m
<1>11. FreshIn(l, scan, sec)
  BY <1>2, <1>3, <1>5, <1>9 DEF FreshIn, Ids
<1>12. LedgerSound(l) /\ CopyOf(m, l, late) /\ HandlesInStep(m, l, scan, sec)
  BY <1>2, <1>9, <1>10 DEF LedgerSound, Defined, CopyOf, NamesOf, IndexesOf, HandlesInStep
<1>13. /\ lowered' \in SUBSET (Ids \X Keys)
       /\ \A p : p \notin Exempt' => p \notin Exempt /\ p \notin back
  BY <1>1, <1>2, <1>8 DEF Exempt
<1>14. \A j \in Ids : /\ Loaded(l.auto[j]) =< m.next[j]
                      /\ j = i => Loaded(l.auto[j]) = v /\ m.next[j] = v
                      /\ j # i => l.auto[j] = led.auto[j] /\ m.next[j] = mem.next[j]
  BY <1>2, <1>4, <1>5, <1>9, <1>10 DEF CountersOf, Loaded, None
<1>15. CountersOf(m, l, buf, Exempt')
  <2> SUFFICES ASSUME NEW j \in Ids, NEW r \in Sessions, NEW k \in Keys,
                      <<j, k>> \in DOMAIN buf[r], buf[r][<<j, k>>] # "delete",
                      <<j, k>> \notin Exempt'
               PROVE  k < m.next[j]
    BY <1>14 DEF CountersOf
  <2>1. CASE j = i
    BY <1>6, <1>8, <1>13, <1>14, <2>1
  <2>2. CASE j # i
    BY <1>2, <1>13, <1>14, <2>2 DEF CountersOf
  <2> QED
    BY <2>1, <2>2
<1>16. \A p \in l.rows : p \notin Exempt' =>
           p[2] < Loaded(l.auto[p[1]]) /\ p[2] < mem.next[p[1]]
  <2> SUFFICES ASSUME NEW p \in led.rows, p \notin Exempt'
               PROVE  p[2] < Loaded(l.auto[p[1]]) /\ p[2] < mem.next[p[1]]
    BY <1>9
  <2>1. p = <<p[1], p[2]>> /\ p[1] \in Ids /\ p[2] \in Keys
    BY <1>5
  <2>2. p[2] < Loaded(led.auto[p[1]]) /\ p[2] < mem.next[p[1]]
    BY <1>2, <1>13
  <2>3. CASE p[1] = i
    <3>1. <<i, p[2]>> \in there /\ <<i, p[2]>> \notin back
      BY <1>13, <2>1, <2>3 DEF there
    <3> QED
      BY <1>8, <1>14, <2>1, <2>2, <2>3, <3>1
  <2>4. CASE p[1] # i
    BY <1>14, <2>1, <2>2, <2>4
  <2> QED
    BY <2>3, <2>4
<1>17. \A r \in Sessions : \A p \in DOMAIN buf'[r] : p[1] < l.nextTable
  BY <1>1, <1>2, <1>9
<1>18. l.nextTable >= led.nextTable /\ NoJob \in Job /\ JobHas(NoJob, m)
  BY <1>5, <1>9 DEF Job, JobHas
<1> QED
  BY <1>1, <1>2, <1>9, <1>10, <1>11, <1>12, <1>13, <1>15, <1>16, <1>17, <1>18, CommitKeeps

-----------------------------------------------------------------------------
(* The second write of a commit, crashes and the way back.                  *)

\* The tables that the ledger names are among those that a statement can have.
LEMMA NamedInStep ==
    ASSUME NEW l, NEW m, NEW lt, NEW sc, NEW se,
           LedgerSound(l), CopyOf(m, l, lt), HandlesInStep(m, l, sc, se)
    PROVE  InStepBut(l, sc, se, {})
<1> SUFFICES ASSUME NEW n \in l.names, NEW k \in Keys
             PROVE  LET p == <<l.defs[n].id, k>>
                    IN  /\ p \in sc <=> p \in l.rows
                        /\ p \in l.rows => \A x \in l.defs[n].idx : <<x[2], k>> \in se
  BY DEF InStepBut
<1>1. l.defs[n].id \in Ids /\ m.name[l.defs[n].id] # NoName
      /\ m.idx[l.defs[n].id] = l.defs[n].idx
  BY DEF LedgerSound, CopyOf, NamesOf, IndexesOf
<1> QED
  BY <1>1 DEF HandlesInStep

\* The second write of a commit leaves the store as it settles.
LEMMA CommitDerivedKeeps ==
    ASSUME TablesInv, CommitDerived
    PROVE  TablesInv'
<1> DEFINE h == half[1]
<1>1. /\ half # << >> /\ scan' = h.scan /\ sec' = h.sec /\ synced' = TRUE
      /\ mem' = h.mem /\ job' = h.job /\ half' = << >>
      /\ led' = led /\ phase' = phase /\ todo' = todo /\ buf' = buf /\ given' = given
      /\ crashes' = crashes /\ lowered' = lowered /\ skipped' = skipped /\ late' = late
  BY DEF CommitDerived, stmts, record
<1>2. Settled = h /\ h \in Half
  BY <1>1, SettledIs DEF TablesInv, TypeOK
<1> HIDE DEF h
<1>3. /\ h.scan \in SUBSET (Ids \X Keys) /\ h.sec \in SUBSET ((1 .. MaxIndex) \X Keys)
      /\ h.mem \in Memory /\ h.job \in Job
  BY <1>2 DEF Half
<1>4. /\ Settled'.scan = h.scan /\ Settled'.sec = h.sec /\ Settled'.mem = h.mem
      /\ Settled'.job = h.job
  BY <1>1 DEF Settled
<1>5. /\ phase = "up" /\ LedgerSound(led) /\ CopyOf(h.mem, led, late)
      /\ FreshIn(led, h.scan, h.sec) /\ HandlesInStep(h.mem, led, h.scan, h.sec)
      /\ JobHas(h.job, h.mem) /\ CountersOf(h.mem, led, buf, Exempt)
      /\ \A p \in led.rows : p \notin Exempt => p[2] < Loaded(led.auto[p[1]])
  BY <1>1, <1>2 DEF TablesInv, KeyspacesInv, JobInv, CountersInv
<1>6. InStepBut(led, h.scan, h.sec, {})
  BY <1>5, NamedInStep
<1>7. TypeOK'
  BY <1>1, <1>3 DEF TablesInv, TypeOK
<1>8. LedgerSound(led)' /\ CopyOf(Settled.mem, led, late)'
  BY <1>1, <1>4, <1>5 DEF LedgerSound, Defined, CopyOf, NamesOf, IndexesOf
<1>9. KeyspacesInv'
  BY <1>1, <1>4, <1>5, <1>6 DEF KeyspacesInv, FreshIn, InStepBut, HandlesInStep
<1>10. JobInv'
  BY <1>1, <1>4, <1>5 DEF JobInv, JobHas
<1>11. StatementsInv'
  BY <1>1 DEF TablesInv, StatementsInv
<1>12. CountersInv'
  <2>1. \A p \in led.rows : p \notin Exempt => p[2] < h.mem.next[p[1]]
    <3> SUFFICES ASSUME NEW p \in led.rows, p \notin Exempt
                 PROVE  p[2] < h.mem.next[p[1]]
      OBVIOUS
    <3>1. p[1] \in Ids /\ p[2] \in Nat /\ led \in Ledger
      BY LedgerFields DEF TablesInv, TypeOK, Keys
    <3>2. Loaded(led.auto[p[1]]) \in Nat /\ h.mem.next[p[1]] \in Nat
      BY <1>3, <3>1, LedgerFields, MemoryFields DEF Loaded
    <3>3. Loaded(led.auto[p[1]]) =< h.mem.next[p[1]]
      BY <1>5, <3>1 DEF CountersOf
    <3> QED
      BY <1>5, <3>1, <3>2, <3>3
  <2>2. Exempt' = Exempt
    BY <1>1 DEF Exempt
  <2> QED
    BY <1>1, <1>4, <1>5, <2>1, <2>2 DEF CountersInv, CountersOf
<1> QED
  BY <1>1, <1>7, <1>8, <1>9, <1>10, <1>11, <1>12 DEF TablesInv

\* A crash, wherever it falls, leaves the ledger and the keyspaces.
LEMMA CrashKeeps ==
    ASSUME TablesInv, Crash
    PROVE  TablesInv'
<1>1. /\ phase' = "down" /\ todo' = {} /\ half' = << >> /\ job' = NoJob
      /\ crashes' = crashes + 1
      /\ buf' = [s \in Sessions |-> Empty] /\ given' = [s \in Sessions |-> NoGiven]
      /\ led' = led /\ scan' = scan /\ sec' = sec /\ synced' = synced /\ mem' = mem
      /\ lowered' = lowered /\ skipped' = skipped /\ late' = {}
  BY DEF Crash, derived
<1>2. /\ Settled'.scan = scan /\ Settled'.sec = sec /\ Settled'.job = NoJob
  BY <1>1 DEF Settled
<1>3. TypeOK'
  <2>1. NoJob \in Job /\ crashes' \in Nat /\ buf' \in [Sessions -> Buffer]
        /\ given' \in [Sessions -> {NoGiven} \cup [id : Ids, key : Keys]]
    BY <1>1, EmptyIs DEF TablesInv, TypeOK, Job
  <2> QED
    BY <1>1, <2>1 DEF TablesInv, TypeOK
<1>4. LedgerSound(led)'
  BY <1>1 DEF TablesInv, LedgerSound, Defined
<1>5. KeyspacesInv'
  BY <1>1, <1>2 DEF TablesInv, KeyspacesInv, FreshIn, InStepBut
<1>6. JobInv'
  BY <1>1, <1>2 DEF JobInv, JobHas
<1>7. StatementsInv'
  <2>1. led.nextTable \in Nat \ {0}
    BY LedgerFields DEF TablesInv, TypeOK
  <2> QED
    BY <1>1, <2>1, EmptyIs DEF StatementsInv, NoGiven, None
<1>8. CountersInv'
  BY <1>1 DEF TablesInv, CountersInv, Exempt
<1> QED
  BY <1>1, <1>3, <1>4, <1>5, <1>6, <1>7, <1>8 DEF TablesInv

\* What a store that opens reads from the ledger is a copy of its catalog.
LEMMA LoadIsCopy ==
    ASSUME NEW l \in Ledger, LedgerSound(l), NEW lt
    PROVE  /\ LoadCatalog(l) \in Memory
           /\ CopyOf(LoadCatalog(l), l, lt)
           /\ \A n \in l.names : LoadCatalog(l).tables[n] = l.defs[n].id
           /\ \A i \in Ids : LoadCatalog(l).name[i] # NoName =>
                \E n \in l.names : l.defs[n].id = i
           /\ \A i \in Ids : LoadCatalog(l).next[i] = Loaded(l.auto[i])
<1> DEFINE m == LoadCatalog(l)
           Of(i) == {n \in l.names : l.defs[n].id = i}
           NameOf(i) == IF \E n \in l.names : l.defs[n].id = i
                        THEN CHOOSE n \in l.names : l.defs[n].id = i
                        ELSE NoName
<1>1. /\ l.nextTable \in 1 .. MaxTable + 1 /\ l.nextIndex \in 1 .. MaxIndex + 1
      /\ l.names \subseteq Tables
      /\ l.defs \in [Tables -> [id : 0 .. MaxTable, idx : SUBSET Index]]
      /\ l.rows \subseteq Ids \X Keys /\ l.auto \in [Ids -> Nat]
  BY LedgerFields
<1>2. /\ m.nextTable = l.nextTable /\ m.nextIndex = l.nextIndex
      /\ m.tables = [n \in Tables |-> IF n \in l.names THEN l.defs[n].id ELSE None]
      /\ m.name = [i \in Ids |-> NameOf(i)]
      /\ m.idx = [i \in Ids |-> UNION {l.defs[n].idx : n \in Of(i)}]
      /\ m.next = [i \in Ids |-> Loaded(l.auto[i])]
      /\ m = [nextTable |-> m.nextTable, nextIndex |-> m.nextIndex, tables |-> m.tables,
              name |-> m.name, idx |-> m.idx, next |-> m.next]
  BY DEF LoadCatalog, Loaded
<1> HIDE DEF m
<1>3. m.tables \in [Tables -> 0 .. MaxTable]
  BY <1>1, <1>2, TablesBoundsAssumption DEF None
<1>4. ASSUME NEW i \in Ids
      PROVE  /\ m.idx[i] \in SUBSET Index
             /\ \A x \in m.idx[i] : \E n \in l.names : l.defs[n].id = i /\ x \in l.defs[n].idx
  <2>1. m.idx[i] = UNION {l.defs[n].idx : n \in Of(i)}
    BY <1>2
  <2>2. \A x \in m.idx[i] : \E n \in l.names : l.defs[n].id = i /\ x \in l.defs[n].idx
    BY <2>1
  <2> QED
    BY <1>1, <2>2
<1>5. m.idx \in [Ids -> SUBSET Index]
  BY <1>2, <1>4
<1>6. m.next \in [Ids -> Nat \ {0}]
  BY <1>1, <1>2 DEF Loaded, None
<1>7. ASSUME NEW i \in Ids
      PROVE  \/ m.name[i] = NoName /\ ~ \E n \in l.names : l.defs[n].id = i
             \/ m.name[i] \in l.names /\ l.defs[m.name[i]].id = i /\ m.name[i] # NoName
  <2>1. m.name[i] = NameOf(i)
    BY <1>2
  <2>2. CASE \E n \in l.names : l.defs[n].id = i
    <3>1. NameOf(i) \in l.names /\ l.defs[NameOf(i)].id = i
      BY <2>2
    <3> QED
      BY <1>1, <2>1, <3>1, NamesAssumption
  <2>3. CASE ~ \E n \in l.names : l.defs[n].id = i
    BY <2>1, <2>3
  <2> QED
    BY <2>2, <2>3
<1>8. m.name \in [Ids -> Tables \cup {NoName}]
  BY <1>1, <1>2, <1>7
<1>9. m \in Memory
  BY <1>1, <1>2, <1>3, <1>5, <1>6, <1>8 DEF Memory
<1>10. ASSUME NEW n \in Defined(l), m.name[l.defs[n].id] # NoName
       PROVE  n \in l.names /\ m.name[l.defs[n].id] = n
  <2>1. l.defs[n].id \in Ids
    BY DEF LedgerSound
  <2>2. /\ m.name[l.defs[n].id] \in l.names
        /\ l.defs[m.name[l.defs[n].id]].id = l.defs[n].id
    BY <1>7, <1>10, <2>1
  <2> QED
    BY <2>2 DEF LedgerSound
<1>11. ASSUME NEW n \in l.names
       PROVE  /\ l.defs[n].id \in Ids /\ m.tables[n] = l.defs[n].id
              /\ m.name[l.defs[n].id] = n /\ n # NoName
              /\ m.idx[l.defs[n].id] = l.defs[n].idx
  <2> DEFINE i == l.defs[n].id
  <2>1. i \in Ids /\ n \in Defined(l)
    BY DEF LedgerSound
  <2>2. Of(i) = {n}
    BY DEF LedgerSound
  <2>3. m.idx[i] = UNION {l.defs[k].idx : k \in Of(i)}
    BY <1>2, <2>1
  <2>4. m.name[i] # NoName
    BY <1>7, <2>1
  <2>5. m.idx[i] = l.defs[n].idx
    BY <2>2, <2>3
  <2>6. m.name[i] = n
    BY <1>10, <2>1, <2>4
  <2>7. m.tables[n] = i
    BY <1>1, <1>2
  <2> QED
    BY <2>1, <2>4, <2>5, <2>6, <2>7
<1>12. NamesOf(m, l, lt)
  <2>1. \A i \in Ids : m.name[i] # NoName => i < m.nextTable
    <3> SUFFICES ASSUME NEW i \in Ids, m.name[i] # NoName PROVE i < m.nextTable
      OBVIOUS
    <3>1. m.name[i] \in l.names /\ l.defs[m.name[i]].id = i
      BY <1>7
    <3> QED
      BY <1>2, <3>1 DEF LedgerSound
  <2>2. \A n \in Tables : IF n \in l.names THEN m.tables[n] \in Ids /\ m.name[m.tables[n]] = n
                                          ELSE m.tables[n] = None
    BY <1>2, <1>11
  <2> QED
    BY <1>2, <1>11, <2>1, <2>2 DEF NamesOf
<1>13. IndexesOf(m, l)
  <2>1. ASSUME NEW i \in Ids, NEW j \in Ids, NEW x \in m.idx[i], NEW y \in m.idx[j],
               x[2] = y[2]
        PROVE  i = j /\ x = y
    <3>1. PICK a \in l.names : l.defs[a].id = i /\ x \in l.defs[a].idx
      BY <1>4
    <3>2. PICK b \in l.names : l.defs[b].id = j /\ y \in l.defs[b].idx
      BY <1>4
    <3>3. a = b /\ x = y
      BY <2>1, <3>1, <3>2 DEF LedgerSound
    <3> QED
      BY <3>1, <3>2, <3>3
  <2>2. ASSUME NEW i \in Ids, NEW x \in m.idx[i] PROVE x[2] < m.nextIndex
    <3>1. PICK a \in l.names : l.defs[a].id = i /\ x \in l.defs[a].idx
      BY <1>4
    <3> QED
      BY <1>2, <3>1 DEF LedgerSound
  <2>3. ASSUME NEW n \in Defined(l), NEW j \in Ids, NEW x \in l.defs[n].idx, NEW y \in m.idx[j],
               x[2] = y[2]
        PROVE  l.defs[n].id = j /\ x = y
    <3>1. PICK a \in l.names : l.defs[a].id = j /\ y \in l.defs[a].idx
      BY <1>4
    <3>2. n = a /\ x = y
      BY <2>3, <3>1 DEF LedgerSound
    <3> QED
      BY <3>1, <3>2
  <2>4. \A n \in Defined(l) : m.name[l.defs[n].id] # NoName =>
            m.name[l.defs[n].id] = n /\ m.idx[l.defs[n].id] = l.defs[n].idx
    BY <1>10, <1>11
  <2> QED
    BY <2>1, <2>2, <2>3, <2>4 DEF IndexesOf
<1>14. CopyOf(m, l, lt)
  BY <1>12, <1>13 DEF CopyOf
<1>15. /\ \A n \in l.names : m.tables[n] = l.defs[n].id
       /\ \A i \in Ids : m.name[i] # NoName => \E n \in l.names : l.defs[n].id = i
       /\ \A i \in Ids : m.next[i] = Loaded(l.auto[i])
  <2> HIDE DEF Of, NameOf
  <2>1. \A n \in l.names : m.tables[n] = l.defs[n].id
    BY <1>11
  <2>2. \A i \in Ids : m.name[i] # NoName => \E n \in l.names : l.defs[n].id = i
    BY <1>7
  <2>3. \A i \in Ids : m.next[i] = Loaded(l.auto[i])
    BY <1>2
  <2> QED
    BY <2>1, <2>2, <2>3
<1> QED
  BY <1>9, <1>14, <1>15 DEF m

\* What is in step for the tables that the ledger names is in step for those that
\* a statement of a store just opened can have.
LEMMA LoadInStep ==
    ASSUME NEW l \in Ledger, LedgerSound(l), NEW sc, NEW se, InStepBut(l, sc, se, {})
    PROVE  HandlesInStep(LoadCatalog(l), l, sc, se)
<1> DEFINE m == LoadCatalog(l)
<1>1. /\ CopyOf(m, l, {})
      /\ \A i \in Ids : m.name[i] # NoName => \E n \in l.names : l.defs[n].id = i
  BY LoadIsCopy
<1> HIDE DEF m
<1> SUFFICES ASSUME NEW i \in Ids, NEW k \in Keys, m.name[i] # NoName
             PROVE  /\ <<i, k>> \in sc <=> <<i, k>> \in l.rows
                    /\ <<i, k>> \in l.rows => \A x \in m.idx[i] : <<x[2], k>> \in se
  BY DEF HandlesInStep, m
<1>2. PICK n \in l.names : l.defs[n].id = i
  BY <1>1
<1>3. m.idx[i] = l.defs[n].idx
  BY <1>1, <1>2 DEF LedgerSound, CopyOf, IndexesOf
<1> QED
  BY <1>2, <1>3 DEF InStepBut

\* Open after a crash.
LEMMA OpenKeeps ==
    ASSUME TablesInv, Open
    PROVE  TablesInv'
<1>1. /\ phase = "down" /\ mem' = LoadCatalog(led)
      /\ phase' = IF synced THEN "up" ELSE "drop"
      /\ led' = led /\ scan' = scan /\ sec' = sec /\ synced' = synced /\ todo' = todo
      /\ half' = half /\ job' = job /\ buf' = buf /\ given' = given
      /\ crashes' = crashes /\ lowered' = lowered /\ skipped' = skipped /\ late' = late
  BY DEF Open, derived, stmts, record
<1>2. half = << >> /\ job = NoJob
  BY <1>1 DEF TablesInv, JobInv
<1>3. led \in Ledger /\ LedgerSound(led) /\ FreshIn(led, scan, sec) /\ synced \in BOOLEAN
      /\ (synced => InStepBut(led, scan, sec, {}))
  BY DEF TablesInv, TypeOK, KeyspacesInv
<1>4. /\ mem' \in Memory /\ CopyOf(mem', led, late)
      /\ \A i \in Ids : mem'.next[i] = Loaded(led.auto[i])
  BY <1>1, <1>3, LoadIsCopy
<1>5. /\ Settled'.scan = scan /\ Settled'.sec = sec /\ Settled'.mem = mem'
      /\ Settled'.job = NoJob
  BY <1>1, <1>2 DEF Settled
<1>6. TypeOK'
  BY <1>1, <1>2, <1>4 DEF TablesInv, TypeOK
<1>7. LedgerSound(led)' /\ CopyOf(Settled.mem, led, late)'
  BY <1>1, <1>3, <1>4, <1>5 DEF LedgerSound, Defined, CopyOf, NamesOf, IndexesOf
<1>8. KeyspacesInv'
  <2>1. synced => HandlesInStep(mem', led, scan, sec)
    BY <1>1, <1>3, LoadInStep
  <2>2. mem' = LoadCatalog(led')
    BY <1>1
  <2>3. FreshIn(led, scan, sec)' /\ FreshIn(led, Settled.scan, Settled.sec)'
    BY <1>1, <1>3, <1>5 DEF FreshIn
  <2>4. synced' => InStepBut(led, scan, sec, {})'
    BY <1>1, <1>3 DEF InStepBut
  <2>5. phase' = "up" => HandlesInStep(Settled.mem, led, Settled.scan, Settled.sec)'
    BY <1>1, <1>5, <2>1 DEF HandlesInStep
  <2> QED
    BY <1>1, <1>2, <1>3, <2>2, <2>3, <2>4, <2>5 DEF KeyspacesInv
<1>9. JobInv'
  BY <1>1, <1>2, <1>5 DEF JobInv, JobHas
<1>10. StatementsInv'
  BY <1>1 DEF TablesInv, StatementsInv
<1>11. CountersInv'
  <2>1. \A i \in Ids : Loaded(led.auto[i]) \in Nat
    BY <1>3, LedgerFields DEF Loaded
  <2>2. CountersOf(mem', led, buf, Exempt)
    BY <1>1, <1>4, <2>1 DEF CountersOf, TablesInv, StatementsInv
  <2>3. \A p \in led.rows : p[1] \in Ids
    BY <1>3, LedgerFields
  <2>4. \A p \in led.rows : p \notin Exempt =>
            p[2] < Loaded(led.auto[p[1]]) /\ p[2] < mem'.next[p[1]]
    BY <1>4, <2>3 DEF TablesInv, CountersInv
  <2>5. Exempt' = Exempt
    BY <1>1 DEF Exempt
  <2> QED
    BY <1>1, <1>5, <2>2, <2>4, <2>5 DEF CountersInv, CountersOf
<1> QED
  BY <1>1, <1>6, <1>7, <1>8, <1>9, <1>10, <1>11 DEF TablesInv

\* A step of the rebuild, which the marker does not vouch for until its end.
LEMMA RebuildKeeps ==
    ASSUME TablesInv, phase \in {"drop", "build"},
           led' = led, mem' = mem, half' = half, job' = job, buf' = buf, given' = given,
           crashes' = crashes, lowered' = lowered, skipped' = skipped, late' = late,
           phase' \in {"drop", "build", "up"}, synced' = (phase' = "up"),
           scan' \in SUBSET (Ids \X Keys), sec' \in SUBSET ((1 .. MaxIndex) \X Keys),
           todo' \in SUBSET (Ids \X Keys), FreshIn(led, scan', sec'),
           phase' = "up" => InStepBut(led, scan', sec', {}),
           phase' = "build" => /\ InStepBut(led, scan', sec', todo')
                               /\ scan' \cup todo' \subseteq led.rows
                               /\ scan' \cap todo' = {}
    PROVE  TablesInv'
<1>1. half = << >> /\ job = NoJob
  BY DEF TablesInv, JobInv
<1>2. /\ Settled.mem = mem /\ Settled.job = NoJob
      /\ Settled'.scan = scan' /\ Settled'.sec = sec' /\ Settled'.mem = mem
      /\ Settled'.job = NoJob
  BY <1>1 DEF Settled
<1>3. TypeOK'
  <2>1. synced' \in BOOLEAN
    OBVIOUS
  <2> QED
    BY <1>1, <2>1 DEF TablesInv, TypeOK
<1>4. LedgerSound(led)' /\ CopyOf(Settled.mem, led, late)'
  BY <1>2 DEF TablesInv, LedgerSound, Defined, CopyOf, NamesOf, IndexesOf
<1>5. KeyspacesInv'
  <2>1. mem = LoadCatalog(led) /\ led \in Ledger /\ LedgerSound(led)
    BY DEF TablesInv, TypeOK, KeyspacesInv
  <2>2. phase' = "up" => HandlesInStep(mem, led, scan', sec')
    BY <2>1, LoadInStep
  <2>3. mem' = LoadCatalog(led')
    BY <2>1
  <2>4. FreshIn(led, scan, sec)' /\ FreshIn(led, Settled.scan, Settled.sec)'
    BY <1>2 DEF FreshIn
  <2>5. synced' => InStepBut(led, scan, sec, {})'
    BY DEF InStepBut
  <2>6. phase' = "up" => HandlesInStep(Settled.mem, led, Settled.scan, Settled.sec)'
    BY <1>2, <2>2 DEF HandlesInStep
  <2>7. phase' = "build" => InStepBut(led, scan, sec, todo)'
    BY DEF InStepBut
  <2> QED
    BY <2>3, <2>4, <2>5, <2>6, <2>7 DEF KeyspacesInv
<1>6. JobInv'
  BY <1>1, <1>2 DEF JobInv, JobHas
<1>7. StatementsInv'
  BY DEF TablesInv, StatementsInv
<1>8. CountersInv'
  <2>1. led \in Ledger /\ mem \in Memory /\ CountersOf(mem, led, buf, Exempt)
    BY <1>2 DEF TablesInv, TypeOK, CountersInv
  <2>2. \A p \in led.rows : p \notin Exempt =>
            p[2] < Loaded(led.auto[p[1]]) /\ p[2] < mem.next[p[1]]
    <3> SUFFICES ASSUME NEW p \in led.rows, p \notin Exempt
                 PROVE  p[2] < Loaded(led.auto[p[1]]) /\ p[2] < mem.next[p[1]]
      OBVIOUS
    <3>1. p[1] \in Ids /\ p[2] \in Nat
      BY <2>1, LedgerFields DEF Keys
    <3>2. Loaded(led.auto[p[1]]) \in Nat /\ mem.next[p[1]] \in Nat
      BY <2>1, <3>1, LedgerFields, MemoryFields DEF Loaded
    <3>3. Loaded(led.auto[p[1]]) =< mem.next[p[1]]
      BY <2>1, <3>1 DEF CountersOf
    <3>4. p[2] < Loaded(led.auto[p[1]])
      BY DEF TablesInv, CountersInv
    <3> QED
      BY <3>1, <3>2, <3>3, <3>4
  <2>3. Exempt' = Exempt
    BY DEF Exempt
  <2> QED
    BY <1>2, <2>1, <2>2, <2>3 DEF CountersInv, CountersOf
<1> QED
  BY <1>3, <1>4, <1>5, <1>6, <1>7, <1>8 DEF TablesInv

\* The scan space goes, and what is left to enter is every row.
LEMMA ReconcileDropKeeps ==
    ASSUME TablesInv, ReconcileDrop
    PROVE  TablesInv'
<1>1. /\ phase = "drop" /\ led' = led /\ mem' = mem /\ half' = half /\ job' = job
      /\ buf' = buf /\ given' = given /\ crashes' = crashes /\ lowered' = lowered
      /\ skipped' = skipped /\ late' = late /\ sec' = sec /\ synced' = synced
  BY DEF ReconcileDrop, stmts, record
<1>2. /\ led \in Ledger /\ scan \in SUBSET (Ids \X Keys) /\ todo \in SUBSET (Ids \X Keys)
      /\ sec \in SUBSET ((1 .. MaxIndex) \X Keys) /\ synced = FALSE
      /\ FreshIn(led, scan, sec)
  BY <1>1 DEF TablesInv, TypeOK, KeyspacesInv
<1>3. led.rows \in SUBSET (Ids \X Keys)
  BY <1>2, LedgerFields
<1>4. CASE scan = {}
  <2>1. phase' = "build" /\ todo' = led.rows /\ scan' = {}
    BY <1>4 DEF ReconcileDrop
  <2>2. InStepBut(led, scan', sec', todo')
    BY <2>1 DEF InStepBut
  <2>3. FreshIn(led, scan', sec')
    BY <1>1, <1>2, <1>4, <2>1
  <2> QED
    BY <1>1, <1>2, <1>3, <2>1, <2>2, <2>3, RebuildKeeps
<1>5. CASE scan # {}
  <2>1. phase' = "drop" /\ todo' = todo /\ scan' \subseteq scan
    BY <1>1, <1>5 DEF ReconcileDrop
  <2>2. FreshIn(led, scan', sec')
    BY <1>1, <1>2, <2>1 DEF FreshIn
  <2>3. scan' \in SUBSET (Ids \X Keys)
    BY <1>2, <2>1
  <2> QED
    BY <1>1, <1>2, <2>1, <2>2, <2>3, RebuildKeeps
<1> QED
  BY <1>4, <1>5

\* A row is entered again with the entries of its indexes; at the end the
\* marker is written.
LEMMA ReconcileBuildKeeps ==
    ASSUME TablesInv, ReconcileBuild
    PROVE  TablesInv'
<1>1. /\ phase = "build" /\ led' = led /\ mem' = mem /\ half' = half /\ job' = job
      /\ buf' = buf /\ given' = given /\ crashes' = crashes /\ lowered' = lowered
      /\ skipped' = skipped /\ late' = late
  BY DEF ReconcileBuild, stmts, record
<1>2. /\ led \in Ledger /\ scan \in SUBSET (Ids \X Keys) /\ todo \in SUBSET (Ids \X Keys)
      /\ sec \in SUBSET ((1 .. MaxIndex) \X Keys) /\ synced = FALSE /\ mem \in Memory
      /\ FreshIn(led, scan, sec) /\ InStepBut(led, scan, sec, todo)
      /\ scan \cup todo \subseteq led.rows /\ scan \cap todo = {}
  BY <1>1 DEF TablesInv, TypeOK, KeyspacesInv
<1>3. /\ LedgerSound(led) /\ CopyOf(mem, led, late)
      /\ \A n \in led.names : mem.tables[n] = led.defs[n].id
                             /\ mem.idx[led.defs[n].id] = led.defs[n].idx
  <2>1. LedgerSound(led) /\ mem = LoadCatalog(led)
    BY <1>1 DEF TablesInv, KeyspacesInv
  <2>2. CopyOf(mem, led, late) /\ \A n \in led.names : mem.tables[n] = led.defs[n].id
    BY <1>2, <2>1, LoadIsCopy
  <2>3. \A n \in led.names : mem.idx[led.defs[n].id] = led.defs[n].idx
    BY <2>1, <2>2 DEF LedgerSound, CopyOf, NamesOf, IndexesOf
  <2> QED
    BY <2>1, <2>2, <2>3
<1>4. CASE todo = {}
  <2>1. phase' = "up" /\ synced' = TRUE /\ scan' = scan /\ sec' = sec /\ todo' = todo
    BY <1>4 DEF ReconcileBuild
  <2>2. FreshIn(led, scan', sec') /\ InStepBut(led, scan', sec', {})
    BY <1>2, <1>4, <2>1
  <2> QED
    BY <1>1, <1>2, <2>1, <2>2, RebuildKeeps
<1>5. CASE todo # {}
  <2>1. PICK p \in todo :
          /\ todo' = todo \ {p} /\ phase' = phase /\ synced' = synced
          /\ IF p[1] \in Live
             THEN scan' = scan \cup {p} /\ sec' = sec \cup IndexEntries(p[1], {p[2]})
             ELSE scan' = scan /\ sec' = sec
    BY <1>5 DEF ReconcileBuild
  <2>2. p = <<p[1], p[2]>> /\ p[1] \in Ids /\ p[2] \in Keys /\ p \in led.rows
    BY <1>2
  <2>3. ASSUME NEW e \in IndexEntries(p[1], {p[2]})
        PROVE  e \in (1 .. MaxIndex) \X Keys /\ e[1] < led.nextIndex
    <3>1. PICK y \in mem.idx[p[1]] : e = <<y[2], p[2]>>
      BY DEF IndexEntries
    <3>2. y \in Index
      BY <1>2, <2>2, MemoryFields
    <3>3. y[2] \in 1 .. MaxIndex /\ y[2] < led.nextIndex
      BY <1>3, <2>2, <3>2 DEF Index, CopyOf, NamesOf, IndexesOf
    <3> QED
      BY <2>2, <3>1, <3>3
  <2>4. /\ scan' \in SUBSET (Ids \X Keys) /\ sec' \in SUBSET ((1 .. MaxIndex) \X Keys)
        /\ todo' \in SUBSET (Ids \X Keys) /\ sec \subseteq sec'
        /\ scan \subseteq scan' /\ scan' \subseteq scan \cup {p}
    BY <1>2, <2>1, <2>3
  <2>5. FreshIn(led, scan', sec')
    <3>1. \A e \in sec' : e[1] < led.nextIndex
      BY <1>2, <2>1, <2>3 DEF FreshIn
    <3>2. \A q \in led.rows \cup scan' : q[1] < led.nextTable
      BY <1>2, <2>2, <2>4 DEF FreshIn
    <3> QED
      BY <1>2, <3>1, <3>2 DEF FreshIn
  <2>6. InStepBut(led, scan', sec', todo')
    <3> SUFFICES ASSUME NEW n \in led.names, NEW k \in Keys,
                        <<led.defs[n].id, k>> \notin todo'
                 PROVE  /\ <<led.defs[n].id, k>> \in scan' <=> <<led.defs[n].id, k>> \in led.rows
                        /\ <<led.defs[n].id, k>> \in led.rows =>
                             \A x \in led.defs[n].idx : <<x[2], k>> \in sec'
      BY DEF InStepBut
    <3> DEFINE q == <<led.defs[n].id, k>>
    <3>1. CASE q # p
      <4>1. q \notin todo /\ (q \in scan' <=> q \in scan)
        BY <2>1, <2>4, <3>1
      <4> QED
        BY <1>2, <2>4, <4>1 DEF InStepBut
    <3>2. CASE q = p
      <4>1. n \in Tables /\ led.defs[n].id = p[1] /\ p[2] = k
        BY <1>2, <3>2, LedgerFields
      <4>2. mem.tables[n] = p[1] /\ mem.idx[p[1]] = led.defs[n].idx /\ p[1] # None
        BY <1>3, <2>2, <4>1 DEF None, Ids
      <4>3. p[1] \in Live
        BY <4>1, <4>2 DEF Live
      <4>4. p \in scan' /\ IndexEntries(p[1], {p[2]}) \subseteq sec'
        BY <2>1, <4>3
      <4>5. \A x \in led.defs[n].idx : <<x[2], k>> \in sec'
        BY <4>1, <4>2, <4>4 DEF IndexEntries
      <4> QED
        BY <2>2, <3>2, <4>4, <4>5
    <3> QED
      BY <3>1, <3>2
  <2>7. scan' \cup todo' \subseteq led.rows /\ scan' \cap todo' = {}
    BY <1>2, <2>1, <2>2, <2>4
  <2> QED
    BY <1>1, <1>2, <2>1, <2>4, <2>5, <2>6, <2>7, RebuildKeeps
<1> QED
  BY <1>4, <1>5

-----------------------------------------------------------------------------
(* The invariant.                                                           *)

\* A new, empty store.
LEMMA InitKeeps ==
    ASSUME Init
    PROVE  TablesInv
<1>1. /\ led.nextTable = 1 /\ led.nextIndex = 1 /\ led.names = {}
      /\ led.defs = [n \in Tables |-> NoDef] /\ led.rows = {}
      /\ led.auto = [i \in Ids |-> None]
      /\ scan = {} /\ sec = {} /\ synced = TRUE /\ mem = LoadCatalog(led) /\ phase = "up"
      /\ todo = {} /\ half = << >> /\ job = NoJob /\ crashes = 0
      /\ lowered = {} /\ skipped = {} /\ late = {}
      /\ buf = [s \in Sessions |-> Empty] /\ given = [s \in Sessions |-> NoGiven]
  BY DEF Init
<1>2. led \in Ledger
  <2>1. NoDef \in [id : 0 .. MaxTable, idx : SUBSET Index]
    BY TablesBoundsAssumption DEF NoDef, None
  <2>2. [n \in Tables |-> NoDef] \in [Tables -> [id : 0 .. MaxTable, idx : SUBSET Index]]
    BY <2>1
  <2>3. [i \in Ids |-> None] \in [Ids -> Nat] /\ 1 \in 1 .. MaxTable + 1
        /\ 1 \in 1 .. MaxIndex + 1
    BY TablesBoundsAssumption DEF None
  <2> HIDE DEF NoDef
  <2> QED
    BY <2>2, <2>3 DEF Init, Ledger
<1>3. LedgerSound(led)
  <2>1. Defined(led) = {}
    BY <1>1 DEF Defined
  <2> QED
    BY <1>1, <2>1 DEF LedgerSound
<1>4. /\ mem \in Memory /\ CopyOf(mem, led, late)
      /\ \A i \in Ids : mem.next[i] = Loaded(led.auto[i])
  BY <1>1, <1>2, <1>3, LoadIsCopy
<1>5. Settled.scan = scan /\ Settled.sec = sec /\ Settled.mem = mem /\ Settled.job = job
  BY <1>1, SettledIs
<1>6. TypeOK
  <2>1. NoJob \in Job /\ buf \in [Sessions -> Buffer]
        /\ given \in [Sessions -> {NoGiven} \cup [id : Ids, key : Keys]]
    BY <1>1, EmptyIs DEF Job
  <2> QED
    BY <1>1, <1>2, <1>4, <2>1 DEF TypeOK
<1>7. KeyspacesInv
  BY <1>1, <1>5 DEF KeyspacesInv, FreshIn, InStepBut, HandlesInStep
<1>8. JobInv
  BY <1>1, <1>5 DEF JobInv, JobHas
<1>9. StatementsInv
  BY <1>1, EmptyIs DEF StatementsInv, NoGiven, None
<1>10. CountersInv
  <2>1. \A i \in Ids : Loaded(led.auto[i]) \in Nat
    BY <1>1 DEF Loaded, None
  <2>2. CountersOf(mem, led, buf, Exempt)
    BY <1>1, <1>4, <2>1, EmptyIs DEF CountersOf
  <2> QED
    BY <1>1, <1>5, <2>2 DEF CountersInv
<1> QED
  BY <1>3, <1>4, <1>5, <1>6, <1>7, <1>8, <1>9, <1>10 DEF TablesInv

\* Every step keeps the invariant.
LEMMA NextKeeps ==
    ASSUME TablesInv, [Next]_vars
    PROVE  TablesInv'
<1>1. CASE UNCHANGED vars
  <2>1. Settled' = Settled /\ Exempt' = Exempt
    BY <1>1 DEF vars, derived, record, Settled, Exempt
  <2> QED
    BY <1>1, <2>1 DEF vars, derived, stmts, record, TablesInv, TypeOK, KeyspacesInv, JobInv,
                      StatementsInv, CountersInv
<1>2. CASE DdlStep
  <2>1. CASE \E n \in Tables : CreateTable(n) \/ TableNotFound(n)
    BY <1>1, <2>1, CreateTableKeeps DEF TableNotFound
  <2>2. CASE \E old, new \in Tables : RenameTable(old, new)
    BY <2>2, RenameTableKeeps
  <2>3. CASE \/ \E i \in Ids, x \in Indexes : CreateIndex(i, x) \/ DropIndex(i, x)
             \/ \E i \in Ids, from, to \in Indexes : RenameIndex(i, from, to)
    BY <2>3, IndexKeeps
  <2>4. CASE \E own \in {{}} \cup {{s} : s \in Sessions} :
                \/ \E i \in Ids : Truncate(own, i)
                \/ \E n \in Tables : DropTable(own, n)
    <3>1. PICK own \in SUBSET Sessions : \/ \E i \in Ids : Truncate(own, i)
                                         \/ \E n \in Tables : DropTable(own, n)
      BY <2>4
    <3> QED
      BY <3>1, JobKeeps
  <2>5. CASE \E i \in Ids, v \in SetValues : SetAutoIncrementValue(i, v)
    BY <2>5, SetAutoKeeps
  <2>6. CASE DeleteChunk
    BY <2>6, DeleteChunkKeeps
  <2>7. CASE TruncateReturns
    BY <2>7, JobKeeps
  <2>8. CASE DropReturns
    BY <2>8, DropReturnsKeeps
  <2> QED
    BY <1>2, <2>1, <2>2, <2>3, <2>4, <2>5, <2>6, <2>7, <2>8 DEF DdlStep
<1>3. ASSUME NEW s \in Sessions, RowStep(s) PROVE TablesInv'
  <2>1. CASE \E i \in Ids : GetNextAutoIncrementValue(s, i)
    BY <2>1, GiveKeeps
  <2>2. CASE \E i \in Ids, k \in Keys : Insert(s, i, k) \/ Delete(s, i, k)
    BY <2>2, InsertKeeps, DeleteKeeps
  <2>3. CASE CommitTxn(s) \/ CloseDirect(s)
    BY <2>3, ApplyKeeps DEF CommitTxn, CloseDirect, Ending
  <2>4. CASE Rollback(s)
    BY <2>4, JobKeeps
  <2> QED
    BY <1>3, <2>1, <2>2, <2>3, <2>4 DEF RowStep
<1> QED
  BY <1>1, <1>2, <1>3, CommitDerivedKeeps, CrashKeeps, OpenKeeps, ReconcileDropKeeps,
     ReconcileBuildKeeps DEF Next

\* At every step of a commit, a TRUNCATE, a DROP TABLE, a crash or a rebuild
\* (database.go, store.go, table.go), and whatever *tableDef a statement still has:
\* the ledger's catalog can be loaded and names the tables of the running store,
\* with definitions of that store; the keyspaces are in step where the marker or
\* the store vouches for them; and the counters are past the rows but those that
\* SetAutoIncrementValue or Insert's type switch left behind.
THEOREM TablesInvariance == Spec => []TablesInv
<1>1. Init => TablesInv
  BY InitKeeps
<1>2. TablesInv /\ [Next]_vars => TablesInv'
  BY NextKeeps
<1> QED
  BY <1>1, <1>2, PTL DEF Spec

-----------------------------------------------------------------------------
(* What follows from it.                                                    *)

\* After a crash anywhere loadCatalog succeeds, and between two commits it would
\* read the names, the next ids and under each name a definition that the running
\* store has under it.  That is the definition the store serves, unless an index
\* statement ran on the *tableDef of a table dropped before (database.go, createIndex,
\* dropIndex, renameIndex): only such a table can take the place of another.
THEOREM CatalogSafe == Spec => []CatalogDurable
<1>1. TablesInv => CatalogDurable
  <2> SUFFICES ASSUME TablesInv PROVE CatalogDurable
    OBVIOUS
  <2>1. led \in Ledger /\ mem \in Memory /\ LedgerSound(led)
    BY DEF TablesInv, TypeOK
  <2>2. CatalogOpens(led)
    BY <2>1 DEF CatalogOpens, LedgerSound, Defined
  <2> DEFINE m == LoadCatalog(led)
  <2>3. m \in Memory /\ CopyOf(m, led, late) /\ \A n \in led.names : m.tables[n] = led.defs[n].id
    BY <2>1, LoadIsCopy
  <2> HIDE DEF m
  <2>4. ASSUME phase # "down", half = << >>
        PROVE  /\ mem.nextTable = m.nextTable
               /\ mem.nextIndex = m.nextIndex
               /\ \A n \in Tables : mem.tables[n] = None <=> m.tables[n] = None
               /\ \A n \in led.names : /\ mem.name[m.tables[n]] = n
                                       /\ mem.idx[m.tables[n]] = m.idx[m.tables[n]]
                                       /\ m.tables[n] = mem.tables[n] \/ m.tables[n] \in late
    <3>1. CopyOf(mem, led, late)
      BY <2>4, SettledIs DEF TablesInv
    <3>2. mem.nextTable = m.nextTable /\ mem.nextIndex = m.nextIndex
      BY <2>3, <3>1 DEF CopyOf, NamesOf
    <3>3. \A n \in Tables : mem.tables[n] = None <=> m.tables[n] = None
      <4>1. None \notin Ids
        BY DEF None, Ids
      <4> QED
        BY <2>3, <3>1, <4>1 DEF CopyOf, NamesOf
    <3>4. ASSUME NEW n \in led.names
          PROVE  /\ mem.name[m.tables[n]] = n
                 /\ mem.idx[m.tables[n]] = m.idx[m.tables[n]]
                 /\ m.tables[n] = mem.tables[n] \/ m.tables[n] \in late
      <4>1. n \in Defined(led) /\ m.tables[n] = led.defs[n].id
        BY <2>1, <2>3 DEF LedgerSound
      <4>2. /\ mem.name[led.defs[n].id] = n /\ mem.idx[led.defs[n].id] = led.defs[n].idx
            /\ led.defs[n].id = mem.tables[n] \/ led.defs[n].id \in late
        BY <3>1, <4>1 DEF CopyOf, NamesOf, IndexesOf
      <4>3. m.idx[led.defs[n].id] = led.defs[n].idx
        BY <2>3, <4>1 DEF CopyOf, NamesOf, IndexesOf
      <4> QED
        BY <4>1, <4>2, <4>3
    <3> QED
      BY <3>2, <3>3, <3>4
  <2> QED
    BY <2>2, <2>4 DEF CatalogDurable, m
<1> QED
  BY <1>1, TablesInvariance, PTL

\* Keyspaces in step for every table that a statement can have are in step for those
\* of the catalog.
LEMMA InStepUnder ==
    ASSUME led \in Ledger, scan \in SUBSET (Ids \X Keys),
           sec \in SUBSET ((1 .. MaxIndex) \X Keys), NEW lt,
           NEW m \in Memory, CopyOf(m, led, lt), HandlesInStep(m, led, scan, sec)
    PROVE  InStep(m)
<1> SUFFICES ASSUME NEW n \in Tables, m.tables[n] # None
             PROVE  /\ KeysOf(scan, m.tables[n]) = KeysOf(led.rows, m.tables[n])
                    /\ \A x \in m.idx[m.tables[n]] :
                         KeysOf(led.rows, m.tables[n]) \subseteq KeysOf(sec, x[2])
  BY DEF InStep
<1> DEFINE i == m.tables[n]
<1>1. i \in Ids /\ m.name[i] # NoName
  BY TableId
<1>2. led.rows \in SUBSET (Ids \X Keys)
  BY LedgerFields
<1> HIDE DEF i
<1>3. \A k \in Keys : /\ <<i, k>> \in scan <=> <<i, k>> \in led.rows
                      /\ <<i, k>> \in led.rows => \A x \in m.idx[i] : <<x[2], k>> \in sec
  BY <1>1 DEF HandlesInStep
<1>4. /\ KeysOf(led.rows, i) \subseteq Keys
      /\ \A k \in Keys : k \in KeysOf(led.rows, i) <=> <<i, k>> \in led.rows
  BY <1>2, KeysOfIs
<1>5. /\ KeysOf(scan, i) \subseteq Keys
      /\ \A k \in Keys : k \in KeysOf(scan, i) <=> <<i, k>> \in scan
  BY KeysOfIs
<1>6. KeysOf(scan, i) = KeysOf(led.rows, i)
  BY <1>3, <1>4, <1>5
<1>7. ASSUME NEW x \in m.idx[i], NEW k \in KeysOf(led.rows, i) PROVE k \in KeysOf(sec, x[2])
  <2>1. k \in Keys /\ <<x[2], k>> \in sec
    BY <1>3, <1>4
  <2> QED
    BY <2>1, KeysOfIs
<1> QED
  BY <1>6, <1>7 DEF i

\* The marker of store.go vouches only for keyspaces in step, after a crash
\* anywhere in a DDL statement, a TRUNCATE or a rebuild; and a store that serves
\* has them in step.
THEOREM InStepSafe == Spec => []TablesInStep
<1>1. TablesInv => TablesInStep
  <2> SUFFICES ASSUME TablesInv PROVE TablesInStep
    OBVIOUS
  <2>1. /\ led \in Ledger /\ mem \in Memory /\ LedgerSound(led)
        /\ scan \in SUBSET (Ids \X Keys) /\ sec \in SUBSET ((1 .. MaxIndex) \X Keys)
    BY DEF TablesInv, TypeOK
  <2>2. ASSUME synced PROVE InStep(LoadCatalog(led))
    <3>1. InStepBut(led, scan, sec, {})
      BY <2>2 DEF TablesInv, KeyspacesInv
    <3>2. LoadCatalog(led) \in Memory /\ CopyOf(LoadCatalog(led), led, {})
      BY <2>1, LoadIsCopy
    <3>3. HandlesInStep(LoadCatalog(led), led, scan, sec)
      BY <2>1, <3>1, LoadInStep
    <3> QED
      BY <2>1, <3>2, <3>3, InStepUnder
  <2>3. ASSUME phase = "up", half = << >> PROVE InStep(mem)
    BY <2>1, <2>3, FreeHas, InStepUnder
  <2> QED
    BY <2>2, <2>3 DEF TablesInStep
<1> QED
  BY <1>1, TablesInvariance, PTL

\* No id is handed out twice: an id that CREATE TABLE or CREATE INDEX has not
\* given yet has no rows, no counter and no entries, whatever was dropped,
\* written late or cut off by a crash.
THEOREM FreshSafe == Spec => []FreshIds
<1>1. TablesInv => FreshIds
  <2> SUFFICES ASSUME TablesInv PROVE FreshIds
    OBVIOUS
  <2>1. /\ led \in Ledger /\ scan \in SUBSET (Ids \X Keys)
        /\ sec \in SUBSET ((1 .. MaxIndex) \X Keys) /\ FreshIn(led, scan, sec)
    BY DEF TablesInv, TypeOK, KeyspacesInv
  <2>2. led.nextTable \in Nat /\ led.nextIndex \in Nat
    BY <2>1, LedgerFields
  <2>3. ASSUME NEW i \in Ids, i >= led.nextTable
        PROVE  KeysOf(led.rows, i) = {} /\ KeysOf(scan, i) = {} /\ led.auto[i] = None
    <3>1. i \in Nat /\ ~(i < led.nextTable)
      BY <2>2, <2>3 DEF Ids
    <3>2. \A p \in led.rows \cup scan : p[1] # i
      BY <2>1, <3>1 DEF FreshIn
    <3> QED
      BY <2>1, <2>3, <3>2 DEF FreshIn, KeysOf
  <2>4. ASSUME NEW i \in 1 .. MaxIndex, i >= led.nextIndex
        PROVE  KeysOf(sec, i) = {}
    <3>1. ~(i < led.nextIndex)
      BY <2>2, <2>4
    <3> QED
      BY <2>1, <3>1 DEF FreshIn, KeysOf
  <2> QED
    BY <2>3, <2>4 DEF FreshIds
<1> QED
  BY <1>1, TablesInvariance, PTL

\* GetNextAutoIncrementValue (table.go) never hands out the key of a committed
\* row of its table, before or after a crash, but that of a row which
\* SetAutoIncrementValue set the counter back to or below, or which was inserted
\* with a value that Insert's type switch passed over, until a commit writes a
\* counter that is past the row.
THEOREM AutoIncSafe == Spec => []AutoIncFresh
<1>1. TablesInv => AutoIncFresh
  <2> SUFFICES ASSUME TablesInv, NEW p \in led.rows, p \notin Exempt
               PROVE  /\ p[2] < LoadCatalog(led).next[p[1]]
                      /\ phase = "up" => p[2] < mem.next[p[1]]
    BY DEF AutoIncFresh, Exempt
  <2>1. led \in Ledger /\ LedgerSound(led)
    BY DEF TablesInv, TypeOK
  <2>2. p[1] \in Ids
    BY <2>1, LedgerFields
  <2>3. p[2] < Loaded(led.auto[p[1]]) /\ (phase = "up" => p[2] < mem.next[p[1]])
    BY DEF TablesInv, CountersInv
  <2>4. LoadCatalog(led).next[p[1]] = Loaded(led.auto[p[1]])
    BY <2>1, <2>2, LoadIsCopy
  <2> QED
    BY <2>3, <2>4
<1> QED
  BY <1>1, TablesInvariance, PTL

\* A job ends, in a store that goes on serving, when its loop found no row left
\* or with the second write of the commit that drops the table.
LEMMA JobEnds ==
    ASSUME [Next]_vars, TablesInv, job # NoJob, job' = NoJob, phase' = "up"
    PROVE  TruncateReturns \/ CommitDerived
<1>1. phase # "down" /\ phase = "up"
  BY DEF TablesInv, JobInv
<1>2. ASSUME DdlStep PROVE TruncateReturns
  BY <1>2 DEF DdlStep, CreateTable, TableNotFound, RenameTable, CreateIndex, DropIndex,
              RenameIndex, SetIndexes, Ddl, Free, Truncate, DropTable, StartJob, DeleteChunk,
              DropReturns, SetAutoIncrementValue
<1>3. ASSUME NEW s \in Sessions, RowStep(s) PROVE FALSE
  BY <1>3 DEF RowStep, GetNextAutoIncrementValue, Delete, Insert, CommitTxn, Rollback,
              CloseDirect, Ending, Free
<1>4. ~UNCHANGED vars /\ ~Crash /\ ~Open /\ ~ReconcileDrop /\ ~ReconcileBuild
  BY <1>1 DEF vars, Crash, Open, ReconcileDrop, ReconcileBuild
<1> QED
  BY <1>2, <1>3, <1>4 DEF Next

\* TRUNCATE and DROP TABLE (table.go, database.go) return only when no row of
\* the table is left, in the ledger or in the scan space.
THEOREM EmptiedSafe == Spec => EmptiedOnReturn
<1> DEFINE A == (job # NoJob /\ job' = NoJob /\ phase' = "up") =>
                    KeysOf(led'.rows, job.id) = {} /\ KeysOf(scan', job.id) = {}
<1>1. TablesInv /\ [Next]_vars => [A]_vars
  <2> SUFFICES ASSUME TablesInv, [Next]_vars, job # NoJob, job' = NoJob, phase' = "up"
               PROVE  KeysOf(led'.rows, job.id) = {} /\ KeysOf(scan', job.id) = {}
    OBVIOUS
  <2>1. led \in Ledger
    BY DEF TablesInv, TypeOK
  <2>2. led.rows \in SUBSET (Ids \X Keys)
    BY <2>1, LedgerFields
  <2>3. CASE TruncateReturns
    <3>1. /\ phase = "up" /\ half = << >> /\ KeysOf(scan, job.id) = {}
          /\ led' = led /\ scan' = scan
      BY <2>3 DEF TruncateReturns, LoopDone, derived
    <3>2. /\ HandlesInStep(mem, led, scan, sec) /\ job \in Job /\ JobHas(job, mem)
          /\ scan \in SUBSET (Ids \X Keys)
      BY <3>1, FreeHas
    <3>3. job.id \in Ids /\ mem.name[job.id] # NoName
      BY <3>2 DEF Job, JobHas
    <3>4. \A k \in Keys : <<job.id, k>> \notin scan
      BY <3>1, <3>2, KeysOfIs
    <3>5. \A k \in Keys : <<job.id, k>> \notin led.rows
      BY <3>2, <3>3, <3>4 DEF HandlesInStep
    <3>6. KeysOf(led.rows, job.id) = {}
      BY <2>2, <3>5, KeysOfIs
    <3> QED
      BY <3>1, <3>6
  <2>4. CASE CommitDerived
    <3>1. half # << >> /\ scan' = half[1].scan /\ job' = half[1].job /\ led' = led
      BY <2>4 DEF CommitDerived
    <3>2. Settled = half[1] /\ half[1] \in Half
      BY <3>1, SettledIs DEF TablesInv, TypeOK
    <3>3. \A k \in Keys : <<job.id, k>> \notin led.rows \cup scan'
      BY <3>1, <3>2 DEF TablesInv, JobInv
    <3>4. scan' \in SUBSET (Ids \X Keys)
      BY <3>1, <3>2 DEF Half
    <3> QED
      BY <2>2, <3>1, <3>3, <3>4, KeysOfIs
  <2> QED
    BY <2>3, <2>4, JobEnds
<1>2. Spec => [][A]_vars
  <2> HIDE DEF A
  <2> QED
    BY <1>1, TablesInvariance, PTL DEF Spec
<1> QED
  BY <1>2 DEF EmptiedOnReturn
=============================================================================

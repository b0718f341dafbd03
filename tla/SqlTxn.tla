------------------------------- MODULE SqlTxn -------------------------------
(***************************************************************************)
(* The SQL layer over one ledger (sqlledger/txn.go, table.go, store.go,     *)
(* index.go): sessions buffer rows in transactions, COMMIT validates the    *)
(* buffer against the committed rows and applies it as one ledger commit,   *)
(* and two derived keyspaces, the scan space 'i' and the secondary space    *)
(* 'x', follow the ledger in a second backend write.                        *)
(*                                                                         *)
(* One table with one unique secondary index.  A row is the value of its    *)
(* indexed column; Null is exempt from uniqueness.  The ledger underneath   *)
(* is what VersionedMap promises: PutBatch atomically replaces rows and     *)
(* advances the version if any row changed.                                 *)
(*                                                                         *)
(* The store's mutex makes a commit (ledger write and keyspace write) one   *)
(* critical section: lock names the session inside it.  A crash can fall    *)
(* between its two writes, and between the batches of the rebuild that      *)
(* follows a crash.                                                         *)
(***************************************************************************)
EXTENDS Integers, Sequences, FiniteSets, SequencesExt

CONSTANTS
    Sessions,
    Keys,           \* primary keys
    Vals,           \* values of the indexed column (may contain Null)
    Null,           \* SQL NULL
    NoRow,          \* no row under a key (a nil row in the code)
    NoKey,          \* nothing to check
    NoSession,      \* the lock is free
    Names,          \* bound: session -> savepoint names it uses
    MaxVersion,     \* bound: ledger commits
    MaxStmt,        \* bound: rows one statement writes
    MaxTouched,     \* bound: session -> rows one transaction writes
    MaxCrashes      \* bound: crashes

ASSUME SqlNoRowAssumption == NoRow \notin Vals /\ NoKey \notin Keys
ASSUME SqlNoSessionAssumption == NoSession \notin Sessions
ASSUME SqlBoundsAssumption ==
    /\ MaxVersion \in Nat
    /\ MaxStmt \in Nat
    /\ MaxTouched \in [Sessions -> Nat]
    /\ DOMAIN Names = Sessions
    /\ MaxCrashes \in Nat

VARIABLES
    rows,       \* ledger: key -> row or NoRow, at the current version
    version,    \* ledger: the current version
    scan,       \* backend 'i': the keys with a row
    index,      \* backend 'x': set of <<value, key>>
    marker,     \* backend 'j': the version the keyspaces were written for
    phase,      \* the SQL store: down, drop, build (reconciling), up
    todo,       \* rows the rebuild has still to write
    lock,       \* the session between its ledger write and keyspace write
    txn,        \* session -> transaction
    crashes     \* number of crashes so far

ledger  == <<rows, version>>
derived == <<scan, index, marker>>
vars    == <<ledger, derived, phase, todo, lock, txn, crashes>>

Row == Vals \cup {NoRow}

\* pendingRow: the committed row a key was based on, and the row to write.
Pending == [old : Row, new : Row]

\* A write set: a tableTxn, or the buffer of one statement.
WriteSet == UNION {[D -> Pending] : D \in SUBSET Keys}

Empty == [k \in {} |-> {}]

NoTxn == [open |-> FALSE, base |-> 0, buf |-> Empty, saves |-> << >>,
          stmt |-> Empty, check |-> NoKey]

Init ==
    /\ rows = [k \in Keys |-> NoRow]
    /\ version = 0
    /\ scan = {}
    /\ index = {}
    /\ marker = 0
    /\ phase = "up"
    /\ todo = {}
    /\ lock = NoSession
    /\ txn = [s \in Sessions |-> NoTxn]
    /\ crashes = 0

Live == {k \in Keys : rows[k] # NoRow}

Entries == {<<rows[k], k>> : k \in Live}

-----------------------------------------------------------------------------
(* Transactions and savepoints.                                             *)

Usable == phase = "up" /\ lock = NoSession

InTxn(s) == Usable /\ txn[s].open

\* No statement is running in the session.
Between(s) == InTxn(s) /\ txn[s].stmt = Empty

SetTxn(s, t) ==
    /\ txn' = [txn EXCEPT ![s] = t]
    /\ UNCHANGED <<ledger, derived, phase, todo, lock, crashes>>

StartTransaction(s) ==
    /\ Usable
    /\ ~txn[s].open
    /\ SetTxn(s, [NoTxn EXCEPT !.open = TRUE, !.base = version])

Rollback(s) ==
    /\ Between(s)
    /\ SetTxn(s, NoTxn)

\* The savepoints of a name.
Named(saves, name) == {i \in DOMAIN saves : saves[i].name = name}

\* dropSavepoint removes the first savepoint of the name, if there is one.
DropSavepoint(saves, name) ==
    IF Named(saves, name) = {} THEN saves
    ELSE RemoveAt(saves, Min(Named(saves, name)))

\* A savepoint of the same name is dropped, the new one comes last.
CreateSavepoint(s, name) ==
    /\ Between(s)
    /\ SetTxn(s, [txn[s] EXCEPT !.saves =
            Append(DropSavepoint(@, name), [name |-> name, buf |-> txn[s].buf])])

\* The position of the last savepoint of a name (0 if there is none).
SavepointAt(s, name) ==
    LET at == Named(txn[s].saves, name)
    IN  IF at = {} THEN 0 ELSE Max(at)

\* The buffer returns to the savepoint; later savepoints are destroyed.
RollbackToSavepoint(s, name) ==
    /\ Between(s)
    /\ LET i == SavepointAt(s, name)
       IN  /\ i > 0
           /\ SetTxn(s, [txn[s] EXCEPT !.buf = txn[s].saves[i].buf,
                                       !.saves = SubSeq(@, 1, i)])

ReleaseSavepoint(s, name) ==
    /\ Between(s)
    /\ LET i == SavepointAt(s, name)
       IN  /\ i > 0
           /\ SetTxn(s, [txn[s] EXCEPT !.saves = SubSeq(@, 1, i - 1)])

-----------------------------------------------------------------------------
(* Statements.  The editor handles a row at a time: it records the row,     *)
(* then checks the unique index, releasing the read lock in between; Close  *)
(* folds the statement into the transaction, an error discards it.          *)

With(ws, k, p) == [j \in DOMAIN ws \cup {k} |-> IF j = k THEN p ELSE ws[j]]

\* Mutant of Fold: the statement's old row replaces the transaction's.
FoldLatest(buf, stmt) ==
    [k \in DOMAIN buf \cup DOMAIN stmt |->
        IF k \in DOMAIN stmt THEN stmt[k] ELSE buf[k]]

\* Close, and effectivePending: a key the transaction has already touched
\* keeps the committed row it was first based on.
Fold(buf, stmt) ==
    [k \in DOMAIN buf \cup DOMAIN stmt |->
        IF k \notin DOMAIN stmt THEN buf[k]
        ELSE [old |-> IF k \in DOMAIN buf THEN buf[k].old ELSE stmt[k].old,
              new |-> stmt[k].new]]

\* The row a session reads under a key, before the running statement.
View(s, k) == IF k \in DOMAIN txn[s].buf THEN txn[s].buf[k].new ELSE rows[k]

\* A row goes into the statement buffer; its unique check is due.  (A row
\* written after the last commit of the bound could not be committed.)
Record(s, k, p, due) ==
    LET stmt == With(txn[s].stmt, k, p)
    IN  /\ InTxn(s)
        /\ txn[s].check = NoKey
        /\ version < MaxVersion
        /\ Cardinality(DOMAIN stmt) =< MaxStmt
        /\ Cardinality(DOMAIN Fold(txn[s].buf, stmt)) =< MaxTouched[s]
        /\ SetTxn(s, [txn[s] EXCEPT !.stmt = stmt, !.check = due])

\* The statement fails: DiscardChanges.
Discard(s) == SetTxn(s, [txn[s] EXCEPT !.stmt = Empty, !.check = NoKey])

\* tableEditor.Insert: the key must be free in the statement, else in the
\* transaction, else in the ledger.
Insert(s, k, v) ==
    LET stmt == txn[s].stmt
    IN  IF k \in DOMAIN stmt
        THEN /\ stmt[k].new = NoRow
             /\ Record(s, k, [stmt[k] EXCEPT !.new = v], k)
        ELSE /\ View(s, k) = NoRow
             /\ Record(s, k, [old |-> NoRow, new |-> v], k)

\* ... or the statement fails with a primary key violation.
InsertDuplicate(s, k) ==
    /\ InTxn(s)
    /\ txn[s].check = NoKey
    /\ txn[s].stmt # Empty
    /\ LET stmt == txn[s].stmt
       IN  IF k \in DOMAIN stmt THEN stmt[k].new # NoRow
                                ELSE View(s, k) # NoRow
    /\ Discard(s)

\* tableEditor.Delete of a row the statement's scan produced.
Delete(s, k) ==
    LET stmt == txn[s].stmt
    IN  IF k \in DOMAIN stmt
        THEN /\ stmt[k].new # NoRow
             /\ Record(s, k, [stmt[k] EXCEPT !.new = NoRow], NoKey)
        ELSE /\ View(s, k) # NoRow
             /\ Record(s, k, [old |-> View(s, k), new |-> NoRow], NoKey)

\* tableEditor.Update with the key unchanged (a changed key is a Delete
\* followed by an Insert in the same statement).
Update(s, k, v) ==
    LET stmt == txn[s].stmt
    IN  IF k \in DOMAIN stmt
        THEN /\ stmt[k].new # NoRow
             /\ Record(s, k, [stmt[k] EXCEPT !.new = v], k)
        ELSE /\ View(s, k) # NoRow
             /\ Record(s, k, [old |-> View(s, k), new |-> v], k)

\* checkUnique: does the value v of key k collide, given the pending rows P?
\* A committed entry of another key stands unless a pending row that had the
\* value gives it up; without one, the pending rows are searched.
Collides(v, k, P) ==
    LET others == DOMAIN P \ {k}
    IN  /\ v # Null
        /\ IF \E e \in index : e[1] = v /\ e[2] # k
           THEN ~\E q \in others : P[q].old = v /\ P[q].new # v
           ELSE \E q \in others : P[q].new = v

CheckUnique(s) ==
    LET k == txn[s].check
        P == Fold(txn[s].buf, txn[s].stmt)
    IN  /\ InTxn(s)
        /\ k # NoKey
        /\ IF Collides(P[k].new, k, P)
           THEN Discard(s)
           ELSE SetTxn(s, [txn[s] EXCEPT !.check = NoKey])

\* tableEditor.Close in a transaction.
Close(s) ==
    /\ InTxn(s)
    /\ txn[s].check = NoKey
    /\ txn[s].stmt # Empty
    /\ SetTxn(s, [txn[s] EXCEPT !.buf = Fold(@, txn[s].stmt), !.stmt = Empty])

-----------------------------------------------------------------------------
(* COMMIT.                                                                  *)

\* The rows of a buffer that write something.
Effective(buf) ==
    {k \in DOMAIN buf : ~(buf[k].old = NoRow /\ buf[k].new = NoRow)}

\* validatePendingLocked, for every effective row.
PendingValid(buf) == \A k \in Effective(buf) : rows[k] = buf[k].old

\* Mutant of UniqueValid: no revalidation at COMMIT.
UniqueUnchecked(buf) == TRUE

\* revalidateUniqueLocked: a committed entry of another key stands unless the
\* buffer deletes or moves the row of that key.
UniqueValid(buf) ==
    \A k \in DOMAIN buf :
        buf[k].new \notin {NoRow, Null} =>
            \A e \in index :
                (e[1] = buf[k].new /\ e[2] # k) =>
                    /\ e[2] \in DOMAIN buf
                    /\ buf[e[2]].new # buf[k].new

\* Mutant of Valid: only the unique index is revalidated.
ValidUniqueOnly(t) == version # t.base => UniqueValid(t.buf)

\* Nothing committed since the transaction began, or everything it touches
\* still is as it was.
Valid(t) ==
    version # t.base => PendingValid(t.buf) /\ UniqueValid(t.buf)

\* The first half of commit: PutBatch.  A batch that changes nothing makes no
\* version.
CommitLedger(s) ==
    LET buf  == txn[s].buf
        rows1 == [k \in Keys |->
                    IF k \in Effective(buf) THEN buf[k].new ELSE rows[k]]
    IN  /\ Between(s)
        /\ Effective(buf) # {}
        /\ Valid(txn[s])
        /\ version < MaxVersion
        /\ rows' = rows1
        /\ version' = IF rows1 = rows THEN version ELSE version + 1
        /\ lock' = s
        /\ UNCHANGED <<derived, phase, todo, txn, crashes>>

\* The second half: the rows' entries and the marker in one batch.  For each
\* row its old index entry goes before its new one comes.
CommitDerived(s) ==
    LET buf == txn[s].buf
        E   == Effective(buf)
    IN  /\ lock = s
        /\ scan' = (scan \ {k \in E : buf[k].new = NoRow})
                      \cup {k \in E : buf[k].new # NoRow}
        /\ index' = (index \ {<<buf[k].old, k>> : k \in {j \in E : buf[j].old # NoRow}})
                      \cup {<<buf[k].new, k>> : k \in {j \in E : buf[j].new # NoRow}}
        /\ marker' = version
        /\ lock' = NoSession
        /\ txn' = [txn EXCEPT ![s] = NoTxn]
        /\ UNCHANGED <<ledger, phase, todo, crashes>>

\* A commit with nothing to write, or with a conflict, ends the transaction.
CommitNothing(s) ==
    /\ Between(s)
    /\ Effective(txn[s].buf) = {} \/ ~Valid(txn[s])
    /\ SetTxn(s, NoTxn)

-----------------------------------------------------------------------------
(* Crash and reconciliation.                                                *)

Crash ==
    /\ phase # "down"
    /\ crashes < MaxCrashes
    /\ crashes' = crashes + 1
    /\ phase' = "down"
    /\ todo' = {}
    /\ lock' = NoSession
    /\ txn' = [s \in Sessions |-> NoTxn]
    /\ UNCHANGED <<ledger, derived>>

\* Open: keyspaces that carry the ledger's version are taken as they are.
Open ==
    /\ phase = "down"
    /\ phase' = IF marker = version THEN "up" ELSE "drop"
    /\ UNCHANGED <<ledger, derived, todo, lock, txn, crashes>>

\* Mutant of ReconcileDrop: the marker is written before the rebuild.
ReconcileDropMarks ==
    /\ phase = "drop"
    /\ marker' = version
    /\ IF scan = {}
       THEN /\ phase' = "build"
            /\ todo' = Live
            /\ scan' = scan
       ELSE /\ \E k \in scan : scan' = scan \ {k}
            /\ UNCHANGED <<phase, todo>>
    /\ UNCHANGED <<ledger, index, lock, txn, crashes>>

\* reconcileScanSpace drops the scan space in chunks (the secondary space is
\* not dropped) ...
ReconcileDrop ==
    /\ phase = "drop"
    /\ IF scan = {}
       THEN /\ phase' = "build"
            /\ todo' = Live
            /\ scan' = scan
       ELSE /\ \E k \in scan : scan' = scan \ {k}
            /\ UNCHANGED <<phase, todo>>
    /\ UNCHANGED <<ledger, index, marker, lock, txn, crashes>>

\* ... and writes the entries of every verified leaf, chunk by chunk; the last
\* batch carries the marker.
ReconcileBuild ==
    /\ phase = "build"
    /\ IF todo = {}
       THEN /\ phase' = "up"
            /\ marker' = version
            /\ UNCHANGED <<scan, index, todo>>
       ELSE \E k \in todo :
            /\ scan' = scan \cup {k}
            /\ index' = index \cup {<<rows[k], k>>}
            /\ todo' = todo \ {k}
            /\ UNCHANGED <<phase, marker>>
    /\ UNCHANGED <<ledger, lock, txn, crashes>>

-----------------------------------------------------------------------------
SessionStep(s) ==
    \/ StartTransaction(s)
    \/ Rollback(s)
    \/ \E name \in Names[s] : \/ CreateSavepoint(s, name)
                           \/ RollbackToSavepoint(s, name)
                           \/ ReleaseSavepoint(s, name)
    \/ \E k \in Keys, v \in Vals : Insert(s, k, v) \/ Update(s, k, v)
    \/ \E k \in Keys : Delete(s, k) \/ InsertDuplicate(s, k)
    \/ CheckUnique(s)
    \/ Close(s)
    \/ CommitLedger(s)
    \/ CommitDerived(s)
    \/ CommitNothing(s)

Next ==
    \/ \E s \in Sessions : SessionStep(s)
    \/ Crash
    \/ Open
    \/ ReconcileDrop
    \/ ReconcileBuild

Spec == Init /\ [][Next]_vars

-----------------------------------------------------------------------------
(* Properties.                                                              *)

\* A savepoint: a name and the buffer to return to.
Savepoint == [name : UNION {Names[s] : s \in Sessions}, buf : WriteSet]

\* storeTxn: open or not, the version it began at, its buffer and savepoints;
\* the rows of the running statement and the key whose unique check is due.
Txn == [open : BOOLEAN, base : Nat, buf : WriteSet, saves : Seq(Savepoint),
        stmt : WriteSet, check : Keys \cup {NoKey}]

\* Every variable holds a value of its kind.
TypeOK ==
    /\ rows \in [Keys -> Row]
    /\ version \in Nat
    /\ scan \subseteq Keys
    /\ index \subseteq Vals \X Keys
    /\ marker \in Nat
    /\ phase \in {"down", "drop", "build", "up"}
    /\ todo \subseteq Keys
    /\ lock \in Sessions \cup {NoSession}
    /\ txn \in [Sessions -> Txn]
    /\ crashes \in Nat

\* First committer wins: a COMMIT that goes through replaces exactly the rows
\* its transaction was based on, whatever other sessions committed, and
\* whatever savepoint rollbacks rewrote its buffer.
NoLostUpdate ==
    [][\A s \in Sessions :
        (lock = NoSession /\ lock' = s) =>
            \A k \in Effective(txn[s].buf) : rows[k] = txn[s].buf[k].old]_vars

\* Nothing has been committed since the transaction began.
Current(t) == t.open /\ t.base = version

\* The buffers of a transaction that a savepoint rollback may return to.
SavedBufs(t) == {t.saves[i].buf : i \in DOMAIN t.saves}

\* The rows a transaction will be validated against are the rows it is based
\* on: while nothing has been committed since it began, every buffered row, of
\* the buffer with the running statement folded in and of every savepoint it
\* may return to, carries the committed row of its key as its old row.  This is
\* why COMMIT may skip validation when the version has not moved.
BasedOn(buf) == \A k \in DOMAIN buf : buf[k].old = rows[k]

Based(t) == \A buf \in {Fold(t.buf, t.stmt)} \cup SavedBufs(t) : BasedOn(buf)

BuffersBased == \A s \in Sessions : Current(txn[s]) => Based(txn[s])

\* No two committed rows share a value of the unique index.
UniqueRows ==
    \A j, k \in Live : (rows[j] = rows[k] /\ rows[j] # Null) => j = k

\* What a unique check has established while nothing has been committed since
\* the transaction began, given unique rows: no value in its buffer, in a
\* savepoint, or in the running statement (but for the row whose check is due)
\* is the value of a row under a key the buffer does not name.  COMMIT without
\* revalidation rests on this.
ClearOf(buf, due) ==
    \A k \in DOMAIN buf \ {due}, j \in Live \ DOMAIN buf :
        buf[k].new \notin {NoRow, Null} => rows[j] # buf[k].new

Clear(t) ==
    /\ ClearOf(Fold(t.buf, t.stmt), t.check)
    /\ \A buf \in {t.buf} \cup SavedBufs(t) : ClearOf(buf, NoKey)

ValuesClear ==
    UniqueRows => \A s \in Sessions : Current(txn[s]) => Clear(txn[s])

\* A transaction began at a version the ledger has had, and a due check is that
\* of a row of the running statement.
WellFormed(t) ==
    /\ t.base =< version
    /\ t.check # NoKey => t.check \in DOMAIN t.stmt

TxnsFormed == \A s \in Sessions : WellFormed(txn[s])

\* The derived keyspaces between the writes of a commit and of a rebuild: the
\* marker is never ahead; it is the ledger's version while the store serves and
\* behind during a rebuild; a rebuild has entered what it has not still to do;
\* and between the two writes of a commit only the entries of the rows that
\* are being written are out of step.
InStepBut(K) ==
    /\ scan \ K = Live \ K
    /\ \A k \in Live \ K : <<rows[k], k>> \in index

KeyspacesInv ==
    /\ marker =< version
    /\ marker = version => InStepBut({})
    /\ Usable => marker = version
    /\ phase \in {"drop", "build"} => marker # version
    /\ phase = "build" => todo \subseteq Live /\ scan \cap todo = {} /\ InStepBut(todo)
    /\ phase # "build" => todo = {}
    /\ lock # NoSession =>
        /\ phase = "up"
        /\ InStepBut(Effective(txn[lock].buf))
        /\ \A k \in Effective(txn[lock].buf) : rows[k] = txn[lock].buf[k].new

\* The types, the facts on which COMMIT's fast path rests, and the keyspaces at
\* every step of a commit and of a rebuild: an inductive invariant.
TxnInv == TypeOK /\ BuffersBased /\ ValuesClear /\ TxnsFormed /\ KeyspacesInv

\* The marker never vouches for a wrong keyspace: when it equals the ledger's
\* version (so that Open would not rebuild), in every state a crash can leave
\* behind, and whenever the store serves, the scan space holds exactly the
\* rows' keys and every row has its secondary entry.
MarkerSound ==
    marker = version \/ Usable => scan = Live /\ Entries \subseteq index

\* checkUnique and revalidateUniqueLocked keep uniqueness across transactions:
\* a COMMIT over unique rows never gives a row the value of a row under a key
\* the transaction does not name, whatever was committed between its
\* statements and its COMMIT.
UniqueAcross ==
    [][\A s \in Sessions :
        (lock = NoSession /\ lock' = s /\ UniqueRows) =>
            \A k \in Live', j \in Live' \ DOMAIN txn[s].buf :
                (rows'[j] = rows'[k] /\ rows'[j] # Null) => j = k]_vars

\* Secondary entries are "derived state: rebuilt from the ledger whenever the
\* keyspace and the ledger version disagree" (index.go): a served store has no
\* secondary entry without its row.
SecondaryExact == Usable => index = Entries
=============================================================================

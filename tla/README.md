# Verification of immutable-ledger

TLA+ models of the ledger store (`ledger/`) and of the SQL layer above it
(`sqlledger/`), checked with TLC and, for the store and what it hands out, its cache,
transactions, tables and scans, proved with TLAPS.

## The system

immutable-ledger is an authenticated, versioned key-value store: a sparse Merkle
tree of arity 16 whose records live in an ordered key-value backend. Every
effective batch makes one new version; old versions stay readable until they are
pruned. A MySQL-compatible layer keeps its catalog and rows in one ledger and
derives scan and index keyspaces from it.

| Component | State it keeps | Operations | What makes it correct |
|---|---|---|---|
| Tree nodes, hashing (`ledger/node.go`, `hash.go`) | none (pure) | encode, decode, hash, subtreeHash | a hash commits to the content below a position and to no version |
| Batch fold (`ledger/store.go`) | accumulator of pending nodes, values, stale marks | applySubtree, buildFromPairs, putLeaf, takeLeaf, staleNode | writes exactly the new tree's new records, retires exactly the dropped ones |
| Store (`ledger/store.go`) | backend records `n v s r c`; root, version, rootChild, historyHead, snapshotPin in memory | Create, Open, OpenLatest, Get, GetAt, PutBatch, PinVersion, Prune, RetainRecent | retained versions read exactly, pruned ones are erased, crashes lose nothing committed |
| History chain (`ledger/audit.go`) | one reserved leaf, cached head | HistoryLink, HistoryHeadAt, VerifyHistory, ChangesAt | head leaves and root records are one chain through crashes and prunes; a diff reports what changed and nothing else |
| Snapshot and restore (`ledger/snapshot.go`) | the pin | SnapshotLeaves, RestoreLeaves, StampVersion | a stream under a pin is one version; a restored replica follows its source |
| Forks (`ledger/fork.go`) | overlay of operations, base root and version | Get, Put, Delete, Seal | what a sealed fork has read is its base; the sealed root is the one a commit gives |
| Proofs (`ledger/proof.go`, `sqlledger/verify.go`) | none | ProveAt, Verify, VerifiedGet | complete and sound for inclusion and exclusion |
| Node cache (`ledger/cache.go`) | LRU of nodes | get, put, clear, setCapacity | invisible to readers |
| Backends (`ledger/backend.go`, `backend/pebble`) | ordered byte keys | Get, WriteBatch, Scan | WriteBatch is atomic and durable |
| SQL transactions (`sqlledger/txn.go`) | per session: base version, write set, savepoints | BEGIN, COMMIT, ROLLBACK, savepoints, overlay | first committer wins, no lost update |
| Table editors (`sqlledger/table.go`) | statement buffer, scan position, counters | Insert, Update, Delete, checkUnique, Close, TRUNCATE, AUTO_INCREMENT, scans | a failed statement leaves the transaction alone, unique indexes hold, a scan answers with the rows there are, generated keys are fresh |
| Derived keyspaces (`sqlledger/store.go`, `index.go`) | scan space `i`, secondary space `x`, marker `j` | commit's second write, reconcileScanSpace, rangeBounds | scans and lookups see exactly the ledger's rows |
| Catalog and DDL (`sqlledger/database.go`) | table definitions, next ids | CREATE, DROP, RENAME, indexes | catalog, memory, rows and entries agree after a crash anywhere |
| Codec (`sqlledger/codec.go`) | none | key and row encodings | key order equals byte order, rows round-trip |
| Encryption, errors, engine (`aead.go`, `errors.go`, `engine.go`) | none | sealing, wiring | not modelled |

**How they interact.** The SQL store calls the ledger under one mutex (`mu`):
PutBatch first, then a second WriteBatch to the same backend for the derived
keyspaces. The ledger is single-threaded and talks to the backend in whole
batches; Prune alone takes several. Readers of the SQL layer take the read lock
per chunk and per row, so statements of several sessions interleave between rows.

**What is hard.** A crash between two batches (inside Prune, between a commit's
two writes, inside the rebuild, between the chunks of a TRUNCATE or a restore); a
write that fails after memory has moved, or lands and reports an error; a prune that
fails half way and is tried again after more commits; blind deletion by the stale
index; the second fold of the history link at the same version; one pin for all
exports; readers (scans, forks, exports) whose lock or version is released between
two steps; optimistic transactions over a moving base; unique checks against an
index that other sessions change; a marker that vouches for a keyspace.
`PROJECT.json` lists each of them at its line, under `hazards`.

## Modules

| Module | Models | Kind |
|---|---|---|
| `SparseTree` | positions, records, and the result of folding a batch | pure operators |
| `LedgerStore` | the store: backend, memory, commits, crashes, pruning, history chain | component |
| `VersionedMap` | what the store promises: a map with history | abstract specification |
| `LedgerSnapshot` | `LedgerStore` with exporting callers that share the pin | composed |
| `LedgerRestore` | `LedgerStore` as a replica that a driver fills and stamps | composed |
| `CachedStore` | `LedgerStore` behind the node cache, with forks and unconfirmed writes | composed |
| `LedgerRollback` | `LedgerStore` with Open at an anchored version | composed |
| `MerkleTree` | what hashes and proofs stand for: binary ranges, root hash, proof, Verify | pure operators |
| `TreeFold`, `MerkleProof` | applySubtree; subtreeHash and the proving walk, as the code computes them (recursive) | algorithms against their references |
| `TreeDiff` | ChangesAt and its walk of two trees in lockstep | algorithm against its reference |
| `LedgerStoreProofs` | `LedgerStore`: types, pruning, erasure, immutability, pins | proofs |
| `LedgerReadProofs` | `LedgerStore`: reads, refinement of `VersionedMap`, the chain | proofs |
| `LedgerRestoreProofs` | `LedgerRestore`: chunks, the stamp, the replica and its source | proofs |
| `CachedStoreProofs` | `CachedStore` implements `LedgerStore`; cache, retries, forks | proofs |
| `SqlTxnProofs` | `SqlTxn`: transactions, uniqueness, the marker | proofs |
| `SqlTablesProofs` | `SqlTables`: catalog, keyspaces, ids, counters, TRUNCATE | proofs |
| `LedgerExportProofs` | what a store hands out: `LedgerSnapshot`, `TreeDiff`, `MerkleTree` | proofs |
| `SqlScanProofs` | `SqlScan`: order, completeness, races | proofs |
| `SqlTxn` | sessions, transactions, COMMIT, derived keyspaces, reconciliation | component |
| `SqlKeyspaceFailure` | `SqlTxn` with a failing keyspace write | composed |
| `SqlTables` | catalog, DDL, TRUNCATE, AUTO_INCREMENT, direct writes, reconciliation | component |
| `SqlScan` | scan iterators and the transaction overlay | component |
| `KeyCodec` | key and row codecs, index ranges | pure operators |
| `MC*` | constants for TLC, and the properties of the stateless codec | model checking |

`SqlTxn` and `SqlTables` model the same `commit` and `reconcileScanSpace` from two
sides: `SqlTxn` follows the values of the rows of one table, `SqlTables` the tables,
ids and counters, with rows that are only keys. `SqlScan` rests on what both show,
that a reader never sees ledger and keyspaces apart.

### SparseTree and TreeFold

A *content* maps paths to values. The hash of a subtree is modelled by the part of
the content below it: that is what `node.hash` commits to, and SHA-256 and HMAC
are taken to be collision free. Depth and arity are parameters. A *tree* adds the
version of each node record and each value record, which the hash does not cover.
`Apply` states what a fold returns: a position keeps its record exactly when its
subtree did not change.

`TreeFold` transcribes the recursion of the code (merge of a resident leaf,
splitting, collapse of a lone leaf, dropping of records that are only pending) and
`FoldAgrees` compares it with `Apply` and with the record sets that `Commit`
writes, from every reachable tree and for every batch, history link included. So
`LedgerStore` may commit by the declarative form, which is the form TLAPS can
reason about.

### LedgerStore

| Variable | Code |
|---|---|
| `recs`, `stale`, `roots`, `ckpt` | backend records `n` and `v`, `s`, `r`, `c` |
| `up`, `root`, `version`, `head`, `pin` | the `Store` value and its fields |
| `prune` | where a `Prune` call stands: its phase and its capped horizon |
| `lineage`, `horizon` | history variables: the tree of each version, the highest horizon pruned to |

Actions: `Create`, `OpenLatest`, `Crash`, `PutBatch`, `PinVersion`, `PruneStart`,
`RetainRecent`, `PruneStale` and `PruneRoots` (one chunk each), `PruneFails` (an
error from a scan or a write). A commit is one atomic write, as in `commitAcc`.
A batch that changes nothing is no step. `Create` is for a fresh backend, the way
`OpenOrCreate` uses it. Reads (`GetAt`, `GetFrom`) walk the records as `walk`
does, with every check of hash and kind, and return found, absent, missing or
corrupted. The fold reads through `Loadable`: a commit happens only if the nodes
it needs can be loaded. The node cache is not part of this module; it is
`CachedStore`'s subject.

### LedgerSnapshot, LedgerRestore, CachedStore

All three extend `LedgerStore`, whose actions they reuse unchanged.

*LedgerSnapshot.* A stream pins a version, calls `SnapshotLeaves` chunk by chunk,
resuming after its last path, and releases the pin. `collectLeaves` is modelled level by
level, as the set of its calls at each depth, with the resume bound each call still has;
a chunk is the first leaves in path order up to its size, or the failure of a load
before them. Streams overwrite and release each other's pin, as the single
field of the code lets them; the history variable `held` says whether a pin at or
below the stream's version was there all along.

*LedgerRestore.* The driver of a state transfer is not in the repository; it is taken
to hand over chunks in any order, some of them more than once, to stamp when the
roots agree, and to commit afterwards. `twin` is the source: it commits until the
replica is created, is exported as it is then, and after the stamp commits what the
replica commits. `rootVer` is the
version in `rootChild`, which a failing `StampVersion` leaves pointing at a record
that was never written: the store then refuses every commit until it is reopened.

*CachedStore.* `Seen` is what `loadNode` finds, the cached node before the record, and
`C == INSTANCE LedgerStore WITH recs <- Seen` reads through it. `UnconfirmedPut` is a
commit whose write lands although an error is returned; the caller then retries the
same batch or the process restarts. A fork's reads go to the current store, so
`torn` records whether one of them differed from the fork's base.

### MerkleTree, MerkleProof and TreeDiff

Hashes are terms here, not contents as in `SparseTree`. `MerkleTree` says what they
stand for: a path is a sequence of bits, `RangeHash` is the hash of the paths that share
their first bits, `ProofOf` the hashes beside the ranges around a path; `Verify` is the
code's. `MerkleProof` transcribes `subtreeHash` and `provePath` as they go through the
slots of nodes loaded from the records, and `ProofsComplete` compares them with
`RootHash` and `ProofOf`. `HashFaithful` is the step from terms to contents, on contents
that differ by a batch or by one leaf's path. Proofs offered to `Verify` include ones
made for other paths and versions, cut at either end, and with exchanged leaves.

`TreeDiff` models `diffChildren` level by level: the set of calls at each depth, each a
position with the two children there (a nil pointer is the empty set). A load that
fails makes the report that failure, whichever of several comes first.

### SqlTxn

One table with a primary key and one unique indexed column, over a ledger that
behaves as `VersionedMap`. A row is the value of the indexed column. `txn[s]` holds
the base version, the write set `buf` (per key the old row it is based on and the
new row), the savepoints, the statement buffer `stmt`, and the key whose unique
check is due: `checkUnique` takes the read lock itself, so other sessions may
commit between a row's buffering and its check. `Names` and `MaxTouched` bound the
savepoint names and the rows of each session. `lock` names the session between
the two writes of a commit; a crash may fall there. `ReconcileDrop` and
`ReconcileBuild` work one entry at a time, which is finer than the code's chunks, so
every state that a crash between chunks can leave is covered.

### SqlTables

`led` is the ledger's part (catalog, rows, counters), `mem` the copy of the catalog in
memory with a definition per id that survives the drop of its table, as the pointers
that statements hold do: `mem.name[i]` is the name in the `*tableDef` of id i. A statement
takes its `*tableDef` under a lock it has released when it runs, so the row statements,
TRUNCATE, the index statements and `SetAutoIncrementValue` run on any definition that the
process has had (`Handles`); CREATE, DROP and RENAME TABLE look the name up under the lock
they run with. An index statement writes its definition under `mem.name[i]`, whatever the
catalog has there by now. `half` holds the second write of a commit under way; `job` is
the TRUNCATE or DROP TABLE that keeps the lock over several commits. `Crash` may fall
between any two writes. `CloseDirect` is an editor without a session transaction: it
validates nothing and writes under the id it was opened with. `Insert` takes the value
handed out or an explicit one, and has the code's type switch: in the tables of `Narrow`
(columns of 8 and 16 bits) an explicit value leaves the counter alone. Three history
variables are not code: `lowered`, the rows that `SetAutoIncrementValue` set the counter
back to or below; `skipped`, the rows whose value the type switch passed over; both lose
the rows that the counter written by a commit is past. `late` holds the dropped tables
that this process still ran an index statement on.

### SqlScan and KeyCodec

An iterator reads a chunk of keys, then resolves each to its row; `OtherCommit` may
change any row between two of these reads. `space` is the keyspace that is scanned: the scan
space holds exactly the rows' keys, but an index may hold entries that stand for no row,
from the start (the rebuild after a crash leaves them, `sql_secondary`) or from a direct
writer that retracts the entry of a row it did not know. Entries are pairs in order; that
their encodings are in the same order is `KeyCodec`'s part. `always`, `ever`, `stale` (the
entries that at some moment stood for no row) and `moved` are history variables against
which the answers are judged. `KeyCodec` scales a byte to
`Base` values and a 64-bit word to two bytes, which keeps carries, sign flips,
terminators and 0xFF edges. Its properties need no state and are evaluated in one
initial state of the `sql_scan` run.

## Runs

| Run | Shows | Bounds |
|---|---|---|
| `ledger_store` | retained versions intact and readable, pruned ones erased, reopening, the chain, pins, immutability, Prune returns, the proof invariants, and refinement of `VersionedMap` | chained, 2 keys and the head leaf, 3 versions, chunks of 2 |
| `ledger_snapshot` | exports are exact; a protected one is served | unchained, 2 streams, 3 keys, 2 values, 2 versions, chunks of 1 leaf |
| `ledger_restore` | the replica follows its source, reopens, verifies, leaks at most one record | chained, sources of up to 2 commits, chunks of up to 2 leaves, 4 versions |
| `ledger_cache` | cache transparency, fork isolation, idempotent retry | unchained, 2 keys, 3 versions, capacities 0 and 2, prune chunks of 1 |
| `tree_algorithms` | fold, hash, proofs and diff equal their references | arity 4, depth 3, 3 keys and the head leaf, batches of 2, trees of up to 3 versions |
| `sql_txn` | no lost update, buffers based, uniqueness across transactions, marker sound | 2 sessions (one with 2 rows and a savepoint), 2 keys, 2 commits, 1 crash |
| `sql_scan` | scans complete, ordered and explained; codec order, ranges, round trips | 3 keys, 2 values, chunks of 2, 1 buffered row (`MaxBuffered`), 2 entries without a row (`MaxStale`), 1 commit of another session at any point (`MaxCommits`); bytes of 4 values |
| `sql_tables` | what of the catalog is durable, rows and entries in step, ids fresh, generated keys fresh but for the rows that the code leaves behind, TRUNCATE and DROP TABLE empty the table | 1 session with 1 buffered row, 2 table names, a wide and a narrow id (`Narrow`), 2 index names, 1 index id, 2 keys, counters set to 2 (`SetValues`), chunks of 1, 1 crash; `CountersApart` |
| `ledger_rollback` | **violated**: a rolled-back store's live tree is pruned | 2 keys, 3 versions |
| `sql_unique` | **violated**: two rows with one unique value | 2 sessions, 3 keys, 2 commits |
| `sql_secondary` | **violated**: secondary entries without a row survive the rebuild | 1 session, 1 crash |
| `sql_keyspace_failure` | **violated**: a lost keyspace write is vouched for | 1 session, 2 commits |

The bounds are chosen so that the cases happen. Keys that share prefixes of
different lengths make commits split a leaf, collapse a node and re-home a leaf.
Three versions leave a version below, at and above a horizon. Small chunks against
several marks, leaves or keys give full, short and empty chunks, and crashes between
them. With four slots a node has ranges of width 4, 2 and 1, so a leaf is alone in a
half as well as in a slot. Two sessions are enough for a conflict, since a COMMIT is
validated against the sum of what others did; the keyspaces change only under the
lock, so one session reaches their states in `sql_tables`, where its rows may also
outlive a drop of their table. Two ids under one name are a table and the one created
after its drop: the definition of the first is then a stale one. `CountersApart` stops
`sql_tables` where a row is not below its table's counter and an index exists: index
statements neither read nor change a counter, so the two are explored side by side. In
`sql_scan` one commit of another session falls at any point of the scan; the theorems
are for any number of commits. The unchained store is the easier case of
`ledger_store`; it runs in `ledger_snapshot` and `ledger_cache` and is covered by the
proofs.

**Fairness.** `FairSpec` assumes weak fairness of `PruneStale` and `PruneRoots`
only: a `Prune` call is a loop in its caller's thread, and the thread goes on.
Commits, crashes, pins and the start of a prune are never promised. A crash or an
error also ends the call.

**Deadlock** is checked except where the model stops at its bounds by design:
`tree_algorithms`, `ledger_snapshot`, `ledger_restore` and `ledger_cache` at the
version bound, `sql_scan` when the scan has ended.

**Mutants.** Each checked property has a mutated operator, placed before the one it
replaces and named in `PROJECT.json`, that reproduces a plausible slip (a mark one
version early, a prune one version too far, a cache not cleared, a full chunk taken
for the last one, a marker written before the rebuild) and breaks the property.

## Proofs

The theorems hold for every value of the constants: any arity, depth, keys, values,
chunk sizes, sessions, savepoints, names and ids, and any bound on versions and
crashes. Their only assumptions are the named `ASSUME`s of the modules (arity above
1, and a power of two where bits matter; positive depth and chunks, the history path is
no user path, sentinels are no values and no paths, a table has finitely many keys,
bounds are numbers), which TLC evaluates in the runs. The exception is marked below.

### LedgerStoreProofs

- `Invariance`: `IndInv` is an invariant (`TypeCorrect` follows);
- `PruneSafe`: no record of a retained version is deleted or altered;
- `EraseInvariance`: what only older versions use is marked, and a Prune phase ends
  only when its work is done;
- `ErasureSound`: when a Prune to the highest horizon returns, only the retained
  versions' records and root records are left;
- `Immutability`: records are written once;
- `PinSafe`: a pinned retained version stays retained.

*Argument.* `RetainedIntact` is not inductive: a prune deletes what the stale index
says, so the index must be right about the future. `StaleSafe` says that a mark
`<<s, k>>` names a record that is older than `s` and that no version from `s` on is
made of. A commit keeps it because it marks only what its new tree drops
(`CommitRefs`) and because a dropped record cannot come back: everything a commit
adds carries its own version (`ApplyRefs`), and no stored record is from the
future (`RecordsPast`). A prune deletes only marks at or below the horizon, so
nothing that a retained version uses. `CheckpointCurrent` and `RootsKept` tie the
checkpoint, the memory and the root records to the lineage across crashes. `IndInv`
is `CoreInv` with `RootsKept`; the lemmas are about `CoreInv` where they can be, and
the commit's is about any tree that `Succeeds` the current one, so that they also
serve a replica. The core
lemma is `KeptNode`: when a batch leaves the subtree at a position alone, the node
there is the same record, children's versions included; it rests on `SubAgree` and
`SubKid` about subtree hashes. For a chained commit the two passes are composed in
`CommitRefs`.

For erasure, `GarbageMarked` says that every record that the newest version does not
use carries the mark of the commit that retired it, and `PruneProgress` that a phase
is left only when it has no work; with `StaleSafe` the records left after a prune
are exactly the retained ones.

### LedgerReadProofs

- `ReadInvariance`, `ReadsSafe`: a read at a retained version returns what that
  version committed, below the horizon the same or KindMissing, and once a Prune has
  returned, KindMissing;
- `Refinement`: the store implements `VersionedMap`;
- `ChainInvariance`, `ReopenSafe`, `ChainSafe`: head leaves and root records are one
  chain, OpenLatest accepts what a crash leaves, VerifyHistory accepts from every
  retained version.

*Argument.* `ReadInv` adds to `IndInv` what a walk meets: a record that is still
there is the one the version wrote (`Truthful`), below the horizon too; and the root
node of version `w` carries version `w`, which is where `loadRootChild` looks for it.
`WalkAnswers` goes down the path from the leaf: at each position the walk returns
the truth, or KindMissing if a record on the way is gone. It is an induction over the
length of the position; the library's induction theorems cannot be instantiated by
the provers, so `SetInduction` derives the principle for sets of numbers from the
well-foundedness of `<` (`WFMin`), and the induction hypothesis is membership in a
set. `ChainRecomputes` uses it again for the rolling hash of VerifyHistory. For the
refinement, `ReadableIs` shows that what verified reads return is the user's part of
the lineage, and `StepRefines` that a commit appends to it, the start of a prune
forgets and every other step stutters.

The theorems about the chain have the hypothesis `LinksPresent`: HistoryLink
never yields the sentinel `Absent`. In the code a link is 32 bytes of SHA-256 and can
be no absent value; in the model the link is a parameter, so it has to be said.

### LedgerRestoreProofs

- `ReplicaInvariance`: a replica keeps a store's invariants through chunks, stamps,
  failed stamps, crashes and prunes;
- `StampSafe`: the durable content stays readable, whether StampVersion's write failed
  or not; `LeakSafe`: after a Prune at most one record is left over;
- `FollowInvariance`, `FollowSafe`, `ReplicaReopenSafe`, `AnchoredChainSafe` (under
  `LinksPresent`): the replica is its source from the stamp on, is opened again
  after a crash exactly if it is unchained, empty or has its head leaf, and verifies
  from the stamp onwards.

*Argument.* A replica is not a store of `LedgerStore`: StampVersion jumps over versions
that were never committed and leaves the old root node without a mark. So
`RootsKept` and `GarbageMarked` fail, but `CoreInv` and `ReadInv` do not. `RestampRefs`
shows why: a node's content holds its children's versions and not its own, so the
stamped tree is made of the old records except for the root node. `ReplicaInv`
states root records from the stamp on only, and marks for every record but one root
node (`Spares`). `FollowInv` needs three facts that the properties do not name: before the
stamp the replica's content is part of the source's, the cached head is always the
head leaf of the replica's own content (which is what makes the order of the chunks and a
crash between them harmless), and the links hold from the stamp on, where there is
no earlier version to link to.

### CachedStoreProofs

- `StoreInvariance`, `CacheRefinement`: in what it has made durable, the store with
  cache, forks and unconfirmed writes is a store of `LedgerStore`;
- `DurableSafe`: so it keeps retained records, erases and reads exactly;
- `CacheSafe`, `RetrySafe`, `ForkSafe`: reads through the cache are reads of the
  backend, a retry changes nothing in it, a sealable fork has read only its base.

*Argument.* After an unconfirmed write the memory is one version behind the backend.
The refinement mapping takes the write as done: version and root are the
checkpoint's, the head is the link that the retry will compute. Under it
`UnconfirmedPut` is a commit and the retry a stutter, because `UnsureInv` says that the
backend is where a commit of the same batch would take it, marks included
(`RetryIs`). Prunes in between are bounded by the version in memory, so they take
nothing of it back. The lemmas and theorems of `LedgerStoreProofs` and
`LedgerReadProofs` then apply to the durable store by INSTANCE. `CacheSound` says that
a cached node is the record of its key; it is inductive only because a prune
starts by clearing the cache and nothing is read while it runs. `NilAssumption` (nil is
no batch) makes `unsure = None` unambiguous.

### SqlTxnProofs

- `TxnInvariance`, and from it `MarkerSafe`, `NoUpdateLost` and `UniqueSafe`, the last
  two about the step in which a COMMIT writes the ledger.

*Argument.* COMMIT skips validation when nothing was committed since BEGIN. So the
invariant has to say that then the buffer is valid: the old row of every buffered key
is the committed one (`BuffersBased`) and no buffered value is that of a row under
another key (`ValuesClear`). It must say so of every savepoint, which ROLLBACK TO may
bring back, and of the statement folded into the buffer, which Close may make the
buffer, except for the row whose unique check is still due. `KeyspacesInv` follows the
keyspaces through the second write and the rebuild: in step except for the rows
being written. `Good` collects what is said of one transaction, so that each
statement's lemma concerns one record only.

### SqlTablesProofs

- `TablesInvariance`, and from it `CatalogSafe`, `InStepSafe`, `FreshSafe`,
  `AutoIncSafe` and, about the step in which the statement returns, `EmptiedSafe`.

*Argument.* The invariant is stated of the state a commit under way will settle in
(`Settled`): memory and keyspaces as they will be after the second write. `LedgerSound`
and `CopyOf` say that ids are below their counters and shared by no two tables or
indexes, dropped ones that a statement still refers to included; without the
dropped ones a late direct writer could enter rows under an id that a new index
has. Because index statements on dropped tables write definitions too, `LedgerSound`
speaks of every definition in the ledger (`Defined`), also those that the catalog does
not name, and `CopyOf` lets a name stand for a table in `late`; for the same reason rows
and entries are in step for every definition in memory (`HandlesInStep`), not only for
the tables served. After a crash only the named tables count (`InStepBut`), and a store
that opens has no other definitions (`LoadInStep`). `FreshIn` needs
`StatementsInv` (no buffer names an id that is not handed out).
`CountersInv` needs `CountersOf`: the counter in memory is past the rows inserted in
every buffer too, which become rows at Close. It leaves out, row by row, what
`SetAutoIncrementValue` and the type switch left behind (`Exempt`), until a commit of the
table writes a counter that is past the row.

### SqlScanProofs

- `ScanInvariant`, and from it `ScansAnswer` and `ScansFailInRacesOnly`: a scan answers in
  order, misses no row that was there all along, answers for no entry but those of rows and
  those an index kept without one, and, without a race, fails or repeats a row only over an
  entry of the latter kind.

*Argument.* `ScanAnswers` speaks of the end; on the way there, what is left of the
overlay, the chunk and the part of the space not read yet lie in this order behind what
was answered, and every entry that is due is in one of them (`ForwardInv`). Backwards
there are two stages: while the chunks are collected nothing is answered (`CollectInv`),
and once they are merged the answers lie behind what is left (`BackwardInv`).
`LivedThrough` ties the history variables to the table and the keyspace. A row answered
twice has two entries, so one of them stood for no row or the row changed: from `always`
and `ever` or, under a buffered key, `moved`. The lists of the model are finite sets in
order of rank, so the lemmas about them are about cardinalities (`FiniteSetTheorems`);
hence the assumption that a table has finitely many keys.

### LedgerExportProofs

Snapshots: `SnapshotsRefine`, `StreamInvariance`, `SnapshotsExact`, `PinnedStreamsServed`.
Change reports: `ChangesSafe`. Hashes and proofs: `VerifySound`, `VerifyComplete`,
`RootHashInjective`, and about a running store `HashSafe` and `ProofsSafe`.

*Snapshots.* The calls of `collectLeaves` that reach a leaf or a missing record partition
the leaves that follow the resume path (`Ends`), and a chunk is closed under going back
among them (`CollectsNext`); so the leaves of a stream are the first ones of its version's
content, in order (`StreamInv`), whatever happened between two chunks: a record that is
there is the one the version wrote (`ReadInv`). A load can fail only below the horizon, and
the pin keeps the horizon at or below a protected stream's version.

*Change reports.* The calls of `diffChildren` are exactly the positions where the two
trees differ (`DiffWalk`): they are closed downwards into the slots that differ and
upwards. So the leaf of a changed key is met on each side that has one (`ChangedMet`),
and a leaf that only moved, because another was inserted or removed beside it, is met on
both sides or on neither (`MovedMet`). The run has no prunes; the theorem covers them,
with KindMissing as the answer below the horizon.

*Hashes and proofs.* A fold that arrives at a root hash retraces, bit by bit, the hashes
of the ranges around the path (`FoldDown`): an internal hash tells its halves, and the
three kinds of hash are told apart. So it has started from the hash of what is in the
last range, and `Verify` can return nothing but what is there (`VerifySound`), for any
leaf and any siblings. Downwards, the fold of the hashes beside the path arrives at the
root (`FoldUp`), so the truth has a proof (`VerifyComplete`). Two contents with one root
hash accept each other's proofs and are therefore equal (`RootHashInjective`): this
justifies, for every depth and every arity that is a power of two, that `SparseTree`
takes a content for its hash. `BitsApart` rests on powers of two defined by doubling,
since the prover knows nothing of exponentiation.

`IndInv`, `EraseInv` and `TxnInv` are part of their runs. The other inductive invariants were
checked with TLC on the same instances by adding them as INVARIANTs: `CacheInv` to
`MCCachedStore.cfg`, `TablesInv` to `MCSqlTables.cfg`, `ReadInv` and `ChainInv` to
`MCLedgerStore.cfg`, `ReplicaInv` and `FollowInv` to `MCLedgerRestore.cfg`. `StreamInv` and
`ScanInv` are stated in the proof modules, so `MCLedgerSnapshot` and `MCSqlScan` have to extend
`LedgerExportProofs` and `SqlScanProofs` for that.

### Only model-checked

- `FoldAgrees` and `ProofsComplete`: `TreeFold` and `MerkleProof` transcribe the code's
  recursion with RECURSIVE operators, which the prover's arithmetic back end does not
  accept. What they are compared with (`Apply`, `RootHash`, `ProofOf`) is what the
  theorems are about.
- `KeyOrder`, `RangeServed` and `RowRoundTrip` of `KeyCodec`: induction over encoded data.
- Liveness of Prune: fairness and ENABLED are out of the prover's reach.

## Where the code and its comments disagree

1. **Rollback and prune** (`ledger_rollback`). `Open` at an older anchored version
   keeps the abandoned versions' stale marks; a later prune deletes live records.
2. **Unique index** (`sql_unique`), in two ways. A key that one transaction inserts and
   deletes again excuses, at COMMIT, the row that another session commits under it
   (`sqlledger/txn.go:355`); this is the trace TLC finds first. And in one transaction,
   DELETE of a value's row followed by two INSERTs of the value commits both
   (`sqlledger/table.go:543`); TLC reports it when `Sessions` has one element.
   `UniqueAcross` in `sql_txn` is what remains true: a COMMIT never takes a value of a
   row under a key that its transaction does not name.
3. **Secondary entries after a crash** (`sql_secondary`). The rebuild drops the scan
   space only. Scans of the index meet these entries (`ScanRaces`).
4. **A failed keyspace write** (`sql_keyspace_failure`). The next commit's marker
   hides it from every later Open.

Further observations, which the properties above state as they are or leave out:

- A scan may answer a row twice, or fail, when a row was committed while it ran, when the
  committed row under a buffered key changed, or over an index entry that stands for no
  row; `ScanRaces` says that nothing else makes it so.
- A restore into a chained store that crashes before the head leaf has arrived leaves
  a store that `OpenLatest` refuses (`ReplicaReopens` states exactly when). A failed
  `StampVersion` blocks commits until the store is reopened (`StampLosesNothing`), and a
  successful one leaves one root node without a stale mark (`LeakBounded`). It is also
  refused when the chunks made more versions than the source has.
- After an unconfirmed commit the same batch may be retried (`RetryIdempotent`); another
  batch instead would leave marks of the lost version, as in `ledger_rollback`.
- CREATE, DROP and RENAME INDEX use a definition that `GetTableInsensitive` took under a
  lock since released (`sqlledger/database.go:31-39`, 244, 331, 379). If the table was
  dropped and created again in between, `catalogOps` (315) writes the dropped table's
  definition under the name: the ledger names the old id, the running store serves the
  new one, and after a restart the table is the old, empty one. The ledger's root then
  does not attest the tables that are served, as README.md:99-100 has it ("Rows and the
  catalogue are ordinary ledger entries"): TLC refutes
  `LoadCatalog(led).tables = mem.tables` in `sql_tables`. `CatalogDurable` is what remains
  true: apart from such an index statement the two agree.
- "An explicitly supplied AUTO_INCREMENT value advances the counter"
  (`sqlledger/table.go:393`), but the type switch below it (400) has cases for 32 and 64
  bits only: a TINYINT or SMALLINT value leaves the counter, which later hands out the key
  of that row, and the insert is refused as a duplicate. And `SetAutoIncrementValue` may set
  a counter back, to or below rows that exist. `AutoIncFresh` names the rows of both kinds;
  it holds of all others, and of these from the next commit that writes a counter past them.

## Not modelled

Cryptography (AES-GCM, HMAC, SHA-256) is idealised. Pebble's own durability and its
NoSync mode are outside: `WriteBatch` is atomic and durable, and an error means that
nothing was written, except in `CachedStore`. Engine wiring and error texts carry no
protocol. Read-only transactions only refuse writes. Of the codec, Go type conversions
(`coerce`, narrowing), SQL type construction, datetimes outside the range of `UnixNano`
and negative zero (a key of its own, although SQL holds it equal to zero) are left out.

In `SqlTables` the unsynchronised reads of a definition while DDL replaces it are outside,
as are counters that wrap at 2^64, and DDL whose keyspace write returns an error.

## Plan

Done: `SparseTree`, `LedgerStore`; `TreeFold`, `MerkleTree`, `MerkleProof`, `TreeDiff`;
`VersionedMap`; `LedgerSnapshot`, `LedgerRestore`, `CachedStore`; `SqlTxn`, `SqlTables`,
`SqlScan`, `KeyCodec`; the proofs about `LedgerStore`, what it hands out, `LedgerRestore`,
`CachedStore`, `SqlTxn`, `SqlTables` and `SqlScan`.

Next, in this order:

1. The fold and the proving walk level by level, as `TreeDiff` is, so that `FoldAgrees` and
   `ProofsComplete` can be proved.
2. Keyspace writes that fail during DDL in `SqlTables`.

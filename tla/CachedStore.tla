----------------------------- MODULE CachedStore -----------------------------
(***************************************************************************)
(* The store of LedgerStore with the node cache of ledger/cache.go, the     *)
(* transaction forks of ledger/fork.go reading through it, and commits      *)
(* whose write lands although the backend reports an error.                 *)
(*                                                                         *)
(* Which entries the least-recently-used order evicts is left open.  After  *)
(* an unconfirmed commit the memory is one version behind the backend; the  *)
(* caller retries the same batch, or the process is restarted.              *)
(***************************************************************************)
EXTENDS LedgerStore

CONSTANT CacheSizes     \* capacities of the node cache, 0 to disable it

ASSUME CacheSizesAssumption == CacheSizes \subseteq Nat
ASSUME NilAssumption == None \notin Batches

VARIABLES
    cache,      \* nodeCache.m: a set of nodes with their keys
    capacity,   \* nodeCache.capacity
    unsure,     \* the batch whose write landed unconfirmed, or None
    fork        \* the open Fork, or NoFork

cvars == <<vars, cache, capacity, unsure, fork>>

\* torn is a history variable: a read of the fork differed from its base.
NoFork == [open |-> FALSE, version |-> 0, root |-> Placeholder,
           overlay |-> Placeholder, torn |-> FALSE]

CacheInit ==
    /\ Init
    /\ cache = {}
    /\ capacity \in CacheSizes
    /\ unsure = None
    /\ fork = NoFork

-----------------------------------------------------------------------------
(* The node cache.                                                          *)

\* The caches after get and put of the nodes in used: one node per key, and
\* an eviction only where there is no room.
Caches(c, used) ==
    LET all == used \cup {e \in c : \A f \in used : f.key # e.key}
    IN  {d \in SUBSET all : Cardinality(d) = Min({capacity, Cardinality(all)})}

\* What loadNode finds for a key: the cached node before the record.
Seen ==
    [k \in DOMAIN recs \cup {e.key : e \in cache} |->
        IF \E e \in cache : e.key = k
        THEN (CHOOSE e \in cache : e.key = k).node ELSE recs[k]]

C == INSTANCE LedgerStore WITH recs <- Seen

Entries(keys) == {[key |-> k, node |-> Seen[k]] : k \in keys}

NodeKeys(t, at) == {NodeKey(p, t.ver[p]) : p \in at}

\* The nodes a read of x at version w loads: down to the first that is gone.
LoadedBy(w, x) ==
    LET t == lineage[w]
    IN  NodeKeys(t, {p \in Positions(t.val) :
            Under(x, p) /\ \A i \in 0 .. Len(p) :
                NodeKey(SubSeq(p, 1, i), t.ver[SubSeq(p, 1, i)]) \in DOMAIN Seen})

\* The persisted nodes that the fold of upd into t loads.
FoldLoads(t, upd) ==
    NodeKeys(t, Loads(t, Apply(t, upd, version + 1), upd)) \cap DOMAIN Seen

\* GetAt, and Get when w is the current version.
Read(w, x) ==
    /\ Ready
    /\ w \in DOMAIN roots
    /\ cache' \in Caches(cache, Entries(LoadedBy(w, x)))
    /\ UNCHANGED <<vars, unsure, fork>>

\* PutBatch: once the write is confirmed the new nodes are cached too.  A
\* batch that follows an unconfirmed one is its retry.
CachedPut(upd) ==
    /\ unsure \in {None, upd}
    /\ PutBatch(upd)
    /\ \E t1 \in {lineage'[version']} :
         cache' \in Caches(cache, Entries(FoldLoads(lineage[version], upd)) \cup
             {[key |-> NodeKey(p, version'), node |-> NodeAt(t1, p)] :
                 p \in {q \in Positions(t1.val) : t1.ver[q] = version'}})
    /\ unsure' = None

\* Mutant of Landed: root record and checkpoint are written separately.
LandedPart(t, t1, v) ==
    LET written == {k \in Refs(t1) : k.ver = v}
    IN  /\ recs' = [k \in DOMAIN recs \cup written |->
                        IF k \in written THEN RecordOf(t1, k) ELSE recs[k]]
        /\ stale' = stale \cup {<<v, k>> : k \in Refs(t) \ Refs(t1)}
        /\ UNCHANGED <<roots, ckpt, lineage>>

\* The backend's half of a commit.
Landed(t, t1, v) ==
    LET written == {k \in Refs(t1) : k.ver = v}
    IN  /\ recs' = [k \in DOMAIN recs \cup written |->
                        IF k \in written THEN RecordOf(t1, k) ELSE recs[k]]
        /\ stale' = stale \cup {<<v, k>> : k \in Refs(t) \ Refs(t1)}
        /\ roots' = [w \in DOMAIN roots \cup {v} |->
                        IF w = v THEN t1.val ELSE roots[w]]
        /\ ckpt' = Checkpoint(t1.val, v)
        /\ lineage' = [w \in 0 .. v |-> IF w = v THEN t1 ELSE lineage[w]]

\* WriteBatch lands and returns an error: the memory does not swing, and the
\* cache is not warmed.
UnconfirmedPut(upd) ==
    /\ Ready
    /\ version < MaxVersion
    /\ unsure = None
    /\ LET t  == lineage[version]
           v  == version + 1
           t1 == Apply(t, upd, v)
       IN  /\ t1.val # t.val
           /\ Loadable(t, t1, upd)
           /\ Chained => Loadable(t1, WithLink(t1, v), Link(v))
           /\ Landed(t, WithLink(t1, v), v)
           /\ cache' \in Caches(cache, Entries(FoldLoads(t, upd)))
    /\ unsure' = upd
    /\ UNCHANGED <<memory, prune, horizon, fork>>

\* Mutant of CachedPrune: the cache is not cleared.
CachedPruneNoClear(before) ==
    /\ PruneStart(before)
    /\ UNCHANGED <<cache, unsure, fork>>

\* Prune clears the cache before it deletes.
CachedPrune(before) ==
    /\ PruneStart(before)
    /\ cache' = {}
    /\ UNCHANGED <<unsure, fork>>

\* OpenLatest loads the root node and the path of the head leaf.
CachedOpen ==
    /\ OpenLatest
    /\ cache' \in Caches({}, Entries(LoadedBy(ckpt.version, HistoryPath)))
    /\ UNCHANGED <<unsure, fork>>

\* SetCacheCapacity empties the cache.
SetCacheCapacity(n) ==
    /\ Ready
    /\ n # capacity
    /\ capacity' = n
    /\ cache' = {}
    /\ UNCHANGED <<vars, unsure, fork>>

CachedCrash == Crash /\ cache' = {} /\ unsure' = None /\ fork' = NoFork

-----------------------------------------------------------------------------
(* Forks.                                                                   *)

NewFork ==
    /\ Ready
    /\ ~fork.open
    /\ fork' = [NoFork EXCEPT !.open = TRUE, !.version = version, !.root = root]
    /\ UNCHANGED <<vars, cache, unsure>>

\* What Get of the fork returns: the overlay, then the store as it is now.
ForkView(x) ==
    IF x \in DOMAIN fork.overlay
    THEN IF fork.overlay[x] = Absent THEN NotFound ELSE Found(fork.overlay[x])
    ELSE C!GetFrom(root, version, x)

ForkGet(x) ==
    /\ Ready
    /\ fork.open
    /\ x \notin DOMAIN fork.overlay
    /\ cache' \in Caches(cache, Entries(LoadedBy(version, x)))
    /\ fork' = [fork EXCEPT !.torn = @ \/ ForkView(x) # Truth(fork.version, x)]
    /\ UNCHANGED <<vars, unsure>>

\* Put and Delete buffer; the bound on the overlay is the one on batches.
ForkPut(x, a) ==
    /\ fork.open
    /\ Cardinality(DOMAIN fork.overlay \cup {x}) =< MaxBatch
    /\ fork' = [fork EXCEPT !.overlay =
                  [y \in DOMAIN fork.overlay \cup {x} |->
                      IF y = x THEN a ELSE fork.overlay[y]]]
    /\ UNCHANGED <<vars, cache, unsure>>

\* Mutant of Sealable: only the root is compared.
SealableByRoot == fork.open /\ root = fork.root

\* Seal refuses when the store has moved.
Sealable == fork.open /\ root = fork.root /\ version = fork.version

\* RootAfter of the sealed fork (PreviewBatch, without the history link).
SealedRoot == Updated(root, fork.overlay)

\* Seal, then PutBatch of the sealed write set.
ForkCommit ==
    /\ Ready
    /\ Sealable
    /\ CachedPut(fork.overlay)
    /\ fork' = NoFork

ForkDrop ==
    /\ fork.open
    /\ fork' = NoFork
    /\ UNCHANGED <<vars, cache, unsure>>

-----------------------------------------------------------------------------
CacheStep ==
    \/ Create /\ UNCHANGED <<cache, unsure, fork>>
    \/ CachedOpen
    \/ CachedCrash
    \/ \E w \in DOMAIN roots, x \in Paths : Read(w, x)
    \/ \E upd \in Batches : CachedPut(upd) /\ UNCHANGED fork
    \/ \E upd \in Batches : UnconfirmedPut(upd)
    \/ \E before \in 0 .. MaxVersion : CachedPrune(before)
    \/ (PruneStale \/ PruneRoots \/ PruneFails) /\ UNCHANGED <<cache, unsure, fork>>
    \/ NewFork
    \/ \E x \in Paths : ForkGet(x)
    \/ \E x \in Paths, a \in Values \cup {Absent} : ForkPut(x, a)
    \/ ForkCommit
    \/ ForkDrop

CacheNext ==
    \/ CacheStep /\ UNCHANGED capacity
    \/ \E n \in CacheSizes : SetCacheCapacity(n)

CacheSpec == CacheInit /\ [][CacheNext]_cvars

-----------------------------------------------------------------------------
(* Properties.                                                              *)

\* Reading through the cache is reading the backend: no node outlives its
\* record in the cache, through prunes that stop half way, unconfirmed commits
\* and their retries ("keep deleted history from lingering", cache.go).
CacheTransparent ==
    Ready => \A w \in DOMAIN roots, x \in Paths : C!GetAt(w, x) = GetAt(w, x)

\* Retrying the batch of an unconfirmed commit changes nothing in the backend:
\* it writes the same records, marks and checkpoint again.
RetryIdempotent ==
    [][(unsure # None /\ unsure' = None /\ up') => backend' = backend]_cvars

\* While Seal would accept the fork, everything it has read is its base
\* state, also when the store was committed to and back meanwhile, and what it
\* reads is what the sealed root holds.
ForkIsolated ==
    (Ready /\ Sealable) =>
        /\ ~fork.torn
        /\ \A x \in Paths :
             ForkView(x) = IF x \in DOMAIN SealedRoot
                           THEN Found(SealedRoot[x]) ELSE NotFound
-----------------------------------------------------------------------------
(* The invariant behind them.                                               *)

\* A cached node is the record of its key, and a Prune call runs with an empty
\* cache.
CacheSound ==
    /\ \A e \in cache : e.key \in DOMAIN recs /\ recs[e.key] = e.node
    /\ prune.phase \in {"stale", "roots"} => cache = {}

\* The backend after an unconfirmed write is where a commit of the same batch
\* to the version in memory would take it, and a Prune call, which the version
\* in memory bounds, takes nothing of it back.
UnsureInv ==
    unsure # None =>
        LET v == version + 1
        IN  /\ up
            /\ unsure \in Batches
            /\ version \in Nat
            /\ ckpt = Checkpoint(lineage[v].val, v)
            /\ root = lineage[version].val
            /\ lineage[v] = WithLink(Apply(lineage[version], unsure, v), v)
            /\ horizon =< version
            /\ \A k \in Refs(lineage[version]) \ Refs(lineage[v]) : <<v, k>> \in stale

\* What is in the backend are functions.
IsFcn(f) == f = [x \in DOMAIN f |-> f[x]]

BackendFcns == IsFcn(recs) /\ IsFcn(roots) /\ IsFcn(lineage)

\* The version of a store only grows while a fork is open, so a read that does
\* not show the fork's base was made at a later version.
ForkInv ==
    /\ fork = [open |-> fork.open, version |-> fork.version, root |-> fork.root,
               overlay |-> fork.overlay, torn |-> fork.torn]
    /\ fork.open \in BOOLEAN /\ fork.torn \in BOOLEAN
    /\ fork.open =>
        /\ up
        /\ fork.version \in 0 .. version
        /\ fork.torn => fork.version < version
        /\ fork.overlay \in [DOMAIN fork.overlay -> Values \cup {Absent}]
        /\ DOMAIN fork.overlay \subseteq Paths
        /\ DOMAIN fork.overlay # {} => Cardinality(DOMAIN fork.overlay) =< MaxBatch

CacheInv == CacheSound /\ UnsureInv /\ BackendFcns /\ ForkInv
=============================================================================

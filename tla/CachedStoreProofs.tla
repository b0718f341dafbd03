-------------------------- MODULE CachedStoreProofs --------------------------
(***************************************************************************)
(* Proofs about CachedStore: the store with a cache, forks and commits that *)
(* the backend does not confirm is, in what it has made durable, a store of *)
(* LedgerStore, and reads through the cache and a fork are reads of it.     *)
(***************************************************************************)
EXTENDS CachedStore, TLAPS

\* The memory as it would be if every write that landed had been confirmed.
DurableVersion == IF unsure = None THEN version ELSE ckpt.version
DurableRoot    == IF unsure = None THEN root ELSE ckpt.root
DurableHead    == IF unsure = None \/ ~Chained THEN head
                  ELSE HistoryLink(head, root, version + 1)

D == INSTANCE LedgerReadProofs
        WITH version <- DurableVersion, root <- DurableRoot, head <- DurableHead

\* Seen through what is durable, the store is that of LedgerStore: unconfirmed
\* writes are its commits, and retries, reads and forks are invisible.
ImplementsStore == D!Spec

-----------------------------------------------------------------------------
(* The operators of the durable store that do not read its memory are those *)
(* of the store.                                                            *)

USE ArityAssumption, DepthAssumption, PathsAssumption, ValuesAssumption, NoneAssumption,
    ChainedAssumption, BoundsAssumption

\* The facts that the assumptions of the durable store stand for.
LEMMA SamePaths == D!Path = Path /\ D!Prefix = Prefix
BY DEF D!Path, Path, D!Prefix, Prefix, D!Nibbles, Nibbles

\* Batches.
LEMMA SameBatches == D!Batches = Batches
BY DEF D!Batches, Batches, D!Cardinality, Cardinality

\* Trees and their records.
LEMMA SameTrees ==
    /\ \A c : D!Positions(c) = Positions(c)
    /\ \A c, upd : D!Updated(c, upd) = Updated(c, upd)
    /\ \A t, upd, v : D!Apply(t, upd, v) = Apply(t, upd, v)
    /\ \A t : D!Refs(t) = Refs(t)
    /\ \A t, k : D!RecordOf(t, k) = RecordOf(t, k)
    /\ \A t, p : D!NodeAt(t, p) = NodeAt(t, p)
    /\ \A p, v : D!NodeKey(p, v) = NodeKey(p, v)
    /\ \A c, p : D!Sub(c, p) = Sub(c, p)
    /\ \A x, p : D!Under(x, p) = Under(x, p)
    /\ D!Placeholder = Placeholder /\ D!EmptyTree = EmptyTree
<1>1. \A c : D!Positions(c) = Positions(c)
  BY DEF D!Positions, Positions, D!Prefix, Prefix, D!Nibbles, Nibbles, D!Below, Below,
         D!Under, Under, D!Crowded, Crowded, D!Front, Front
<1>2. \A c, p : D!Sub(c, p) = Sub(c, p)
  BY DEF D!Sub, Sub, D!Restrict, Restrict, D!Below, Below, D!Under, Under
<1>3. \A c, upd : D!Updated(c, upd) = Updated(c, upd)
  BY DEF D!Updated, Updated
<1>4. \A t, upd, v : D!Apply(t, upd, v) = Apply(t, upd, v)
  BY DEF D!Apply, Apply, D!Updated, Updated, D!Sub, Sub, D!Restrict, Restrict,
         D!Positions, Positions, D!Prefix, Prefix, D!Nibbles, Nibbles, D!Below, Below,
         D!Under, Under, D!Crowded, Crowded, D!Front, Front
<1>5. \A t : D!Refs(t) = Refs(t)
  BY DEF D!Refs, Refs, D!NodeKey, NodeKey, D!ValueKey, ValueKey,
         D!Positions, Positions, D!Prefix, Prefix, D!Nibbles, Nibbles, D!Below, Below,
         D!Under, Under, D!Crowded, Crowded, D!Front, Front
<1>6. \A t, p : D!NodeAt(t, p) = NodeAt(t, p)
  BY DEF D!NodeAt, NodeAt, D!InternalNode, InternalNode, D!LeafNode, LeafNode,
         D!ChildRef, ChildRef, D!Kids, Kids, D!Sub, Sub, D!Restrict, Restrict,
         D!Nibbles, Nibbles, D!Below, Below, D!Under, Under, D!Crowded, Crowded
<1>7. \A t, k : D!RecordOf(t, k) = RecordOf(t, k)
  BY <1>6 DEF D!RecordOf, RecordOf
<1>8. \A x, p : D!Under(x, p) = Under(x, p)
  BY DEF D!Under, Under
<1>9. \A p, v : D!NodeKey(p, v) = NodeKey(p, v)
  BY DEF D!NodeKey, NodeKey
<1>10. D!Placeholder = Placeholder /\ D!EmptyTree = EmptyTree
  BY DEF D!Placeholder, Placeholder, D!EmptyTree, EmptyTree
<1> QED
  BY <1>1, <1>2, <1>3, <1>4, <1>5, <1>6, <1>7, <1>8, <1>9, <1>10

\* Verified reads.
LEMMA SameReads ==
    /\ \A k, h : D!LoadNode(k, h) = LoadNode(k, h)
    /\ \A r, v : D!LoadRootChild(r, v) = LoadRootChild(r, v)
    /\ \A r, v, x : D!GetFrom(r, v, x) = GetFrom(r, v, x)
    /\ \A w, x : D!Truth(w, x) = Truth(w, x)
<1>1. \A k, h : D!LoadNode(k, h) = LoadNode(k, h)
  BY DEF D!LoadNode, LoadNode, D!NodeHash, NodeHash, D!Missing, Missing, D!Found, Found,
         D!Corrupted, Corrupted
<1>2. \A r, v : D!LoadRootChild(r, v) = LoadRootChild(r, v)
  BY DEF D!LoadRootChild, LoadRootChild, D!NodeKey, NodeKey, D!Placeholder, Placeholder,
         D!LoadNode, LoadNode, D!NodeHash, NodeHash, D!Missing, Missing, D!Found, Found,
         D!Corrupted, Corrupted
<1>3. \A c, x : D!Walk(c, x) = Walk(c, x)
  BY DEF D!Walk, Walk, D!WalkStep, WalkStep, D!ReadValue, ReadValue, D!NodeKey, NodeKey,
         D!ValueKey, ValueKey, D!Descend, Descend, D!NotFound, NotFound,
         D!LoadNode, LoadNode, D!NodeHash, NodeHash, D!Missing, Missing, D!Found, Found,
         D!Corrupted, Corrupted
<1>4. \A r, v, x : D!GetFrom(r, v, x) = GetFrom(r, v, x)
  BY <1>2, <1>3 DEF D!GetFrom, GetFrom, D!Placeholder, Placeholder, D!NotFound, NotFound
<1>5. \A w, x : D!Truth(w, x) = Truth(w, x)
  BY DEF D!Truth, Truth, D!Found, Found, D!NotFound, NotFound
<1> QED
  BY <1>1, <1>2, <1>4, <1>5

-----------------------------------------------------------------------------
(* The steps, seen through what is durable.                                 *)

\* Between an unconfirmed write and its retry memory and backend differ, at no
\* other time.
LEMMA MemoryIs ==
    /\ unsure = None => DurableVersion = version /\ DurableRoot = root /\ DurableHead = head
    /\ unsure # None => DurableVersion = ckpt.version /\ DurableRoot = ckpt.root
    /\ (unsure = None)' => /\ DurableVersion' = version' /\ DurableRoot' = root'
                           /\ DurableHead' = head'
    /\ (unsure # None)' => DurableVersion' = ckpt'.version /\ DurableRoot' = ckpt'.root
BY DEF DurableVersion, DurableRoot, DurableHead

\* Steps that touch neither store nor batch.
LEMMA StutterRefines ==
    ASSUME UNCHANGED <<vars, unsure>>
    PROVE  UNCHANGED D!vars
BY DEF vars, backend, memory, ghosts, D!vars, D!backend, D!memory, D!ghosts,
       DurableVersion, DurableRoot, DurableHead

\* Create.
LEMMA CreateRefines ==
    ASSUME Create, unsure = None, unsure' = unsure
    PROVE  D!Create
<1>1. DurableVersion' = version' /\ DurableRoot' = root' /\ DurableHead' = head'
  BY MemoryIs
<1> QED
  BY <1>1, SameTrees DEF Create, D!Create, Created, D!Created, NoCheckpoint, D!NoCheckpoint,
                         Checkpoint, D!Checkpoint

\* OpenLatest.
LEMMA OpenRefines ==
    ASSUME OpenLatest, unsure = None, unsure' = unsure
    PROVE  D!OpenLatest
<1>1. DurableVersion' = version' /\ DurableRoot' = root' /\ DurableHead' = head'
  BY MemoryIs
<1>2. D!Opens(ckpt.root, ckpt.version) <=> Opens(ckpt.root, ckpt.version)
  BY SameReads DEF D!Opens, Opens, D!HistoryAgrees, HistoryAgrees
<1> QED
  BY <1>1, <1>2, SameTrees, SameReads
     DEF OpenLatest, D!OpenLatest, OpenAt, D!OpenAt, Created, D!Created, NoCheckpoint,
         D!NoCheckpoint, ghosts, D!ghosts, backend, D!backend

\* A crash, also with a write that was not confirmed.
LEMMA CrashRefines ==
    ASSUME Crash, unsure' = None
    PROVE  D!Crash
<1>1. DurableVersion' = version' /\ DurableRoot' = root' /\ DurableHead' = head'
  BY MemoryIs
<1> QED
  BY <1>1, SameTrees DEF Crash, D!Crash, Idle, D!Idle, ghosts, D!ghosts, backend, D!backend

\* Prune is called with a horizon that memory allows.
LEMMA PruneStartRefines ==
    ASSUME D!IndInv, UnsureInv, NEW before \in 0 .. MaxVersion, PruneStart(before),
           unsure' = unsure
    PROVE  D!PruneStart(before)
<1>1. D!Capped(before) = Capped(before)
  BY DEF D!Capped, Capped
<1>2. Capped(before) =< DurableVersion
  <2>1. CASE unsure = None
    BY <2>1, MemoryIs DEF PruneStart
  <2>2. CASE unsure # None
    <3>1. version \in Nat /\ DurableVersion = version + 1
      BY <2>2, MemoryIs DEF UnsureInv, Checkpoint
    <3>2. Capped(before) \in Nat
      BY DEF Capped, D!IndInv, D!CoreInv, D!TypeOK
    <3> QED
      BY <3>1, <3>2 DEF PruneStart
  <2> QED
    BY <2>1, <2>2
<1>3. /\ DurableVersion' = DurableVersion /\ DurableRoot' = DurableRoot
      /\ DurableHead' = DurableHead
  BY DEF PruneStart, memory, backend, DurableVersion, DurableRoot, DurableHead
<1> QED
  BY <1>1, <1>2, <1>3 DEF PruneStart, D!PruneStart, Ready, D!Ready, backend, D!backend,
                          memory, D!memory

\* The steps of a Prune call.
LEMMA PruneRefines ==
    ASSUME PruneStale \/ PruneRoots \/ PruneFails, unsure' = unsure
    PROVE  D!PruneStale \/ D!PruneRoots \/ D!PruneFails
<1>1. ckpt' = ckpt /\ UNCHANGED memory
  BY DEF PruneStale, PruneRoots, PruneFails, backend
<1>2. UNCHANGED D!memory
  BY <1>1 DEF memory, D!memory, DurableVersion, DurableRoot, DurableHead
<1>3. CASE PruneStale
  <2>1. D!PruneStale
    BY <1>2, <1>3 DEF PruneStale, D!PruneStale, IsChunk, D!IsChunk, StaleKeyLeq, D!StaleKeyLeq,
        After, D!After, Restrict, D!Restrict, Cardinality, D!Cardinality, ghosts, D!ghosts
  <2> QED
    BY <2>1
<1>4. CASE PruneRoots
  <2>1. D!PruneRoots
    BY <1>2, <1>4 DEF PruneRoots, D!PruneRoots, IsChunk, D!IsChunk,
        After, D!After, Restrict, D!Restrict, Cardinality, D!Cardinality, ghosts, D!ghosts
  <2> QED
    BY <2>1
<1>5. CASE PruneFails
  <2>1. D!PruneFails
    BY <1>2, <1>5 DEF PruneFails, D!PruneFails, Idle, D!Idle, ghosts, D!ghosts,
                      backend, D!backend
  <2> QED
    BY <2>1
<1> QED
  BY <1>3, <1>4, <1>5

\* The trees that a commit makes, of a store whose memory is durable.
LEMMA SameCommit ==
    ASSUME unsure = None
    PROVE  /\ \A t, v : D!WithLink(t, v) = WithLink(t, v)
           /\ \A t, t1, upd : D!Loadable(t, t1, upd) <=> Loadable(t, t1, upd)
           /\ \A v : D!Link(v) = Link(v)
           /\ \A h, r, v : D!HistoryLink(h, r, v) = HistoryLink(h, r, v)
<1>1. DurableVersion = version /\ DurableRoot = root /\ DurableHead = head
  BY MemoryIs
<1>2. \A h, r, v : D!HistoryLink(h, r, v) = HistoryLink(h, r, v)
  BY DEF D!HistoryLink, HistoryLink
<1>3. \A v : D!Link(v) = Link(v)
  BY <1>1, <1>2 DEF D!Link, Link
<1>4. \A t, v : D!WithLink(t, v) = WithLink(t, v)
  BY <1>3, SameTrees DEF D!WithLink, WithLink
<1>5. \A t, t1, upd : D!Loads(t, t1, upd) = Loads(t, t1, upd)
  BY SameTrees DEF D!Loads, Loads
<1>6. \A t, t1, upd : D!Loadable(t, t1, upd) <=> Loadable(t, t1, upd)
  BY <1>1, <1>5, SameTrees, SameReads DEF D!Loadable, Loadable
<1> QED
  BY <1>2, <1>3, <1>4, <1>6

\* A commit that is confirmed.
LEMMA PutRefines ==
    ASSUME unsure = None, unsure' = None, NEW upd, PutBatch(upd)
    PROVE  D!PutBatch(upd)
<1> DEFINE t  == lineage[version]
           v  == version + 1
           t1 == WithLink(Apply(t, upd, v), v)
<1>1. /\ DurableVersion = version /\ DurableRoot = root /\ DurableHead = head
      /\ DurableVersion' = version' /\ DurableRoot' = root' /\ DurableHead' = head'
  BY MemoryIs
<1>2. Commit(t, t1, v) => D!Commit(t, t1, v)
  BY <1>1, SameTrees DEF Commit, D!Commit, Checkpoint, D!Checkpoint
<1>3. D!Commit(t, t1, v)
  BY <1>2 DEF PutBatch
<1> QED
  BY <1>1, <1>3, SameTrees, SameCommit DEF PutBatch, D!PutBatch, Ready, D!Ready

\* A commit whose write lands unconfirmed is a commit.
LEMMA UnconfirmedRefines ==
    ASSUME NEW upd \in Batches, UnconfirmedPut(upd)
    PROVE  D!PutBatch(upd)
<1> DEFINE t  == lineage[version]
           v  == version + 1
           t1 == WithLink(Apply(t, upd, v), v)
<1>1. unsure = None /\ unsure' = upd /\ upd # None
  BY NilAssumption DEF UnconfirmedPut
<1>2. DurableVersion = version /\ DurableRoot = root /\ DurableHead = head
  BY <1>1, MemoryIs
<1>3. Landed(t, t1, v) /\ up' = up /\ root' = root /\ version' = version /\ head' = head
      /\ pin' = pin
  BY DEF UnconfirmedPut, memory
<1>4. ckpt' = Checkpoint(t1.val, v)
  BY <1>3 DEF Landed
<1>5. DurableVersion' = v /\ DurableRoot' = t1.val
  BY <1>1, <1>4, MemoryIs DEF Checkpoint
<1>6. DurableHead' = IF Chained THEN HistoryLink(head, root, v) ELSE head
  BY <1>1, <1>3 DEF DurableHead, HistoryLink
<1>7. D!Commit(t, t1, v)
  BY <1>3, <1>5, SameTrees DEF Landed, D!Commit, Checkpoint, D!Checkpoint
<1> HIDE DEF t1
<1> QED
  BY <1>1, <1>2, <1>3, <1>6, <1>7, SameTrees, SameCommit
     DEF UnconfirmedPut, D!PutBatch, Ready, D!Ready, t1

\* The invariant of the durable store and of what lies above it.
StoreInv == D!IndInv /\ D!ReadInv /\ CacheInv

\* The version in memory is a retained one, also when it is one behind.
LEMMA MemoryVersion ==
    ASSUME D!IndInv, UnsureInv, up
    PROVE  /\ version \in Nat /\ version >= horizon /\ horizon \in Nat
           /\ root = lineage[version].val
           /\ ckpt.version = IF unsure = None THEN version ELSE version + 1
           /\ D!Committed = 0 .. ckpt.version /\ version \in D!Committed
           /\ version \in D!Retained
           /\ DOMAIN lineage = D!Committed
           /\ IsTree(lineage[version], version)
<1>1. /\ ckpt.version \in Nat /\ horizon \in Nat
      /\ D!Committed = 0 .. ckpt.version /\ DOMAIN lineage = D!Committed
      /\ ckpt.root = lineage[ckpt.version].val /\ horizon =< ckpt.version
      /\ DurableVersion = ckpt.version /\ DurableRoot = ckpt.root
  BY DEF D!IndInv, D!CoreInv, D!TypeOK, D!CheckpointCurrent, D!Committed
<1>2. /\ version \in Nat /\ version >= horizon
      /\ root = lineage[version].val
      /\ ckpt.version = IF unsure = None THEN version ELSE version + 1
  BY <1>1, MemoryIs DEF UnsureInv, Checkpoint
<1>3. D!IsTree(lineage[version], version)
  BY <1>1, <1>2 DEF D!IndInv, D!CoreInv, D!CheckpointCurrent
<1>4. IsTree(lineage[version], version)
  BY <1>3, SamePaths, SameTrees DEF D!IsTree, IsTree
<1> QED
  BY <1>1, <1>2, <1>4 DEF D!Retained

\* The retry of a batch whose write has landed finds everything in place.
LEMMA RetryIs ==
    ASSUME StoreInv, unsure # None, PutBatch(unsure)
    PROVE  /\ backend' = backend /\ lineage' = lineage
           /\ version' = ckpt.version /\ root' = ckpt.root
           /\ head' = IF Chained THEN HistoryLink(head, root, version + 1) ELSE head
<1> DEFINE t  == lineage[version]
           v  == version + 1
           t1 == lineage[v]
           W  == {k \in Refs(t1) : k.ver = v}
<1>1. /\ up /\ version \in Nat /\ ckpt = Checkpoint(t1.val, v)
      /\ t1 = WithLink(Apply(t, unsure, v), v) /\ horizon =< version
      /\ \A k \in Refs(t) \ Refs(t1) : <<v, k>> \in stale
  BY DEF StoreInv, CacheInv, UnsureInv
<1>2. IsFcn(recs) /\ IsFcn(roots) /\ IsFcn(lineage)
  BY DEF StoreInv, CacheInv, BackendFcns
<1>3. ckpt.version = v /\ DOMAIN lineage = 0 .. v /\ horizon \in Nat
  BY <1>1, MemoryVersion DEF StoreInv, CacheInv
<1>4. v \in D!Retained
  BY <1>1, <1>3 DEF D!Retained, D!Committed
<1>5. \A k \in Refs(t1) : k \in DOMAIN recs /\ recs[k] = RecordOf(t1, k)
  BY <1>4, SameTrees DEF StoreInv, D!IndInv, D!CoreInv, D!RetainedIntact
<1>6. v \in DOMAIN roots /\ roots[v] = t1.val
  BY <1>4 DEF StoreInv, D!IndInv, D!CoreInv, D!RootsKept, D!HasRoot
<1>7. /\ Commit(t, t1, v)
      /\ head' = IF Chained THEN HistoryLink(head, root, v) ELSE head
  BY <1>1 DEF PutBatch
<1> HIDE DEF t, t1
<1>8. recs' = recs
  <2>1. recs' = [k \in DOMAIN recs \cup W |-> IF k \in W THEN RecordOf(t1, k) ELSE recs[k]]
    BY <1>7 DEF Commit
  <2>2. \A k \in DOMAIN recs : (IF k \in W THEN RecordOf(t1, k) ELSE recs[k]) = recs[k]
    BY <1>5
  <2>3. DOMAIN recs \cup W = DOMAIN recs
    BY <1>5
  <2>4. recs' = [k \in DOMAIN recs |-> recs[k]]
    BY <2>1, <2>2, <2>3
  <2> QED
    BY <1>2, <2>4 DEF IsFcn
<1>9. stale' = stale
  BY <1>1, <1>7 DEF Commit
<1>10. roots' = roots
  <2>1. roots' = [w \in DOMAIN roots |-> roots[w]]
    BY <1>6, <1>7 DEF Commit
  <2> QED
    BY <1>2, <2>1 DEF IsFcn
<1>11. lineage' = lineage
  <2>1. lineage' = [w \in DOMAIN lineage |-> lineage[w]]
    BY <1>3, <1>7 DEF Commit, t1
  <2> QED
    BY <1>2, <2>1 DEF IsFcn
<1>12. ckpt' = ckpt /\ version' = ckpt.version /\ root' = ckpt.root
  BY <1>1, <1>7 DEF Commit, Checkpoint
<1> QED
  BY <1>7, <1>8, <1>9, <1>10, <1>11, <1>12 DEF backend

\* ... so that nothing durable changes.
LEMMA RetryRefines ==
    ASSUME StoreInv, unsure # None, PutBatch(unsure), unsure' = None
    PROVE  UNCHANGED D!vars
<1>1. /\ backend' = backend /\ lineage' = lineage
      /\ version' = ckpt.version /\ root' = ckpt.root
      /\ head' = IF Chained THEN HistoryLink(head, root, version + 1) ELSE head
  BY RetryIs
<1>2. UNCHANGED <<up, pin, prune, horizon>>
  BY DEF PutBatch
<1>3. /\ DurableVersion' = DurableVersion /\ DurableRoot' = DurableRoot
      /\ DurableHead' = DurableHead
  BY <1>1 DEF DurableVersion, DurableRoot, DurableHead
<1> QED
  BY <1>1, <1>2, <1>3 DEF D!vars, D!backend, D!memory, D!ghosts, backend

\* A commit: a new one or a retry.
LEMMA CachedPutRefines ==
    ASSUME StoreInv, NEW upd \in Batches, CachedPut(upd)
    PROVE  D!PutBatch(upd) \/ UNCHANGED D!vars
BY PutRefines, RetryRefines DEF CachedPut

\* The write set of a fork that a commit takes is a batch: an empty one would
\* change nothing.
LEMMA OverlayIsBatch ==
    ASSUME StoreInv, fork.open, PutBatch(fork.overlay)
    PROVE  fork.overlay \in Batches
<1> DEFINE o == fork.overlay
           c == lineage[version].val
<1>1. /\ up /\ o \in [DOMAIN o -> Values \cup {Absent}] /\ DOMAIN o \subseteq Paths
      /\ DOMAIN o # {} => Cardinality(DOMAIN o) =< MaxBatch
  BY DEF StoreInv, CacheInv, ForkInv
<1>2. Updated(c, o) # c
  BY DEF PutBatch, Apply
<1>3. c = [x \in DOMAIN c |-> c[x]]
  <2>1. version \in D!Committed
    BY <1>1, MemoryVersion DEF StoreInv, CacheInv
  <2> QED
    BY <2>1 DEF StoreInv, D!ReadInv, D!IsVersion
<1> HIDE DEF o, c
<1>4. DOMAIN o # {}
  <2> SUFFICES ASSUME DOMAIN o = {} PROVE FALSE
    OBVIOUS
  <2>1. Updated(c, o) = [x \in DOMAIN c |-> c[x]]
    BY DEF Updated
  <2> QED
    BY <1>2, <1>3, <2>1
<1> QED
  BY <1>1, <1>4 DEF Batches, o

\* Every step of the store is a step of the durable one, or none.
LEMMA CacheStepRefines ==
    ASSUME StoreInv, [CacheNext]_cvars
    PROVE  [D!Next]_(D!vars)
<1>0. D!IndInv /\ UnsureInv /\ (unsure # None => up)
  BY DEF StoreInv, CacheInv, UnsureInv
<1>1. CASE UNCHANGED <<vars, unsure>>
  BY <1>1, StutterRefines
<1>2. CASE Create /\ UNCHANGED unsure
  BY <1>0, <1>2, CreateRefines DEF Create, D!Next
<1>3. CASE CachedOpen
  <2>1. OpenLatest /\ unsure = None /\ unsure' = unsure
    BY <1>0, <1>3 DEF CachedOpen, OpenLatest, OpenAt
  <2> QED
    BY <2>1, OpenRefines DEF D!Next
<1>4. CASE CachedCrash
  BY <1>4, CrashRefines DEF CachedCrash, D!Next
<1>5. ASSUME NEW upd \in Batches, CachedPut(upd) PROVE [D!Next]_(D!vars)
  BY <1>5, CachedPutRefines, SameBatches DEF D!Next
<1>6. ASSUME NEW upd \in Batches, UnconfirmedPut(upd) PROVE [D!Next]_(D!vars)
  BY <1>6, UnconfirmedRefines, SameBatches DEF D!Next
<1>7. ASSUME NEW before \in 0 .. MaxVersion, CachedPrune(before) PROVE [D!Next]_(D!vars)
  BY <1>0, <1>7, PruneStartRefines DEF CachedPrune, D!Next
<1>8. CASE (PruneStale \/ PruneRoots \/ PruneFails) /\ UNCHANGED unsure
  BY <1>8, PruneRefines DEF D!Next
<1>9. CASE ForkCommit
  <2>1. fork.open /\ CachedPut(fork.overlay)
    BY <1>9 DEF ForkCommit, Sealable
  <2>2. fork.overlay \in Batches
    BY <2>1, OverlayIsBatch DEF CachedPut
  <2> QED
    BY <1>5, <2>1, <2>2
<1>10. CASE CacheStep
  BY <1>1, <1>2, <1>3, <1>4, <1>5, <1>6, <1>7, <1>8, <1>9, <1>10
     DEF CacheStep, Read, NewFork, ForkGet, ForkPut, ForkDrop
<1>11. CASE UNCHANGED cvars
  BY <1>1, <1>11 DEF cvars
<1>12. CASE \E n \in CacheSizes : SetCacheCapacity(n)
  BY <1>1, <1>12 DEF SetCacheCapacity
<1> QED
  BY <1>10, <1>11, <1>12 DEF CacheNext

-----------------------------------------------------------------------------
(* The node cache.                                                          *)

\* A cache of records shows the records.
LEMMA SeenIs ==
    ASSUME IsFcn(recs), \A e \in cache : e.key \in DOMAIN recs /\ recs[e.key] = e.node
    PROVE  Seen = recs
<1> DEFINE N(k) == IF \E e \in cache : e.key = k
                   THEN (CHOOSE e \in cache : e.key = k).node ELSE recs[k]
<1>1. DOMAIN recs \cup {e.key : e \in cache} = DOMAIN recs
  OBVIOUS
<1>2. Seen = [k \in DOMAIN recs |-> N(k)]
  BY <1>1 DEF Seen
<1>3. ASSUME NEW k \in DOMAIN recs PROVE N(k) = recs[k]
  <2>1. CASE \E e \in cache : e.key = k
    <3> DEFINE f == CHOOSE e \in cache : e.key = k
    <3>1. f \in cache /\ f.key = k
      BY <2>1
    <3>2. N(k) = f.node
      BY <2>1
    <3> HIDE DEF f, N
    <3> QED
      BY <3>1, <3>2
  <2> QED
    BY <2>1
<1> HIDE DEF N
<1>4. Seen = [k \in DOMAIN recs |-> recs[k]]
  BY <1>2, <1>3
<1> QED
  BY <1>4 DEF IsFcn

\* What a read puts into the cache are records.
LEMMA LoadedSound ==
    ASSUME StoreInv, NEW w, NEW x
    PROVE  \A e \in Entries(LoadedBy(w, x)) : e.key \in DOMAIN recs /\ recs[e.key] = e.node
<1>1. Seen = recs
  BY SeenIs DEF StoreInv, CacheInv, CacheSound, BackendFcns
<1> DEFINE t == lineage[w]
<1>2. SUFFICES ASSUME NEW k \in LoadedBy(w, x) PROVE k \in DOMAIN Seen
  BY <1>1 DEF Entries
<1>3. PICK p \in Positions(t.val) :
        /\ k = NodeKey(p, t.ver[p])
        /\ \A i \in 0 .. Len(p) :
              NodeKey(SubSeq(p, 1, i), t.ver[SubSeq(p, 1, i)]) \in DOMAIN Seen
  BY <1>2 DEF LoadedBy, NodeKeys
<1>4. p \in Seq(Nibbles)
  BY SamePaths, D!PrefixSeq DEF Positions, D!Nibbles, Nibbles, D!Path, Path
<1>5. SubSeq(p, 1, Len(p)) = p /\ Len(p) \in 0 .. Len(p)
  BY <1>4
<1> HIDE DEF t
<1> QED
  BY <1>3, <1>5

\* ... and so is what a fold reads.
LEMMA FoldSound ==
    ASSUME StoreInv, NEW t, NEW upd
    PROVE  \A e \in Entries(FoldLoads(t, upd)) : e.key \in DOMAIN recs /\ recs[e.key] = e.node
<1>1. Seen = recs
  BY SeenIs DEF StoreInv, CacheInv, CacheSound, BackendFcns
<1> QED
  BY <1>1 DEF Entries, FoldLoads

\* An update of the cache keeps some of what is there and of what is new.
LEMMA CachesWithin ==
    ASSUME NEW c, NEW used, NEW d \in Caches(c, used)
    PROVE  d \subseteq c \cup used
BY DEF Caches

\* A commit, confirmed or not, keeps the records there are, and the backend
\* stays a collection of functions.
LEMMA WriteKeeps ==
    ASSUME StoreInv, up, NEW upd \in Batches,
           unsure = None \/ unsure = upd,
           LET t == lineage[version]
               v == version + 1
           IN  Landed(t, WithLink(Apply(t, upd, v), v), v)
    PROVE  /\ BackendFcns'
           /\ \A k \in DOMAIN recs : k \in DOMAIN recs' /\ recs'[k] = recs[k]
           /\ lineage'[version + 1] =
                WithLink(Apply(lineage[version], upd, version + 1), version + 1)
           /\ lineage'[version] = lineage[version]
           /\ \A k \in Refs(lineage'[version + 1]) : k.ver = version + 1 =>
                k \in DOMAIN recs' /\ recs'[k] = RecordOf(lineage'[version + 1], k)
<1> DEFINE t  == lineage[version]
           v  == version + 1
           t1 == WithLink(Apply(t, upd, v), v)
           W  == {k \in Refs(t1) : k.ver = v}
<1>1. /\ recs' = [k \in DOMAIN recs \cup W |-> IF k \in W THEN RecordOf(t1, k) ELSE recs[k]]
      /\ roots' = [w \in DOMAIN roots \cup {v} |-> IF w = v THEN t1.val ELSE roots[w]]
      /\ lineage' = [w \in 0 .. v |-> IF w = v THEN t1 ELSE lineage[w]]
  BY DEF Landed
<1>2. version \in Nat /\ ckpt.version = IF unsure = None THEN version ELSE v
  BY MemoryVersion DEF StoreInv, CacheInv
<1>3. lineage'[v] = t1 /\ lineage'[version] = lineage[version]
  BY <1>1, <1>2
<1>4. \A k \in DOMAIN recs : k \in W => recs[k] = RecordOf(t1, k)
  <2>1. CASE unsure = None
    <3>1. \A k \in DOMAIN recs : k.ver \in 0 .. version
      BY <1>2, <2>1 DEF StoreInv, D!IndInv, D!CoreInv, D!RecordsPast, D!Committed
    <3> QED
      BY <1>2, <3>1
  <2>2. CASE unsure # None
    <3>1. /\ t1 = lineage[v] /\ horizon =< version
      BY <2>2 DEF StoreInv, CacheInv, UnsureInv
    <3>2. v \in D!Retained
      <4>1. horizon \in Nat
        BY DEF StoreInv, D!IndInv, D!CoreInv, D!TypeOK
      <4> QED
        BY <1>2, <2>2, <3>1, <4>1 DEF D!Retained, D!Committed
    <3>3. \A k \in Refs(lineage[v]) : recs[k] = RecordOf(lineage[v], k)
      BY <3>2, SameTrees DEF StoreInv, D!IndInv, D!CoreInv, D!RetainedIntact
    <3> QED
      BY <3>1, <3>3
  <2> QED
    BY <2>1, <2>2
<1> HIDE DEF t, t1, W
<1>5. \A k \in DOMAIN recs : k \in DOMAIN recs' /\ recs'[k] = recs[k]
  BY <1>1, <1>4
<1>6. \A k \in W : k \in DOMAIN recs' /\ recs'[k] = RecordOf(t1, k)
  BY <1>1
<1>7. IsFcn(recs') /\ IsFcn(roots') /\ IsFcn(lineage')
  BY <1>1 DEF IsFcn
<1>8. BackendFcns'
  BY <1>7 DEF BackendFcns, IsFcn
<1> QED
  BY <1>3, <1>5, <1>6, <1>8 DEF t, t1, W

\* What a step that leaves the store alone owes.
LEMMA QuietKeeps ==
    ASSUME StoreInv, UNCHANGED <<vars, unsure>>, ForkInv',
           \A e \in cache' : e.key \in DOMAIN recs /\ recs[e.key] = e.node,
           prune.phase \in {"stale", "roots"} => cache' = {}
    PROVE  CacheInv'
<1>1. /\ recs' = recs /\ stale' = stale /\ roots' = roots /\ ckpt' = ckpt /\ up' = up
      /\ root' = root /\ version' = version /\ head' = head /\ pin' = pin /\ prune' = prune
      /\ lineage' = lineage /\ horizon' = horizon /\ unsure' = unsure
  BY DEF vars, backend, memory, ghosts
<1>2. CacheSound'
  BY <1>1 DEF CacheSound
<1>3. UnsureInv'
  <2>1. \A t, v : WithLink(t, v)' = WithLink(t, v)
    BY <1>1 DEF WithLink, Link
  <2> QED
    BY <1>1, <2>1 DEF StoreInv, CacheInv, UnsureInv, WithLink, Link
<1>4. BackendFcns'
  BY <1>1 DEF StoreInv, CacheInv, BackendFcns, IsFcn
<1> QED
  BY <1>2, <1>3, <1>4 DEF CacheInv

\* Reads through a cache that shows the records are reads of the records.
LEMMA CachedReads ==
    ASSUME Seen = recs
    PROVE  \A r, v, x : C!GetFrom(r, v, x) = GetFrom(r, v, x)
<1>1. \A r, v : C!LoadRootChild(r, v) = LoadRootChild(r, v)
  BY DEF C!LoadRootChild, LoadRootChild, C!NodeKey, NodeKey, C!Placeholder, Placeholder,
         C!LoadNode, LoadNode, C!NodeHash, NodeHash, C!Missing, Missing, C!Found, Found,
         C!Corrupted, Corrupted
<1>2. \A c, x : C!Walk(c, x) = Walk(c, x)
  BY DEF C!Walk, Walk, C!WalkStep, WalkStep, C!ReadValue, ReadValue, C!NodeKey, NodeKey,
         C!ValueKey, ValueKey, C!Descend, Descend, C!NotFound, NotFound,
         C!LoadNode, LoadNode, C!NodeHash, NodeHash, C!Missing, Missing, C!Found, Found,
         C!Corrupted, Corrupted
<1> QED
  BY <1>1, <1>2 DEF C!GetFrom, GetFrom, C!Placeholder, Placeholder, C!NotFound, NotFound

\* Get at the version in memory returns what that version committed.
LEMMA CurrentReads ==
    ASSUME StoreInv, up, NEW x \in Paths
    PROVE  C!GetFrom(root, version, x) = Truth(version, x)
<1>1. Seen = recs
  BY SeenIs DEF StoreInv, CacheInv, CacheSound, BackendFcns
<1>2. /\ version \in D!Committed /\ version \in D!Retained /\ root = lineage[version].val
  BY MemoryVersion DEF StoreInv, CacheInv
<1>3. x \in D!AllPaths
  BY DEF D!AllPaths
<1>4. D!GetFrom(lineage[version].val, version, x) = D!Truth(version, x)
  BY <1>2, <1>3, SamePaths, D!ReadsAnswer DEF StoreInv, D!IndInv
<1> QED
  BY <1>1, <1>2, <1>4, CachedReads, SameReads

\* Reads and the steps of a fork, and a change of the capacity.
LEMMA ReadKeeps ==
    ASSUME StoreInv, NEW w, NEW x, Read(w, x)
    PROVE  CacheInv'
<1>1. /\ Ready /\ UNCHANGED <<vars, unsure>> /\ fork' = fork
      /\ cache' \subseteq cache \cup Entries(LoadedBy(w, x))
  BY CachesWithin DEF Read
<1>2. ForkInv'
  BY <1>1 DEF StoreInv, CacheInv, ForkInv, vars, memory
<1>3. \A e \in cache' : e.key \in DOMAIN recs /\ recs[e.key] = e.node
  BY <1>1, LoadedSound DEF StoreInv, CacheInv, CacheSound
<1> QED
  BY <1>1, <1>2, <1>3, QuietKeeps DEF Ready

\* A change of the capacity empties the cache.
LEMMA SetCapacityKeeps ==
    ASSUME StoreInv, NEW n, SetCacheCapacity(n)
    PROVE  CacheInv'
<1>1. UNCHANGED <<vars, unsure>> /\ fork' = fork /\ cache' = {}
  BY DEF SetCacheCapacity
<1>2. ForkInv'
  BY <1>1 DEF StoreInv, CacheInv, ForkInv, vars, memory
<1> QED
  BY <1>1, <1>2, QuietKeeps

\* A fork opens with an empty overlay at the version in memory.
LEMMA NewForkKeeps ==
    ASSUME StoreInv, NewFork
    PROVE  CacheInv'
<1>1. /\ up /\ UNCHANGED <<vars, unsure>> /\ cache' = cache
      /\ fork' = [NoFork EXCEPT !.open = TRUE, !.version = version, !.root = root]
  BY DEF NewFork, Ready
<1>2. version \in Nat
  BY <1>1, MemoryVersion DEF StoreInv, CacheInv
<1>3. Placeholder \in [{} -> Values \cup {Absent}] /\ DOMAIN Placeholder = {}
  BY DEF Placeholder
<1>4. fork' = [open |-> TRUE, version |-> version, root |-> root,
               overlay |-> Placeholder, torn |-> FALSE]
  BY <1>1 DEF NoFork
<1>5. up' = up /\ version' = version
  BY <1>1 DEF vars, memory
<1>6. /\ fork'.open = TRUE /\ fork'.version = version /\ fork'.root = root
      /\ fork'.overlay = Placeholder /\ fork'.torn = FALSE
  BY <1>4
<1>7. ForkInv'
  <2>1. fork' = [open |-> fork'.open, version |-> fork'.version, root |-> fork'.root,
                 overlay |-> fork'.overlay, torn |-> fork'.torn]
    BY <1>4, <1>6
  <2>2. fork'.open \in BOOLEAN /\ fork'.torn \in BOOLEAN /\ ~fork'.torn
    BY <1>6
  <2>3. fork'.overlay \in [DOMAIN fork'.overlay -> Values \cup {Absent}]
        /\ DOMAIN fork'.overlay = {}
    BY <1>3, <1>6
  <2>4. up' /\ fork'.version \in 0 .. version'
    BY <1>1, <1>2, <1>5, <1>6
  <2> QED
    BY <2>1, <2>2, <2>3, <2>4 DEF ForkInv
<1> QED
  BY <1>1, <1>7, QuietKeeps DEF StoreInv, CacheInv, CacheSound

\* A read of a fork differs from its base only at a later version.
LEMMA ForkGetKeeps ==
    ASSUME StoreInv, NEW x \in Paths, ForkGet(x)
    PROVE  CacheInv'
<1>1. /\ Ready /\ fork.open /\ x \notin DOMAIN fork.overlay
      /\ UNCHANGED <<vars, unsure>>
      /\ cache' \subseteq cache \cup Entries(LoadedBy(version, x))
      /\ fork' = [fork EXCEPT !.torn = fork.torn \/ ForkView(x) # Truth(fork.version, x)]
  BY CachesWithin DEF ForkGet
<1>2. ForkInv
  BY DEF StoreInv, CacheInv
<1>3. up' = up /\ version' = version /\ up
  BY <1>1 DEF vars, memory, Ready
<1>4. ForkView(x) = Truth(version, x)
  BY <1>1, <1>3, CurrentReads DEF ForkView
<1> DEFINE torn == fork.torn \/ ForkView(x) # Truth(fork.version, x)
<1>5. version \in Nat
  BY <1>3, MemoryVersion DEF StoreInv, CacheInv
<1>6. torn \in BOOLEAN /\ (torn => fork.version < version)
  BY <1>1, <1>2, <1>4, <1>5 DEF ForkInv
<1>7. fork' = [open |-> fork.open, version |-> fork.version, root |-> fork.root,
               overlay |-> fork.overlay, torn |-> torn]
  BY <1>1, <1>2 DEF ForkInv
<1> HIDE DEF torn
<1>8. ForkInv'
  BY <1>1, <1>2, <1>3, <1>6, <1>7 DEF ForkInv
<1>9. \A e \in cache' : e.key \in DOMAIN recs /\ recs[e.key] = e.node
  BY <1>1, LoadedSound DEF StoreInv, CacheInv, CacheSound
<1> QED
  BY <1>1, <1>8, <1>9, QuietKeeps DEF Ready

\* Put and Delete of a fork.
LEMMA ForkPutKeeps ==
    ASSUME StoreInv, NEW x \in Paths, NEW a \in Values \cup {Absent}, ForkPut(x, a)
    PROVE  CacheInv'
<1> DEFINE d == DOMAIN fork.overlay \cup {x}
           o == [y \in d |-> IF y = x THEN a ELSE fork.overlay[y]]
<1>1. /\ fork.open /\ UNCHANGED <<vars, unsure>> /\ cache' = cache
      /\ fork' = [fork EXCEPT !.overlay = o] /\ Cardinality(d) =< MaxBatch
  BY DEF ForkPut
<1>2. ForkInv
  BY DEF StoreInv, CacheInv
<1>3. up' = up /\ version' = version
  BY <1>1 DEF vars, memory
<1>4. o \in [d -> Values \cup {Absent}] /\ DOMAIN o = d /\ d \subseteq Paths
  BY <1>1, <1>2 DEF ForkInv
<1>5. fork' = [open |-> fork.open, version |-> fork.version, root |-> fork.root,
               overlay |-> o, torn |-> fork.torn]
  BY <1>1, <1>2 DEF ForkInv
<1> HIDE DEF d, o
<1>6. ForkInv'
  BY <1>1, <1>2, <1>3, <1>4, <1>5 DEF ForkInv
<1> QED
  BY <1>1, <1>6, QuietKeeps DEF StoreInv, CacheInv, CacheSound

\* A closed fork.
LEMMA NoForkInv ==
    ASSUME fork' = NoFork
    PROVE  ForkInv'
BY DEF NoFork, ForkInv

\* A fork is dropped, or nothing happens.
LEMMA ForkDropKeeps ==
    ASSUME StoreInv, ForkDrop \/ UNCHANGED cvars
    PROVE  CacheInv'
<1>1. UNCHANGED <<vars, unsure>> /\ cache' = cache /\ (fork' = NoFork \/ fork' = fork)
  BY DEF ForkDrop, cvars
<1>2. ForkInv'
  BY <1>1, NoForkInv DEF StoreInv, CacheInv, ForkInv, vars, memory
<1> QED
  BY <1>1, <1>2, QuietKeeps DEF StoreInv, CacheInv, CacheSound

-----------------------------------------------------------------------------
(* The steps of the store.                                                  *)

\* Create, OpenLatest and a crash: no batch is unsure, no fork is open.
LEMMA LifeKeeps ==
    ASSUME StoreInv,
           \/ Create /\ UNCHANGED <<cache, unsure, fork>>
           \/ CachedOpen
           \/ CachedCrash
    PROVE  CacheInv'
<1>1. CASE Create /\ UNCHANGED <<cache, unsure, fork>>
  <2>1. /\ ~up /\ recs' = recs /\ prune' = prune /\ cache' = cache /\ unsure' = unsure
        /\ fork' = fork /\ roots' = [v \in {0} |-> Placeholder]
        /\ lineage' = [v \in {0} |-> EmptyTree]
    BY <1>1 DEF Create
  <2>2. CacheSound'
    BY <2>1 DEF StoreInv, CacheInv, CacheSound
  <2>3. unsure' = None /\ fork.open = FALSE
    BY <2>1 DEF StoreInv, CacheInv, UnsureInv, ForkInv
  <2>4. UnsureInv'
    BY <2>3 DEF UnsureInv
  <2>5. BackendFcns'
    BY <2>1 DEF StoreInv, CacheInv, BackendFcns, IsFcn
  <2>6. ForkInv'
    BY <2>1, <2>3 DEF StoreInv, CacheInv, ForkInv
  <2> QED
    BY <2>2, <2>4, <2>5, <2>6 DEF CacheInv
<1>2. CASE CachedOpen
  <2>1. /\ ~up /\ recs' = recs /\ roots' = roots /\ lineage' = lineage /\ prune' = prune
        /\ unsure' = unsure /\ fork' = fork
        /\ cache' \subseteq Entries(LoadedBy(ckpt.version, HistoryPath))
    BY <1>2, CachesWithin DEF CachedOpen, OpenLatest, OpenAt, backend, ghosts
  <2>2. prune.phase = "idle"
    BY <2>1 DEF StoreInv, D!IndInv, D!CoreInv, D!CheckpointCurrent
  <2>3. CacheSound'
    BY <2>1, <2>2, LoadedSound DEF CacheSound
  <2>4. unsure' = None /\ fork.open = FALSE
    BY <2>1 DEF StoreInv, CacheInv, UnsureInv, ForkInv
  <2>5. UnsureInv'
    BY <2>4 DEF UnsureInv
  <2>6. BackendFcns'
    BY <2>1 DEF StoreInv, CacheInv, BackendFcns, IsFcn
  <2>7. ForkInv'
    BY <2>1, <2>4 DEF StoreInv, CacheInv, ForkInv
  <2> QED
    BY <2>3, <2>5, <2>6, <2>7 DEF CacheInv
<1>3. CASE CachedCrash
  <2>1. /\ cache' = {} /\ unsure' = None /\ fork' = NoFork
        /\ recs' = recs /\ roots' = roots /\ lineage' = lineage
    BY <1>3 DEF CachedCrash, Crash, backend, ghosts
  <2>2. CacheSound' /\ UnsureInv' /\ ForkInv'
    BY <2>1, NoForkInv DEF CacheSound, UnsureInv
  <2>3. BackendFcns'
    BY <2>1 DEF StoreInv, CacheInv, BackendFcns, IsFcn
  <2> QED
    BY <2>2, <2>3 DEF CacheInv
<1> QED
  BY <1>1, <1>2, <1>3

\* A confirmed commit, new or a retry; a fork ends with its commit or goes on
\* at an earlier version.
LEMMA CachedPutKeeps ==
    ASSUME StoreInv, NEW upd \in Batches, CachedPut(upd), fork' = fork \/ fork' = NoFork
    PROVE  CacheInv'
<1> DEFINE t  == lineage[version]
           v  == version + 1
           t1 == WithLink(Apply(t, upd, v), v)
           new == {[key |-> NodeKey(p, v), node |-> NodeAt(t1, p)] :
                     p \in {q \in Positions(t1.val) : t1.ver[q] = v}}
<1>1. /\ Ready /\ up /\ (unsure = None \/ unsure = upd) /\ unsure' = None
      /\ Commit(t, t1, v) /\ version' = v /\ up' = up /\ prune' = prune
  BY DEF CachedPut, PutBatch, Ready, Commit
<1>2. Landed(t, t1, v)
  BY <1>1 DEF Commit, Landed
<1>3. /\ BackendFcns'
      /\ \A k \in DOMAIN recs : k \in DOMAIN recs' /\ recs'[k] = recs[k]
      /\ lineage'[v] = t1
      /\ \A k \in Refs(t1) : k.ver = v => k \in DOMAIN recs' /\ recs'[k] = RecordOf(t1, k)
  BY <1>1, <1>2, WriteKeeps
<1>4. lineage'[version'] = t1
  BY <1>1, <1>3
<1>5. cache' \subseteq cache \cup Entries(FoldLoads(t, upd)) \cup new
  <2>1. PICK s \in {lineage'[version']} :
          cache' \in Caches(cache, Entries(FoldLoads(t, upd)) \cup
             {[key |-> NodeKey(p, version'), node |-> NodeAt(s, p)] :
                 p \in {q \in Positions(s.val) : s.ver[q] = version'}})
    BY DEF CachedPut
  <2>2. s = t1
    BY <1>4, <2>1
  <2>3. cache' \in Caches(cache, Entries(FoldLoads(t, upd)) \cup new)
    BY <1>1, <2>1, <2>2
  <2> HIDE DEF new
  <2> QED
    BY <2>3, CachesWithin
<1>6. ASSUME NEW e \in new PROVE e.key \in DOMAIN recs' /\ recs'[e.key] = e.node
  <2>1. PICK p \in Positions(t1.val) :
          t1.ver[p] = v /\ e = [key |-> NodeKey(p, v), node |-> NodeAt(t1, p)]
    OBVIOUS
  <2> HIDE DEF t1, new, t
  <2>2. NodeKey(p, v) \in Refs(t1)
    BY <2>1 DEF Refs
  <2>3. NodeKey(p, v).ver = v /\ RecordOf(t1, NodeKey(p, v)) = NodeAt(t1, p)
    BY DEF NodeKey, RecordOf
  <2>4. NodeKey(p, v) \in DOMAIN recs' /\ recs'[NodeKey(p, v)] = NodeAt(t1, p)
    BY <1>3, <2>2, <2>3
  <2> QED
    BY <2>1, <2>4
<1>7. \A e \in cache \cup Entries(FoldLoads(t, upd)) :
          e.key \in DOMAIN recs /\ recs[e.key] = e.node
  BY FoldSound DEF StoreInv, CacheInv, CacheSound
<1> HIDE DEF new, t1, t
<1>8. CacheSound'
  <2>1. \A e \in cache' : e.key \in DOMAIN recs' /\ recs'[e.key] = e.node
    BY <1>3, <1>5, <1>6, <1>7
  <2> QED
    BY <1>1, <2>1 DEF CacheSound, Ready
<1>9. UnsureInv'
  BY <1>1 DEF UnsureInv
<1>10. ForkInv'
  <2>1. version \in Nat
    BY <1>1, MemoryVersion DEF StoreInv, CacheInv
  <2>2. CASE fork' = fork
    BY <1>1, <2>1, <2>2 DEF StoreInv, CacheInv, ForkInv
  <2> QED
    BY <2>2, NoForkInv
<1> QED
  BY <1>3, <1>8, <1>9, <1>10 DEF CacheInv

\* A commit whose write lands unconfirmed.
LEMMA UnconfirmedKeeps ==
    ASSUME StoreInv, NEW upd \in Batches, UnconfirmedPut(upd)
    PROVE  CacheInv'
<1> DEFINE t  == lineage[version]
           v  == version + 1
           t1 == WithLink(Apply(t, upd, v), v)
<1>1. /\ Ready /\ up /\ unsure = None /\ unsure' = upd /\ fork' = fork
      /\ up' = up /\ root' = root /\ version' = version /\ head' = head /\ prune' = prune
      /\ horizon' = horizon /\ Landed(t, t1, v)
      /\ cache' \subseteq cache \cup Entries(FoldLoads(t, upd))
  BY CachesWithin DEF UnconfirmedPut, Ready, memory
<1>2. /\ BackendFcns'
      /\ \A k \in DOMAIN recs : k \in DOMAIN recs' /\ recs'[k] = recs[k]
      /\ lineage'[v] = t1 /\ lineage'[version] = t
  BY <1>1, WriteKeeps
<1>3. CacheSound'
  <2>1. \A e \in cache \cup Entries(FoldLoads(t, upd)) :
            e.key \in DOMAIN recs /\ recs[e.key] = e.node
    BY FoldSound DEF StoreInv, CacheInv, CacheSound
  <2> QED
    BY <1>1, <1>2, <2>1 DEF CacheSound, Ready
<1>4. UnsureInv'
  <2>1. /\ version \in Nat /\ horizon =< version /\ horizon \in Nat /\ root = t.val
    BY <1>1, MemoryVersion DEF StoreInv, CacheInv
  <2>2. ckpt' = Checkpoint(t1.val, v) /\ \A k \in Refs(t) \ Refs(t1) : <<v, k>> \in stale'
    BY <1>1 DEF Landed
  <2>3. WithLink(Apply(lineage[version], unsure, version + 1), version + 1)' = t1
    BY <1>1, <1>2 DEF WithLink, Link
  <2>4. version' + 1 = v
    BY <1>1
  <2> HIDE DEF t1, t
  <2> QED
    BY <1>1, <1>2, <2>1, <2>2, <2>3, <2>4 DEF UnsureInv
<1>5. ForkInv'
  BY <1>1 DEF StoreInv, CacheInv, ForkInv
<1> QED
  BY <1>2, <1>3, <1>4, <1>5 DEF CacheInv

\* A Prune call, from its start to its return.
LEMMA PruneKeeps ==
    ASSUME StoreInv,
           \/ \E before \in 0 .. MaxVersion : CachedPrune(before)
           \/ (PruneStale \/ PruneRoots \/ PruneFails) /\ UNCHANGED <<cache, unsure, fork>>
    PROVE  CacheInv'
<1>1. /\ unsure' = unsure /\ fork' = fork /\ ckpt' = ckpt /\ lineage' = lineage
      /\ up' = up /\ root' = root /\ version' = version /\ head' = head
  BY DEF CachedPrune, PruneStart, PruneStale, PruneRoots, PruneFails, backend, memory, ghosts
<1>2. cache' = {}
  BY DEF CachedPrune, PruneStale, PruneRoots, PruneFails, StoreInv, CacheInv, CacheSound
<1>3. CacheSound'
  BY <1>2 DEF CacheSound
<1>4. BackendFcns'
  <2>1. IsFcn(recs) /\ IsFcn(roots) /\ IsFcn(lineage)
    BY DEF StoreInv, CacheInv, BackendFcns
  <2>2. \A f, S : IsFcn(Restrict(f, S))
    BY DEF IsFcn, Restrict
  <2>3. /\ recs' = recs \/ \E S : recs' = Restrict(recs, S)
        /\ roots' = roots \/ \E S : roots' = Restrict(roots, S)
    <3>1. CASE PruneStale
      BY <3>1 DEF PruneStale
    <3>2. CASE PruneRoots
      BY <3>2 DEF PruneRoots
    <3> QED
      BY <3>1, <3>2 DEF CachedPrune, PruneStart, PruneFails, backend
  <2>4. IsFcn(recs') /\ IsFcn(roots')
    BY <2>1, <2>2, <2>3
  <2> QED
    BY <1>1, <2>1, <2>4 DEF BackendFcns, IsFcn
<1>5. ForkInv'
  BY <1>1 DEF StoreInv, CacheInv, ForkInv
<1>6. UnsureInv'
  <2> SUFFICES ASSUME unsure # None PROVE UnsureInv'
    BY <1>1 DEF UnsureInv
  <2> DEFINE v == version + 1
  <2>1. /\ version \in Nat /\ horizon =< version
        /\ \A k \in Refs(lineage[version]) \ Refs(lineage[v]) : <<v, k>> \in stale
    BY DEF StoreInv, CacheInv, UnsureInv
  <2>2. horizon \in Nat /\ prune.before \in Nat /\ prune.before =< horizon
    BY DEF StoreInv, D!IndInv, D!CoreInv, D!TypeOK, D!CheckpointCurrent
  <2>3. horizon' =< version
    BY <2>1, <2>2 DEF CachedPrune, PruneStart, PruneStale, PruneRoots, PruneFails, ghosts
  <2>4. \A e \in stale : e[1] = v => e \in stale'
    <3>1. CASE PruneStale
      <4>1. PICK S : S \subseteq {e \in stale : e[1] =< prune.before} /\ stale' = stale \ S
        BY <3>1 DEF PruneStale
      <4> QED
        BY <2>1, <2>2, <4>1
    <3>2. CASE ~PruneStale
      BY <3>2 DEF CachedPrune, PruneStart, PruneRoots, PruneFails, backend
    <3> QED
      BY <3>1, <3>2
  <2>5. \A k \in Refs(lineage[version]) \ Refs(lineage[v]) : <<v, k>> \in stale'
    BY <2>1, <2>4
  <2>6. WithLink(Apply(lineage[version], unsure, version + 1), version + 1)'
          = WithLink(Apply(lineage[version], unsure, v), v)
    BY <1>1 DEF WithLink, Link
  <2> QED
    BY <1>1, <2>1, <2>3, <2>5, <2>6 DEF StoreInv, CacheInv, UnsureInv
<1> QED
  BY <1>3, <1>4, <1>5, <1>6 DEF CacheInv

-----------------------------------------------------------------------------
(* The invariant and what follows from it.                                  *)

\* A process that has not created its store.
LEMMA CacheInitKeeps ==
    ASSUME CacheInit
    PROVE  D!Init /\ CacheInv
<1>1. /\ Init /\ cache = {} /\ unsure = None /\ fork = NoFork
  BY DEF CacheInit
<1>2. D!Init
  BY <1>1, MemoryIs, SameTrees DEF Init, D!Init, NoCheckpoint, D!NoCheckpoint, Idle, D!Idle
<1>3. CacheSound /\ UnsureInv
  BY <1>1 DEF CacheSound, UnsureInv
<1>4. BackendFcns
  BY <1>1 DEF Init, BackendFcns, IsFcn, Placeholder
<1>5. ForkInv
  BY <1>1 DEF ForkInv, NoFork
<1> QED
  BY <1>2, <1>3, <1>4, <1>5 DEF CacheInv

\* Every step keeps the invariant of cache, batch and fork.
LEMMA CacheNextKeeps ==
    ASSUME StoreInv, [CacheNext]_cvars
    PROVE  CacheInv'
<1>1. CASE CacheStep
  <2>1. CASE \/ Create /\ UNCHANGED <<cache, unsure, fork>>
             \/ CachedOpen
             \/ CachedCrash
    BY <2>1, LifeKeeps
  <2>2. CASE \E w \in DOMAIN roots, x \in Paths : Read(w, x)
    BY <2>2, ReadKeeps
  <2>3. CASE \E upd \in Batches : CachedPut(upd) /\ UNCHANGED fork
    BY <2>3, CachedPutKeeps
  <2>4. CASE \E upd \in Batches : UnconfirmedPut(upd)
    BY <2>4, UnconfirmedKeeps
  <2>5. CASE \/ \E before \in 0 .. MaxVersion : CachedPrune(before)
             \/ (PruneStale \/ PruneRoots \/ PruneFails) /\ UNCHANGED <<cache, unsure, fork>>
    BY <2>5, PruneKeeps
  <2>6. CASE NewFork
    BY <2>6, NewForkKeeps
  <2>7. CASE \E x \in Paths : ForkGet(x)
    BY <2>7, ForkGetKeeps
  <2>8. CASE \E x \in Paths, a \in Values \cup {Absent} : ForkPut(x, a)
    BY <2>8, ForkPutKeeps
  <2>9. CASE ForkCommit
    <3>1. fork.open /\ CachedPut(fork.overlay) /\ fork' = NoFork
      BY <2>9 DEF ForkCommit, Sealable
    <3>2. fork.overlay \in Batches
      BY <3>1, OverlayIsBatch DEF CachedPut
    <3> QED
      BY <3>1, <3>2, CachedPutKeeps
  <2>10. CASE ForkDrop
    BY <2>10, ForkDropKeeps
  <2> QED
    BY <1>1, <2>1, <2>2, <2>3, <2>4, <2>5, <2>6, <2>7, <2>8, <2>9, <2>10 DEF CacheStep
<1> QED
  BY <1>1, SetCapacityKeeps, ForkDropKeeps DEF CacheNext

\* In every reachable state the durable store satisfies the invariants of
\* LedgerStore, a cached node is its record, an unconfirmed batch is where its
\* retry would take the store, and a fork is not ahead of it (cache.go, fork.go,
\* store.go PutBatch).
THEOREM StoreInvariance == CacheSpec => []StoreInv
<1>1. CacheInit => StoreInv
  <2> SUFFICES ASSUME CacheInit PROVE StoreInv
    OBVIOUS
  <2>1. D!Init /\ CacheInv
    BY CacheInitKeeps
  <2> QED
    BY <2>1, SamePaths, D!InitInv, D!InitRead DEF StoreInv
<1>2. StoreInv /\ [CacheNext]_cvars => StoreInv'
  <2> SUFFICES ASSUME StoreInv, [CacheNext]_cvars PROVE StoreInv'
    OBVIOUS
  <2>1. [D!Next]_(D!vars)
    BY CacheStepRefines
  <2>2. D!IndInv'
    BY <2>1, SamePaths, D!NextInv DEF StoreInv
  <2>3. D!ReadInv'
    BY <2>1, SamePaths, D!NextRead DEF StoreInv
  <2> QED
    BY <2>2, <2>3, CacheNextKeeps DEF StoreInv
<1> QED
  BY <1>1, <1>2, PTL DEF CacheSpec

\* A store with a node cache, forks and commits that the backend does not
\* confirm implements the store of LedgerStore in what it has made durable: an
\* unconfirmed write is a commit, its retry is none, and everything proved of
\* LedgerStore holds of it.
THEOREM CacheRefinement == CacheSpec => ImplementsStore
<1>1. CacheInit => D!Init
  BY CacheInitKeeps
<1>2. StoreInv /\ [CacheNext]_cvars => [D!Next]_(D!vars)
  BY CacheStepRefines
<1> QED
  BY <1>1, <1>2, StoreInvariance, PTL DEF CacheSpec, ImplementsStore, D!Spec

\* Reading through the node cache (cache.go) is reading the backend.
THEOREM CacheSafe == CacheSpec => []CacheTransparent
<1>1. StoreInv => CacheTransparent
  <2> SUFFICES ASSUME StoreInv, NEW w \in DOMAIN roots, NEW x \in Paths
               PROVE  C!GetAt(w, x) = GetAt(w, x)
    BY DEF CacheTransparent
  <2>1. Seen = recs
    BY SeenIs DEF StoreInv, CacheInv, CacheSound, BackendFcns
  <2> QED
    BY <2>1, CachedReads DEF C!GetAt, GetAt
<1> QED
  BY <1>1, StoreInvariance, PTL

\* The retry of a batch whose write had landed (store.go, commitAcc) changes
\* nothing in the backend.
THEOREM RetrySafe == CacheSpec => RetryIdempotent
<1> DEFINE A == (unsure # None /\ unsure' = None /\ up') => backend' = backend
<1>1. StoreInv /\ [CacheNext]_cvars => [A]_cvars
  <2> SUFFICES ASSUME StoreInv, [CacheNext]_cvars, unsure # None, unsure' = None, up'
               PROVE  backend' = backend
    OBVIOUS
  <2>1. PutBatch(unsure)
    <3>1. \A upd \in Batches : upd # None
      BY NilAssumption
    <3>2. ~(UNCHANGED unsure) /\ ~CachedCrash
      BY DEF CachedCrash, Crash
    <3> QED
      BY <3>1, <3>2 DEF CacheNext, CacheStep, CachedOpen, Read, CachedPut, UnconfirmedPut,
         CachedPrune, NewFork, ForkGet, ForkPut, ForkCommit, ForkDrop, SetCacheCapacity, cvars
  <2> QED
    BY <2>1, RetryIs
<1>2. CacheSpec => [][A]_cvars
  <2> HIDE DEF A
  <2> QED
    BY <1>1, StoreInvariance, PTL DEF CacheSpec
<1> QED
  BY <1>2 DEF RetryIdempotent

\* While Seal (fork.go) would accept a fork, all it has read is its base, and
\* what it reads is what the sealed root holds.
THEOREM ForkSafe == CacheSpec => []ForkIsolated
<1>1. StoreInv => ForkIsolated
  <2> SUFFICES ASSUME StoreInv, Ready, Sealable
               PROVE  /\ ~fork.torn
                      /\ \A x \in Paths :
                           ForkView(x) = IF x \in DOMAIN SealedRoot
                                         THEN Found(SealedRoot[x]) ELSE NotFound
    BY DEF ForkIsolated
  <2>1. up /\ fork.open /\ root = fork.root /\ version = fork.version
    BY DEF Ready, Sealable
  <2>2. version \in Nat /\ root = lineage[version].val
    BY <2>1, MemoryVersion DEF StoreInv, CacheInv
  <2>3. ~fork.torn
    BY <2>1, <2>2 DEF StoreInv, CacheInv, ForkInv
  <2>4. ASSUME NEW x \in Paths
        PROVE  ForkView(x) = IF x \in DOMAIN SealedRoot
                             THEN Found(SealedRoot[x]) ELSE NotFound
    <3>1. C!GetFrom(root, version, x) =
            IF x \in DOMAIN root THEN Found(root[x]) ELSE NotFound
      BY <2>1, <2>2, CurrentReads DEF Truth
    <3>2. x \in DOMAIN SealedRoot <=> IF x \in DOMAIN fork.overlay
                                      THEN fork.overlay[x] # Absent ELSE x \in DOMAIN root
      BY DEF SealedRoot, Updated
    <3>3. x \in DOMAIN SealedRoot =>
            SealedRoot[x] = IF x \in DOMAIN fork.overlay THEN fork.overlay[x] ELSE root[x]
      BY DEF SealedRoot, Updated
    <3> QED
      BY <3>1, <3>2, <3>3 DEF ForkView
  <2> QED
    BY <2>3, <2>4
<1> QED
  BY <1>1, StoreInvariance, PTL

\* With the cache, forks and unconfirmed commits too, no record of a retained
\* version is lost, a Prune that returns has erased the others, and every
\* committed version reads as it was committed.
THEOREM DurableSafe == CacheSpec => [](D!RetainedIntact /\ D!ErasureComplete /\ D!ReadsExact)
<1>1. D!Spec => []D!RetainedIntact
  BY SamePaths, D!PruneSafe
<1>2. D!Spec => []D!ErasureComplete
  BY SamePaths, D!ErasureSound
<1>3. D!Spec => []D!ReadsExact
  BY SamePaths, D!ReadsSafe
<1> QED
  BY <1>1, <1>2, <1>3, CacheRefinement, PTL DEF ImplementsStore
=============================================================================

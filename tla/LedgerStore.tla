----------------------------- MODULE LedgerStore -----------------------------
(***************************************************************************)
(* The store of ledger/store.go: one process that owns a backend keyspace,  *)
(* commits batches as versions, prunes old versions in chunks, and may      *)
(* crash between any two backend writes.                                    *)
(*                                                                         *)
(* Backend.WriteBatch is atomic and durable (ledger/backend.go, and Pebble  *)
(* with Sync in backend/pebble), so a crash loses the memory of the process *)
(* and nothing of the backend.  The store is single-threaded (its callers   *)
(* hold a mutex), so a Prune call in progress excludes every other call;    *)
(* it can still be cut short by a crash or a backend error after any of its *)
(* chunks.                                                                  *)
(***************************************************************************)
EXTENDS SparseTree

CONSTANTS
    Paths,          \* the paths of the user's keys
    HistoryPath,    \* pathOf(HistoryKey)
    Values,         \* the user's values
    Chained,        \* WithHistoryChain
    NoHead,         \* the all-zero head of version 0
    None,           \* a nil pointer
    MaxVersion,     \* bound: the last version committed
    MaxBatch,       \* bound: operations of one batch, after deduplication
    PruneChunk      \* pruneChunk, 512 in the code

ASSUME PathsAssumption ==
    /\ Paths \subseteq Path
    /\ HistoryPath \in Path
    /\ HistoryPath \notin Paths
ASSUME ValuesAssumption == Absent \notin Values
ASSUME NoneAssumption == None \notin Nat
ASSUME ChainedAssumption == Chained \in BOOLEAN
ASSUME BoundsAssumption ==
    /\ MaxVersion \in Nat
    /\ MaxBatch \in Nat
    /\ PruneChunk \in Nat \ {0}

VARIABLES
    recs,       \* backend: node and value records, key -> content
    stale,      \* backend: stale index, set of <<stale_since, key>>
    roots,      \* backend: root records, version -> root
    ckpt,       \* backend: the checkpoint record, or NoCheckpoint
    up,         \* a Store value exists
    root,       \* Store.root
    version,    \* Store.version
    head,       \* Store.historyHead
    pin,        \* Store.snapshotPin, or None
    prune,      \* the Prune call: [phase, before]
    lineage,    \* history variable: the tree each version committed
    horizon     \* history variable: the highest version pruned to

backend == <<recs, stale, roots, ckpt>>
memory  == <<up, root, version, head, pin>>
ghosts  == <<lineage, horizon>>
vars    == <<backend, memory, prune, ghosts>>

AllPaths == Paths \cup {HistoryPath}

\* The deduplicated batches PutBatch accepts: keys under the reserved
\* prefix are refused, so no batch touches HistoryPath.
Batches ==
    UNION {[D -> Values \cup {Absent}] :
              D \in {P \in SUBSET Paths : P # {} /\ Cardinality(P) =< MaxBatch}}

Idle == [phase |-> "idle", before |-> 0]

NoCheckpoint == [root |-> Placeholder, version |-> -1, chained |-> FALSE]

Created == ckpt # NoCheckpoint

Init ==
    /\ recs = Placeholder
    /\ stale = {}
    /\ roots = Placeholder
    /\ ckpt = NoCheckpoint
    /\ up = FALSE
    /\ root = Placeholder
    /\ version = 0
    /\ head = NoHead
    /\ pin = None
    /\ prune = Idle
    /\ lineage = Placeholder
    /\ horizon = 0

-----------------------------------------------------------------------------
(* Verified reads.                                                          *)

Found(a)  == [st |-> "found",     out |-> a]
NotFound  == [st |-> "absent",    out |-> Absent]
Missing   == [st |-> "missing",   out |-> Absent]
Corrupted == [st |-> "corrupted", out |-> Absent]
Descend(c) == [st |-> "walk",     out |-> c]

\* loadNode with the expected hash h, as an error or the node.
LoadNode(k, h) ==
    IF k \notin DOMAIN recs THEN Missing
    ELSE IF NodeHash(recs[k]) # h THEN Corrupted
    ELSE Found(recs[k])

ReadValue(x, a, v) ==
    IF ValueKey(x, a, v) \notin DOMAIN recs THEN Missing
    ELSE IF recs[ValueKey(x, a, v)] # a THEN Corrupted
    ELSE Found(a)

\* One iteration of walk's loop: the node at the first i nibbles of x.
WalkStep(c, x, i) ==
    LET n == LoadNode(NodeKey(SubSeq(x, 1, i), c.ver), c.hash)
    IN  IF n.st # "found" THEN n
        ELSE IF n.out.isLeaf # c.isLeaf THEN Corrupted
        ELSE IF n.out.isLeaf
             THEN IF n.out.path = x THEN ReadValue(x, n.out.val, n.out.vv)
                                    ELSE NotFound
        ELSE IF x[i + 1] \in DOMAIN n.out.kids
             THEN Descend(n.out.kids[x[i + 1]])
             ELSE NotFound

\* walk: the outcomes after i iterations (one outcome, as a set).
Walk(c, x) ==
    LET after[i \in 0 .. Depth + 1] ==
            IF i = 0 THEN {Descend(c)}
            ELSE {IF r.st = "walk" THEN WalkStep(r.out, x, i - 1) ELSE r :
                    r \in after[i - 1]}
    IN  CHOOSE r \in after[Depth + 1] : TRUE

\* loadRootChild, as an error or the child (None for the empty tree).
LoadRootChild(r, v) ==
    IF r = Placeholder THEN Found(None)
    ELSE LET n == LoadNode(NodeKey(<< >>, v), r)
         IN  IF n.st # "found" THEN n
             ELSE Found([ver |-> v, hash |-> r, isLeaf |-> n.out.isLeaf])

\* A read of x in the tree with root r at version v.  (The placeholder root is
\* the one that has no child.)
GetFrom(r, v, x) ==
    LET c == LoadRootChild(r, v)
    IN  IF c.st # "found" THEN c
        ELSE IF r = Placeholder THEN NotFound
        ELSE Walk(c.out, x)

GetAt(v, x) == IF v \in DOMAIN roots THEN GetFrom(roots[v], v, x) ELSE Missing

-----------------------------------------------------------------------------
(* Creating, opening, crashing.                                             *)

Checkpoint(r, v) == [root |-> r, version |-> v, chained |-> Chained]

\* Create: version 0 and the placeholder root.
Create ==
    /\ ~up
    /\ ~Created
    /\ roots' = [v \in {0} |-> Placeholder]
    /\ ckpt' = Checkpoint(Placeholder, 0)
    /\ up' = TRUE
    /\ root' = Placeholder
    /\ version' = 0
    /\ head' = NoHead
    /\ pin' = None
    /\ lineage' = [v \in {0} |-> EmptyTree]
    /\ UNCHANGED <<recs, stale, prune, horizon>>

\* Mutant of HistoryAgrees: a chained store must have a head leaf even at
\* version 0.
HistoryAgreesAlways(on, v, leaf) ==
    /\ leaf.st \in {"found", "absent"}
    /\ on <=> leaf.st = "found"

\* initHistory's cross-checks of the chain flag against the head leaf,
\* given the outcome of the read of that leaf.
HistoryAgrees(on, v, leaf) ==
    /\ leaf.st \in {"found", "absent"}
    /\ on => (v > 0 => leaf.st = "found")
    /\ ~on => leaf.st = "absent"

\* The store opens at (r, v): the root node loads and the chain agrees.
Opens(r, v) ==
    /\ LoadRootChild(r, v).st = "found"
    /\ HistoryAgrees(ckpt.chained, v, GetFrom(r, v, HistoryPath))

\* Mutant of OpenAt: initHistory does not reload the cached head.
OpenAtNoHead(r, v) ==
    /\ ~up
    /\ Created
    /\ Opens(r, v)
    /\ up' = TRUE
    /\ root' = r
    /\ version' = v
    /\ head' = NoHead
    /\ pin' = None
    /\ UNCHANGED <<backend, prune>>

OpenAt(r, v) ==
    /\ ~up
    /\ Created
    /\ Opens(r, v)
    /\ up' = TRUE
    /\ root' = r
    /\ version' = v
    /\ head' = LET leaf == GetFrom(r, v, HistoryPath)
               IN  IF leaf.st = "found" THEN leaf.out ELSE NoHead
    /\ pin' = None
    /\ UNCHANGED <<backend, prune>>

OpenLatest ==
    /\ OpenAt(ckpt.root, ckpt.version)
    /\ UNCHANGED ghosts

\* The process dies: a Store value is gone, the backend stays.
Crash ==
    /\ up
    /\ up' = FALSE
    /\ root' = Placeholder
    /\ version' = 0
    /\ head' = NoHead
    /\ pin' = None
    /\ prune' = Idle
    /\ UNCHANGED <<backend, ghosts>>

-----------------------------------------------------------------------------
(* Commits.                                                                 *)

Ready == up /\ prune.phase \in {"idle", "done"}

\* audit.go HistoryLink, collision free.
HistoryLink(prevHead, prevRoot, v) ==
    [head |-> prevHead, root |-> prevRoot, version |-> v]

\* The persisted nodes of t that folding upd into t1 reads: the nodes on the
\* paths of the batch, and a lone leaf that rises out of an emptied node.
Loads(t, t1, upd) ==
    {p \in Positions(t.val) :
        (\E x \in DOMAIN upd : Under(x, p)) \/ p \notin Positions(t1.val)}

Loadable(t, t1, upd) ==
    \A p \in Loads(t, t1, upd) :
        t.ver[p] =< version =>
            LoadNode(NodeKey(p, t.ver[p]), Sub(t.val, p)).st = "found"

Link(v) == [x \in {HistoryPath} |-> HistoryLink(head, root, v)]

\* The chain head is applied on top of the batch, at the same version.
WithLink(t, v) == IF Chained THEN Apply(t, Link(v), v) ELSE t

\* Mutant of Commit: marks carry the last version that used the record
\* instead of the first that does not.
CommitMarksEarly(t, t1, v) ==
    LET written == {k \in Refs(t1) : k.ver = v}
    IN  /\ recs' = [k \in DOMAIN recs \cup written |->
                        IF k \in written THEN RecordOf(t1, k) ELSE recs[k]]
        /\ stale' = stale \cup {<<v - 1, k>> : k \in Refs(t) \ Refs(t1)}
        /\ roots' = [w \in DOMAIN roots \cup {v} |->
                        IF w = v THEN t1.val ELSE roots[w]]
        /\ ckpt' = Checkpoint(t1.val, v)
        /\ root' = t1.val
        /\ version' = v
        /\ lineage' = [w \in 0 .. v |-> IF w = v THEN t1 ELSE lineage[w]]

\* commitAcc: one atomic write, then the memory swings.
Commit(t, t1, v) ==
    LET written == {k \in Refs(t1) : k.ver = v}
    IN  /\ recs' = [k \in DOMAIN recs \cup written |->
                        IF k \in written THEN RecordOf(t1, k) ELSE recs[k]]
        /\ stale' = stale \cup {<<v, k>> : k \in Refs(t) \ Refs(t1)}
        /\ roots' = [w \in DOMAIN roots \cup {v} |->
                        IF w = v THEN t1.val ELSE roots[w]]
        /\ ckpt' = Checkpoint(t1.val, v)
        /\ root' = t1.val
        /\ version' = v
        /\ lineage' = [w \in 0 .. v |-> IF w = v THEN t1 ELSE lineage[w]]

\* Mutant of PutBatch: the version is not advanced before the fold.
PutBatchSameVersion(upd) ==
    /\ Ready
    /\ version < MaxVersion
    /\ LET t  == lineage[version]
           v  == version
           t1 == Apply(t, upd, v)
       IN  /\ t1.val # t.val
           /\ Commit(t, WithLink(t1, v), v)
           /\ head' = IF Chained THEN HistoryLink(head, root, v) ELSE head
    /\ UNCHANGED <<up, pin, prune, horizon>>

\* PutBatch: a batch that leaves the content alone is no commit.
PutBatch(upd) ==
    /\ Ready
    /\ version < MaxVersion
    /\ LET t  == lineage[version]
           v  == version + 1
           t1 == Apply(t, upd, v)
       IN  /\ t1.val # t.val
           /\ Loadable(t, t1, upd)
           /\ Chained => Loadable(t1, WithLink(t1, v), Link(v))
           /\ Commit(t, WithLink(t1, v), v)
           /\ head' = IF Chained THEN HistoryLink(head, root, v) ELSE head
    /\ UNCHANGED <<up, pin, prune, horizon>>

-----------------------------------------------------------------------------
(* Pruning.                                                                 *)

PinVersion(v) ==
    /\ Ready
    /\ pin' = v
    /\ UNCHANGED <<backend, up, root, version, head, prune, ghosts>>

\* Mutant of Capped: the pin is ignored.
CappedIgnoresPin(before) == before

\* The pin caps the horizon of a Prune call.
Capped(before) == IF pin # None /\ pin < before THEN pin ELSE before

\* Prune is called.  A horizon in the future is refused.
PruneStart(before) ==
    /\ Ready
    /\ Capped(before) =< version
    /\ prune' = [phase |-> "stale", before |-> Capped(before)]
    /\ horizon' = IF Capped(before) > horizon THEN Capped(before) ELSE horizon
    /\ UNCHANGED <<backend, memory, lineage>>

\* Mutant of RetainRecent: a window wider than the history is not cut off.
RetainRecentNoFloor(window) == PruneStart(version - window)

RetainRecent(window) ==
    PruneStart(IF window > version THEN 0 ELSE version - window)

\* The byte order of the stale index: stale_since, then the target's key,
\* 'n' | version | nibble count | nibbles before 'v' | commitment | version.
\* The order within equal counts, and of commitments, is left open.
StaleKeyLeq(e, f) ==
    \/ e[1] < f[1]
    \/ e[1] = f[1] /\ f[2].kind = "v"
    \/ /\ e[1] = f[1] /\ e[2].kind = "n" /\ f[2].kind = "n"
       /\ \/ e[2].ver < f[2].ver
          \/ e[2].ver = f[2].ver /\ Len(e[2].at) =< Len(f[2].at)

\* Backend.Scan with limit PruneChunk: the first entries of S in key order.
IsChunk(C, S, Leq(_, _)) ==
    /\ Cardinality(C) =< PruneChunk
    /\ C # S => Cardinality(C) = PruneChunk
    /\ \A e \in C, f \in S \ C : Leq(e, f)

\* Mutant of After: one chunk per phase.
AfterOneChunk(C, again, next) == [prune EXCEPT !.phase = next]

\* After a full chunk the loop scans again; a short one ends it.
After(C, again, next) ==
    [prune EXCEPT !.phase = IF Cardinality(C) = PruneChunk THEN again ELSE next]

\* Mutant of PruneStale: marks made at the horizon itself are left.
PruneStaleShort ==
    /\ up
    /\ prune.phase = "stale"
    /\ LET S == {e \in stale : e[1] < prune.before}
       IN  \E C \in SUBSET S :
             /\ IsChunk(C, S, StaleKeyLeq)
             /\ recs' = Restrict(recs, DOMAIN recs \ {e[2] : e \in C})
             /\ stale' = stale \ C
             /\ prune' = After(C, "stale", "roots")
    /\ UNCHANGED <<roots, ckpt, memory, ghosts>>

\* Mutant of PruneStale: marks made just above the horizon go too.
PruneStaleFar ==
    /\ up
    /\ prune.phase = "stale"
    /\ LET S == {e \in stale : e[1] =< prune.before + 1}
       IN  \E C \in SUBSET S :
             /\ IsChunk(C, S, StaleKeyLeq)
             /\ recs' = Restrict(recs, DOMAIN recs \ {e[2] : e \in C})
             /\ stale' = stale \ C
             /\ prune' = After(C, "stale", "roots")
    /\ UNCHANGED <<roots, ckpt, memory, ghosts>>

\* Mutant of PruneStale: the targets go, the index entries stay.
PruneStaleKeepsMarks ==
    /\ up
    /\ prune.phase = "stale"
    /\ LET S == {e \in stale : e[1] =< prune.before}
       IN  \E C \in SUBSET S :
             /\ IsChunk(C, S, StaleKeyLeq)
             /\ recs' = Restrict(recs, DOMAIN recs \ {e[2] : e \in C})
             /\ stale' = stale
             /\ prune' = After(C, "stale", "roots")
    /\ UNCHANGED <<roots, ckpt, memory, ghosts>>

\* One chunk of the stale index: the entries and their targets die together.
PruneStale ==
    /\ up
    /\ prune.phase = "stale"
    /\ LET S == {e \in stale : e[1] =< prune.before}
       IN  \E C \in SUBSET S :
             /\ IsChunk(C, S, StaleKeyLeq)
             /\ recs' = Restrict(recs, DOMAIN recs \ {e[2] : e \in C})
             /\ stale' = stale \ C
             /\ prune' = After(C, "stale", "roots")
    /\ UNCHANGED <<roots, ckpt, memory, ghosts>>

\* Mutant of PruneRoots: the root record at the horizon goes too.
PruneRootsAtHorizon ==
    /\ up
    /\ prune.phase = "roots"
    /\ LET S == {v \in DOMAIN roots : v =< prune.before}
       IN  \E C \in SUBSET S :
             /\ IsChunk(C, S, LAMBDA v, w : v =< w)
             /\ roots' = Restrict(roots, DOMAIN roots \ C)
             /\ prune' = After(C, "roots", "done")
    /\ UNCHANGED <<recs, stale, ckpt, memory, ghosts>>

\* One chunk of the root records below the horizon.
PruneRoots ==
    /\ up
    /\ prune.phase = "roots"
    /\ LET S == {v \in DOMAIN roots : v < prune.before}
       IN  \E C \in SUBSET S :
             /\ IsChunk(C, S, LAMBDA v, w : v =< w)
             /\ roots' = Restrict(roots, DOMAIN roots \ C)
             /\ prune' = After(C, "roots", "done")
    /\ UNCHANGED <<recs, stale, ckpt, memory, ghosts>>

\* A scan or a write of a Prune call fails; the call returns the error.
PruneFails ==
    /\ up
    /\ prune.phase \in {"stale", "roots"}
    /\ prune' = Idle
    /\ UNCHANGED <<backend, memory, ghosts>>

-----------------------------------------------------------------------------
Next ==
    \/ Create
    \/ OpenLatest
    \/ Crash
    \/ \E upd \in Batches : PutBatch(upd)
    \/ \E v \in (0 .. version) \cup {None} : PinVersion(v)
    \/ \E before \in 0 .. MaxVersion : PruneStart(before)
    \/ \E window \in 0 .. MaxVersion : RetainRecent(window)
    \/ PruneStale
    \/ PruneRoots
    \/ PruneFails

Spec == Init /\ [][Next]_vars

\* A Prune call, once entered, runs to its return: its caller's thread goes on
\* taking loop iterations.  Nothing else is promised to happen.
FairSpec == Spec /\ WF_vars(PruneStale) /\ WF_vars(PruneRoots)

-----------------------------------------------------------------------------
(* Properties.                                                              *)

IsRef(k) == k.kind \in {"n", "v"} /\ k.ver \in Nat

\* Every variable holds a value of its kind; versions and Prune horizons are
\* naturals (uint64 in the code: nothing wraps below zero).
TypeOK ==
    /\ \A k \in DOMAIN recs : IsRef(k)
    /\ \A e \in stale : e[1] \in Nat /\ IsRef(e[2])
    /\ DOMAIN roots \subseteq Nat
    /\ Created => ckpt.version \in Nat /\ ckpt.chained = Chained
    /\ up \in BOOLEAN
    /\ version \in Nat
    /\ pin \in Nat \cup {None}
    /\ prune.phase \in {"idle", "stale", "roots", "done"}
    /\ prune.before \in Nat
    /\ horizon \in Nat

Committed == 0 .. ckpt.version

Retained == {w \in Committed : w >= horizon}

\* Prune never deletes a record that a retained version is made of, and no
\* later commit overwrites one: every node and value record reachable from a
\* version at or above the horizon is present with the content that version
\* wrote ("the live tree is never touched", Prune).
RetainedIntact ==
    \A w \in Retained :
        \A k \in Refs(lineage[w]) :
            k \in DOMAIN recs /\ recs[k] = RecordOf(lineage[w], k)

Truth(w, x) ==
    IF x \in DOMAIN lineage[w].val THEN Found(lineage[w].val[x]) ELSE NotFound

\* GetAt returns what its version committed for every retained version, also
\* after crashes and prunes cut short; below the horizon it returns the truth
\* or KindMissing, never another value; once a Prune has returned, it is
\* KindMissing.  Get agrees with GetAt at the current version.
ReadsExact ==
    \A w \in Committed, x \in AllPaths :
        /\ w \in Retained => GetAt(w, x) = Truth(w, x)
        /\ GetAt(w, x) \in {Truth(w, x), Missing}
        /\ (prune.phase = "done" /\ w < prune.before) => GetAt(w, x) = Missing
        /\ (up /\ w = version) => GetFrom(root, version, x) = Truth(w, x)

\* When a Prune to the horizon has returned, after any number of earlier calls
\* that crashed or failed half way, nothing is left that only a pruned version
\* used: Prune "deletes storage needed only by versions strictly before".
ErasureComplete ==
    (prune.phase = "done" /\ prune.before = horizon) =>
        /\ DOMAIN recs = UNION {Refs(lineage[w]) : w \in Retained}
        /\ DOMAIN roots = Retained

\* Whenever the process is down, OpenLatest succeeds, at the last version that
\* a commit made durable.
Reopenable ==
    (~up /\ Created) =>
        /\ DOMAIN lineage = 0 .. ckpt.version
        /\ ckpt.root = lineage[ckpt.version].val
        /\ Opens(ckpt.root, ckpt.version)

\* HistoryHeadAt.
HistoryHeadAt(w) == IF w = 0 THEN Found(NoHead) ELSE GetAt(w, HistoryPath)

\* The loop of VerifyHistory: the head recomputed over the root records.
Rechained(w, h) ==
    LET chain[v \in w .. version] ==
            IF v = w THEN h ELSE HistoryLink(chain[v - 1], roots[v - 1], v)
    IN  chain[version]

\* VerifyHistory, from any retained version and the head recorded there,
\* accepts: across crashes, reopenings and prunes the cached head, the head
\* leaves and the root records stay one chain.
ChainVerifies ==
    (up /\ Chained) =>
        \A w \in Retained :
            prune.phase \in {"idle", "done"} =>
                Rechained(w, HistoryHeadAt(w).out) = head

\* A version that is readable when it is pinned stays above the horizon for as
\* long as the pin is held, whatever Prune is asked for.
PinHolds ==
    [][(pin # None /\ pin' = pin /\ pin >= horizon) => pin >= horizon']_vars

\* A record is written by one commit and never again: no step changes the
\* content of an existing record, and no step brings back a pruned one.
RecordsImmutable ==
    [][/\ \A k \in DOMAIN recs \cap DOMAIN recs' : recs'[k] = recs[k]
       /\ \A k \in DOMAIN recs' \ DOMAIN recs : k.ver = version + 1]_vars

\* Every Prune call returns: a full chunk is followed by another scan, and the
\* entries of a processed chunk are not found again.
PruneReturns ==
    (prune.phase \in {"stale", "roots"}) ~> (prune.phase \in {"idle", "done"})
-----------------------------------------------------------------------------
(* The inductive invariant behind RetainedIntact.                           *)

\* A tree that version w may be made of: its paths are paths, and its records
\* carry versions up to w.
IsTree(t, w) ==
    /\ DOMAIN t.val \subseteq Path
    /\ \A x \in DOMAIN t.val : t.vv[x] \in 0 .. w
    /\ \A p \in Positions(t.val) : t.ver[p] \in 0 .. w

\* The checkpoint, the memory of a running store and the lineage agree.
CheckpointCurrent ==
    /\ Created =>
         /\ DOMAIN lineage = Committed
         /\ \A w \in Committed : IsTree(lineage[w], w)
         /\ ckpt.root = lineage[ckpt.version].val
         /\ horizon =< ckpt.version
    /\ up => Created /\ version = ckpt.version /\ root = ckpt.root
    /\ prune.before =< horizon
    /\ prune.phase # "idle" => up

\* No record is from the future, so a commit overwrites nothing.
RecordsPast ==
    /\ \A k \in DOMAIN recs : k.ver \in Committed
    /\ DOMAIN roots \subseteq Committed

\* A mark <<s, k>> says that k was retired by the commit of version s: k is
\* older than s, and no version from s on is made of it.  This is what makes
\* the blind deletion of stale targets safe.
StaleSafe ==
    \A e \in stale :
        /\ e[1] \in Committed
        /\ e[2].ver < e[1]
        /\ \A w \in Committed : w >= e[1] => e[2] \notin Refs(lineage[w])

\* Before Create the backend is empty.
EmptyUntilCreated == ~Created => /\ ~up
                                 /\ ckpt.version = -1
                                 /\ horizon = 0

CoreInv ==
    /\ TypeOK
    /\ EmptyUntilCreated
    /\ CheckpointCurrent
    /\ RecordsPast
    /\ StaleSafe
    /\ RetainedIntact

\* A retained version has its root record.
HasRoot(w) == w \in DOMAIN roots /\ roots[w] = lineage[w].val

RootsKept == \A w \in Retained : HasRoot(w)

\* Preserved by every step of the store.
IndInv == CoreInv /\ RootsKept

\* Behind ErasureComplete: a record that the newest version is not made of
\* carries a mark of the commit that retired it ...
Accounted(k) ==
    \/ k \in Refs(lineage[ckpt.version])
    \/ \E s \in Committed : /\ s > 0
                            /\ <<s, k>> \in stale
                            /\ k \in Refs(lineage[s - 1])

GarbageMarked == \A k \in DOMAIN recs : Accounted(k)

\* ... and a Prune call leaves a phase only when that phase has no work left.
PruneProgress ==
    /\ prune.phase \in {"roots", "done"} => \A e \in stale : e[1] > prune.before
    /\ prune.phase = "done" => \A v \in DOMAIN roots : v >= prune.before

EraseInv == GarbageMarked /\ PruneProgress

\* Behind ReadsExact: a record of a committed version, retained or not, is
\* gone or still what that version wrote ...
Truthful(t) ==
    \A k \in Refs(t) : k \in DOMAIN recs => recs[k] = RecordOf(t, k)

\* ... a content maps the user's keys to the user's values, and the root node
\* of a version is of that version (a commit changes the content, so it writes
\* a new root node), which is where loadRootChild looks for it ...
IsVersion(t, w) ==
    /\ t.val = [x \in DOMAIN t.val |-> t.val[x]]
    /\ DOMAIN t.val \subseteq AllPaths
    /\ \A x \in DOMAIN t.val \cap Paths : t.val[x] \in Values
    /\ t.val # Placeholder => t.ver[<< >>] = w

\* ... and a root record is that of its version as long as it is there.
ReadInv ==
    /\ \A w \in Committed : Truthful(lineage[w]) /\ IsVersion(lineage[w], w)
    /\ \A w \in DOMAIN roots : roots[w] = lineage[w].val

\* Behind ChainVerifies: every version but the first holds the link of its
\* predecessor, and a running store caches the link of the newest.
HeadOf(w) == IF w = 0 THEN NoHead ELSE lineage[w].val[HistoryPath]

ChainInv ==
    /\ \A w \in Committed :
          /\ HistoryPath \in DOMAIN lineage[w].val <=> Chained /\ w > 0
          /\ (Chained /\ w > 0) =>
                HeadOf(w) = HistoryLink(HeadOf(w - 1), lineage[w - 1].val, w)
    /\ up => head = IF Chained THEN HeadOf(version) ELSE NoHead

-----------------------------------------------------------------------------
(* The abstract specification.                                              *)

\* What a reader finds through GetAt, for every version it may ask for.
Readable ==
    [w \in Retained |->
        LET got == {r \in {[key |-> x, res |-> GetAt(w, x)] : x \in Paths} :
                       r.res.st = "found"}
        IN  [x \in {r.key : r \in got} |->
                (CHOOSE r \in got : r.key = x).res.out]]

VM == INSTANCE VersionedMap WITH Keys <- Paths, hist <- Readable

\* Seen through verified reads of its records, the store is a map with
\* history: commits append, Prune forgets from the front, and crashes,
\* reopenings, chunk deletions and failed prunes are invisible.
ImplementsVersionedMap == VM!Spec
=============================================================================

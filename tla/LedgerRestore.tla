---------------------------- MODULE LedgerRestore ----------------------------
(***************************************************************************)
(* State transfer into a replica: RestoreLeaves and StampVersion of         *)
(* ledger/snapshot.go over the store of LedgerStore.  A driver hands the    *)
(* replica the exported leaves of a source in chunks, in any order and more *)
(* than once (it retries), then stamps the source's version on it; from     *)
(* then on the replica commits batches of its own.  The replica may crash   *)
(* between any two calls, and the write of StampVersion may fail.           *)
(***************************************************************************)
EXTENDS LedgerStore

CONSTANTS
    SourceCommits,  \* bound: commits of the source before the export
    ChunkLeaves     \* bound: leaves of one chunk

VARIABLES
    twin,       \* history variable: the source's content, version and head,
                \* and how they go on when it commits what the replica commits
    stamp,      \* the version StampVersion has put on the replica, or None
    rootVer     \* Store.rootChild.version

rvars == <<vars, twin, stamp, rootVer>>

-----------------------------------------------------------------------------
(* The source.                                                              *)

NewSource == [content |-> Placeholder, version |-> 0, head |-> NoHead]

\* The source commits a batch.
Advance(s, upd) ==
    LET c == Updated(s.content, upd)
        h == HistoryLink(s.head, s.content, s.version + 1)
    IN  IF c = s.content THEN s
        ELSE IF ~Chained
        THEN [s EXCEPT !.content = c, !.version = @ + 1]
        ELSE [content |-> Updated(c, [x \in {HistoryPath} |-> h]),
              version |-> s.version + 1, head |-> h]

RestoreInit ==
    /\ Init
    /\ twin = NewSource
    /\ stamp = None
    /\ rootVer = 0

\* The source makes the version that it will export, before the replica exists.
SourceCommit(upd) ==
    /\ ~Created
    /\ twin.version < SourceCommits
    /\ twin' = Advance(twin, upd)
    /\ UNCHANGED <<vars, stamp, rootVer>>

-----------------------------------------------------------------------------
(* The replica.                                                             *)

\* Store.rootChild resolves: every fold starts by loading it.
RootLoads ==
    root = Placeholder \/ LoadNode(NodeKey(<< >>, rootVer), root).st = "found"

\* Mutant of Refreshed: the head cache is left as it is.
RefreshedNever(c) == head

\* The head cache after a chunk: read back from the head leaf, if it arrived.
Refreshed(c) ==
    IF Chained /\ HistoryPath \in DOMAIN c THEN c[HistoryPath] ELSE head

\* RestoreLeaves: one chunk of leaves, one commit without a history link; a
\* chunk that is there already is no commit.
RestoreLeaves(C) ==
    /\ Ready
    /\ stamp = None
    /\ version < MaxVersion
    /\ RootLoads
    /\ LET upd == Restrict(twin.content, C)
           t   == lineage[version]
           v   == version + 1
           t1  == Apply(t, upd, v)
       IN  /\ t1.val # t.val
           /\ Loadable(t, t1, upd)
           /\ Commit(t, t1, v)
           /\ head' = Refreshed(t1.val)
           /\ rootVer' = v
    /\ UNCHANGED <<up, pin, prune, horizon, twin, stamp>>

\* The driver stamps when the replica's root is the source's.  StampVersion
\* refuses a version below the one the chunks have built.
MayStamp ==
    /\ Ready
    /\ stamp = None
    /\ root = twin.content
    /\ twin.version >= version
    /\ RootLoads

\* Mutant of StampVersion: the root node is not duplicated at the version.
StampVersionNoNode ==
    /\ MayStamp
    /\ LET n == twin.version
       IN  /\ roots' = [w \in DOMAIN roots \cup {n} |-> IF w = n THEN root ELSE roots[w]]
           /\ ckpt' = Checkpoint(root, n)
           /\ version' = n
           /\ rootVer' = rootVer
           /\ lineage' = [w \in 0 .. n |->
                IF w = n THEN lineage[version]
                ELSE IF w \in DOMAIN lineage THEN lineage[w] ELSE EmptyTree]
    /\ stamp' = twin.version
    /\ UNCHANGED <<recs, stale, up, root, head, pin, prune, horizon, twin>>

\* The tree t with its root node at version n.
Restamped(t, n) ==
    [val |-> t.val, vv |-> t.vv,
     ver |-> [p \in Positions(t.val) |-> IF p = << >> THEN n ELSE t.ver[p]]]

\* StampVersion: root record, checkpoint and a copy of the root node at the
\* stamped version, in one write.  The node at the build version is not marked
\* stale.  (The lineage of the versions skipped is of no account.)
StampVersion ==
    /\ MayStamp
    /\ LET n == twin.version
           t == Restamped(lineage[version], n)
           written == IF root = Placeholder THEN {} ELSE {NodeKey(<< >>, n)}
       IN  /\ recs' = [k \in DOMAIN recs \cup written |->
                          IF k \in written THEN NodeAt(t, << >>) ELSE recs[k]]
           /\ roots' = [w \in DOMAIN roots \cup {n} |-> IF w = n THEN root ELSE roots[w]]
           /\ ckpt' = Checkpoint(root, n)
           /\ version' = n
           /\ rootVer' = n
           /\ lineage' = [w \in 0 .. n |->
                IF w = n THEN t
                ELSE IF w \in DOMAIN lineage THEN lineage[w] ELSE EmptyTree]
    /\ stamp' = twin.version
    /\ UNCHANGED <<stale, up, root, head, pin, prune, horizon, twin>>

\* The write of StampVersion fails after the root child was swung.
StampFails ==
    /\ MayStamp
    /\ rootVer' = IF root = Placeholder THEN rootVer ELSE twin.version
    /\ UNCHANGED <<vars, twin, stamp>>

\* The replica goes on as a store of its own.
Continue(upd) ==
    /\ stamp # None
    /\ RootLoads
    /\ PutBatch(upd)
    /\ rootVer' = version'
    /\ twin' = Advance(twin, upd)
    /\ UNCHANGED stamp

\* A process that died after the write of StampVersion learns from the
\* checkpoint that the stamp is in place.
RestoreOpen ==
    /\ OpenLatest
    /\ rootVer' = ckpt.version
    /\ UNCHANGED <<twin, stamp>>

StoreStep ==
    /\ \/ Create
       \/ Crash
       \/ \E before \in 0 .. MaxVersion : PruneStart(before)
       \/ PruneStale
       \/ PruneRoots
    /\ UNCHANGED <<twin, stamp, rootVer>>

RestoreNext ==
    \/ \E C \in SUBSET DOMAIN twin.content :
         C # {} /\ Cardinality(C) =< ChunkLeaves /\ RestoreLeaves(C)
    \/ StampVersion
    \/ StampFails
    \/ \E upd \in Batches : SourceCommit(upd) \/ Continue(upd)
    \/ RestoreOpen
    \/ StoreStep

RestoreSpec == RestoreInit /\ [][RestoreNext]_rvars

-----------------------------------------------------------------------------
(* Properties.                                                              *)

\* "A restored and StampVersion-ed replica continues the chain seamlessly"
\* (docs/auditing.md:99): whatever chunks built it, crashed or were repeated,
\* its root, version, head and every read are the source's, and stay what the
\* source would have when both commit the same batches.
ReplicaFollows ==
    (up /\ stamp # None) =>
        /\ root = twin.content /\ version = twin.version
        /\ Chained => head = twin.head
        /\ \A x \in AllPaths :
              GetFrom(root, version, x) =
                IF x \in DOMAIN twin.content THEN Found(twin.content[x]) ELSE NotFound

\* "VerifyHistory works from the transferred anchor onwards"
\* (docs/auditing.md:100): it accepts from every version at or above the stamp
\* that Prune has left.
AnchoredChainVerifies ==
    (Chained /\ Ready /\ stamp # None) =>
        \A w \in stamp .. version :
            w >= horizon => Rechained(w, HistoryHeadAt(w).out) = head

\* A crash leaves a replica that OpenLatest accepts, except that a chained one
\* whose head leaf has not arrived yet is refused: its chunks carry no link.
ReplicaReopens ==
    (~up /\ Created) =>
        (Opens(ckpt.root, ckpt.version) <=>
            (Chained /\ ckpt.version > 0 => HistoryPath \in DOMAIN ckpt.root))

\* A StampVersion whose write failed has swung rootChild in memory but loses
\* nothing: the records of the live tree are all there, under the version that
\* the checkpoint names.
StampLosesNothing ==
    Created => \A x \in AllPaths :
        GetFrom(ckpt.root, ckpt.version, x) =
            IF x \in DOMAIN ckpt.root THEN Found(ckpt.root[x]) ELSE NotFound

\* After a Prune past the stamped version the replica holds the records of its
\* retained versions and at most one more, the root node of its last build
\* version: StampVersion replaces it without a stale mark.
LeakBounded ==
    (prune.phase = "done" /\ prune.before = horizon /\ stamp # None /\ horizon >= stamp) =>
        \E spare \in {DOMAIN recs \ UNION {Refs(lineage[w]) : w \in horizon .. version}} :
            Cardinality(spare) =< 1 /\ \A k \in spare : k.kind = "n" /\ k.at = << >>

-----------------------------------------------------------------------------
(* The inductive invariants behind the properties.                          *)

\* The source holds the user's values and its head leaf, and no deleted key.
SourceInv ==
    /\ twin = [content |-> twin.content, version |-> twin.version, head |-> twin.head]
    /\ twin.version \in Nat
    /\ twin.content = [x \in DOMAIN twin.content |-> twin.content[x]]
    /\ DOMAIN twin.content \subseteq AllPaths
    /\ \A x \in DOMAIN twin.content \cap Paths : twin.content[x] \in Values
    /\ \A x \in DOMAIN twin.content : twin.content[x] # Absent

\* Of the records of a replica, all but the root node of the version b that the
\* chunks ended with are accounted for, and before the stamp that one too.
Spares(b) ==
    \A k \in DOMAIN recs :
        Accounted(k) \/ (stamp # None /\ k = NodeKey(<< >>, b))

\* A replica is a store, except that the versions between the last chunk and
\* the stamp were never committed.
ReplicaInv ==
    /\ CoreInv
    /\ ReadInv
    /\ SourceInv
    /\ stamp \in Nat \cup {None}
    /\ stamp # None => Created /\ stamp =< ckpt.version
    /\ \A w \in Retained : (stamp = None \/ w >= stamp) => HasRoot(w)
    /\ Created => \E b \in Committed : Spares(b)
    /\ PruneProgress

HeadLeaf(c) == IF HistoryPath \in DOMAIN c THEN c[HistoryPath] ELSE NoHead

\* The head of the source is in its content; the replica has part of that
\* content, after the stamp all of it; the cached head is always that of the
\* replica's own content, and from the stamp on its versions are one chain.
FollowInv ==
    /\ twin.head = HeadLeaf(twin.content)
    /\ HistoryPath \in DOMAIN twin.content <=> Chained /\ twin.version > 0
    /\ Created => /\ DOMAIN ckpt.root \subseteq DOMAIN twin.content
                  /\ \A x \in DOMAIN ckpt.root : ckpt.root[x] = twin.content[x]
    /\ stamp # None => ckpt.root = twin.content /\ ckpt.version = twin.version
    /\ up => head = HeadLeaf(ckpt.root)
    /\ (Chained /\ stamp # None) =>
         \A w \in stamp .. ckpt.version :
             /\ w > 0 => HistoryPath \in DOMAIN lineage[w].val
             /\ w > stamp => HeadOf(w) = HistoryLink(HeadOf(w - 1), lineage[w - 1].val, w)
=============================================================================

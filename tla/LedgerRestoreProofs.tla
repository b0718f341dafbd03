------------------------- MODULE LedgerRestoreProofs -------------------------
(***************************************************************************)
(* Proofs about LedgerRestore: a replica filled chunk by chunk and stamped  *)
(* goes on as its source, through crashes, repeated chunks, failed stamps   *)
(* and prunes.  The store's own lemmas serve for its commits and prunes;    *)
(* what is new is the stamp, which writes a version outside of a commit.    *)
(***************************************************************************)
EXTENDS LedgerRestore, LedgerReadProofs, FiniteSetTheorems

-----------------------------------------------------------------------------
(* The stamped tree.                                                        *)

\* Stamping changes the version of the root node and no node's content:
\* references to children carry the children's versions.
LEMMA RestampNode ==
    ASSUME NEW t, NEW n, DOMAIN t.val \subseteq Path, NEW p \in Positions(t.val)
    PROVE  NodeAt(Restamped(t, n), p) = NodeAt(t, p)
<1> DEFINE c == t.val
           t1 == Restamped(t, n)
<1>1. /\ t1.val = c /\ t1.vv = t.vv
      /\ t1.ver = [q \in Positions(c) |-> IF q = << >> THEN n ELSE t.ver[q]]
  BY DEF Restamped
<1>2. p \in Prefix
  BY DEF Positions
<1> SUFFICES NodeAt(t1, p) = NodeAt(t, p)
  OBVIOUS
<1> HIDE DEF t1
<1>3. CASE Crowded(c, p)
  <2>1. ASSUME NEW i \in Kids(c, p)
        PROVE  ChildRef(t1, Append(p, i)) = ChildRef(t, Append(p, i))
    <3>1. Append(p, i) \in Positions(c)
      BY <1>2, <1>3, KidPosition
    <3>2. Append(p, i) # << >>
      BY <1>2, FrontAppend DEF Kids
    <3>3. t1.ver[Append(p, i)] = t.ver[Append(p, i)]
      BY <1>1, <3>1, <3>2
    <3> QED
      BY <1>1, <3>3 DEF ChildRef
  <2>2. [i \in Kids(c, p) |-> ChildRef(t1, Append(p, i))]
          = [i \in Kids(c, p) |-> ChildRef(t, Append(p, i))]
    BY <2>1
  <2> QED
    BY <1>1, <1>3, <2>2 DEF NodeAt
<1>4. CASE ~Crowded(c, p)
  BY <1>1, <1>4 DEF NodeAt
<1> QED
  BY <1>3, <1>4

\* The records of the stamped tree are those of the built one, with the root
\* node at the stamped version in the place of the root node.
LEMMA RestampRefs ==
    ASSUME NEW t, NEW w \in Nat, NEW n \in Nat, w =< n, IsTree(t, w), IsVersion(t, w)
    PROVE  LET t1 == Restamped(t, n)
           IN  /\ IsTree(t1, n) /\ IsVersion(t1, n) /\ t1.val = t.val
               /\ \A k \in Refs(t1) :
                     \/ k = NodeKey(<< >>, n) /\ t.val # Placeholder
                     \/ k \in Refs(t)
               /\ \A k \in Refs(t1) :
                     k \in Refs(t) => RecordOf(t1, k) = RecordOf(t, k)
               /\ \A k \in Refs(t) : k \in Refs(t1) \/ k = NodeKey(<< >>, w)
               /\ t.val # Placeholder => NodeKey(<< >>, n) \in Refs(t1)
<1> DEFINE c == t.val
           t1 == Restamped(t, n)
<1>1. /\ t1.val = c /\ t1.vv = t.vv
      /\ t1.ver = [q \in Positions(c) |-> IF q = << >> THEN n ELSE t.ver[q]]
  BY DEF Restamped
<1>2. /\ DOMAIN c \subseteq Path
      /\ \A x \in DOMAIN c : t.vv[x] \in 0 .. w
      /\ \A p \in Positions(c) : t.ver[p] \in 0 .. w
  BY DEF IsTree
<1>3. \A p \in Positions(c) : NodeAt(t1, p) = NodeAt(t, p)
  BY <1>2, RestampNode
<1> HIDE DEF t1
<1>4. IsTree(t1, n)
  BY <1>1, <1>2 DEF IsTree
<1>5. << >> \in Positions(c) => c # Placeholder
  BY DEF Positions, Below, Placeholder
<1>6. c # Placeholder => << >> \in Positions(c) /\ t.ver[<< >>] = w
  BY RootPosition DEF IsVersion
<1>7. IsVersion(t1, n)
  BY <1>1, <1>6 DEF IsVersion
<1>8. ASSUME NEW k \in Refs(t1)
      PROVE  \/ k = NodeKey(<< >>, n) /\ c # Placeholder
             \/ k \in Refs(t)
  <2>1. CASE \E p \in Positions(c) : k = NodeKey(p, t1.ver[p])
    <3>1. PICK p \in Positions(c) : k = NodeKey(p, t1.ver[p])
      BY <2>1
    <3>2. CASE p = << >>
      BY <1>1, <1>5, <3>1, <3>2
    <3>3. CASE p # << >>
      BY <1>1, <3>1, <3>3 DEF Refs
    <3> QED
      BY <3>2, <3>3
  <2>2. CASE \E x \in DOMAIN c : k = ValueKey(x, c[x], t1.vv[x])
    BY <1>1, <2>2 DEF Refs
  <2> QED
    BY <1>1, <2>1, <2>2 DEF Refs
<1>9. ASSUME NEW k \in Refs(t), k \in Refs(t1)
      PROVE  RecordOf(t1, k) = RecordOf(t, k)
  <2>1. k.kind = "v" \/ k.at \in Positions(c)
    BY DEF Refs, NodeKey, ValueKey
  <2> QED
    BY <1>3, <2>1 DEF RecordOf
<1>10. ASSUME NEW k \in Refs(t) PROVE k \in Refs(t1) \/ k = NodeKey(<< >>, w)
  <2>1. CASE \E p \in Positions(c) : k = NodeKey(p, t.ver[p])
    <3>1. PICK p \in Positions(c) : k = NodeKey(p, t.ver[p])
      BY <2>1
    <3>2. CASE p = << >>
      BY <1>5, <1>6, <3>1, <3>2
    <3>3. CASE p # << >>
      BY <1>1, <3>1, <3>3 DEF Refs
    <3> QED
      BY <3>2, <3>3
  <2>2. CASE \E x \in DOMAIN c : k = ValueKey(x, c[x], t.vv[x])
    BY <1>1, <2>2 DEF Refs
  <2> QED
    BY <2>1, <2>2 DEF Refs
<1>11. c # Placeholder => NodeKey(<< >>, n) \in Refs(t1)
  <2>1. c # Placeholder => << >> \in Positions(c) /\ t1.ver[<< >>] = n
    BY <1>1, <1>6
  <2> QED
    BY <1>1, <2>1 DEF Refs
<1> QED
  BY <1>1, <1>4, <1>7, <1>8, <1>9, <1>10, <1>11 DEF t1

-----------------------------------------------------------------------------
(* The stamp.                                                               *)

\* What StampVersion writes, in terms of the tree that the chunks have built.
Stamps(w, n, t1) ==
    /\ DOMAIN recs' = IF t1.val = Placeholder THEN DOMAIN recs
                      ELSE DOMAIN recs \cup {NodeKey(<< >>, n)}
    /\ \A k \in DOMAIN recs' :
          IF t1.val # Placeholder /\ k = NodeKey(<< >>, n)
          THEN recs'[k] = RecordOf(t1, k) ELSE recs'[k] = recs[k]
    /\ DOMAIN roots' = DOMAIN roots \cup {n}
    /\ \A u \in DOMAIN roots' : roots'[u] = IF u = n THEN t1.val ELSE roots[u]
    /\ Committed = 0 .. w /\ Committed' = 0 .. n /\ Created /\ Created'
    /\ ckpt' = Checkpoint(t1.val, n) /\ root' = t1.val /\ version' = n
    /\ DOMAIN lineage' = 0 .. n
    /\ lineage'[n] = t1
    /\ \A u \in 0 .. n : u # n =>
          lineage'[u] = IF u \in 0 .. w THEN lineage[u] ELSE EmptyTree
    /\ UNCHANGED <<stale, up, head, pin, prune, horizon, twin>>

\* StampVersion does that.
LEMMA StampDoes ==
    ASSUME CoreInv, ReadInv, SourceInv, StampVersion
    PROVE  /\ up /\ version \in Nat /\ twin.version \in Nat /\ version =< twin.version
           /\ version = ckpt.version
           /\ IsTree(lineage[version], version) /\ IsVersion(lineage[version], version)
           /\ lineage[version].val = root /\ root = twin.content
           /\ Stamps(version, twin.version, Restamped(lineage[version], twin.version))
<1> DEFINE n  == twin.version
           t  == lineage[version]
           t1 == Restamped(t, n)
<1>1. /\ up /\ root = twin.content /\ n >= version
  BY DEF StampVersion, MayStamp, Ready
<1>2. /\ version \in Nat /\ n \in Nat /\ version =< n
      /\ version = ckpt.version /\ Created /\ Committed = 0 .. version
      /\ DOMAIN lineage = 0 .. version
      /\ IsTree(t, version) /\ t.val = root
  BY <1>1 DEF CoreInv, TypeOK, CheckpointCurrent, Committed, SourceInv
<1>3. IsVersion(t, version)
  BY <1>2 DEF ReadInv
<1>4. t1.val = root
  BY <1>2 DEF Restamped
<1> DEFINE written == IF root = Placeholder THEN {} ELSE {NodeKey(<< >>, n)}
<1>5. /\ recs' = [k \in DOMAIN recs \cup written |->
                     IF k \in written THEN NodeAt(t1, << >>) ELSE recs[k]]
      /\ roots' = [w \in DOMAIN roots \cup {n} |-> IF w = n THEN root ELSE roots[w]]
      /\ ckpt' = Checkpoint(root, n)
      /\ version' = n
      /\ lineage' = [u \in 0 .. n |->
            IF u = n THEN t1
            ELSE IF u \in DOMAIN lineage THEN lineage[u] ELSE EmptyTree]
      /\ UNCHANGED <<stale, up, root, head, pin, prune, horizon, twin>>
  BY DEF StampVersion
<1> HIDE DEF t1, n, t
<1>6. /\ DOMAIN recs' = IF t1.val = Placeholder THEN DOMAIN recs
                        ELSE DOMAIN recs \cup {NodeKey(<< >>, n)}
      /\ \A k \in DOMAIN recs' :
            IF t1.val # Placeholder /\ k = NodeKey(<< >>, n)
            THEN recs'[k] = RecordOf(t1, k) ELSE recs'[k] = recs[k]
  <2>1. RecordOf(t1, NodeKey(<< >>, n)) = NodeAt(t1, << >>)
    BY DEF RecordOf, NodeKey
  <2> QED
    BY <1>4, <1>5, <2>1
<1>7. /\ DOMAIN roots' = DOMAIN roots \cup {n}
      /\ \A u \in DOMAIN roots' : roots'[u] = IF u = n THEN t1.val ELSE roots[u]
  BY <1>4, <1>5
<1>8. Committed' = 0 .. n /\ Created'
  BY <1>2, <1>5 DEF Checkpoint, Created, NoCheckpoint, Committed
<1>9. /\ DOMAIN lineage' = 0 .. n
      /\ lineage'[n] = t1
      /\ \A u \in 0 .. n : u # n =>
            lineage'[u] = IF u \in 0 .. version THEN lineage[u] ELSE EmptyTree
  BY <1>2, <1>5
<1>10. Stamps(version, n, t1)
  BY <1>2, <1>4, <1>5, <1>6, <1>7, <1>8, <1>9 DEF Stamps
<1> QED
  BY <1>1, <1>2, <1>3, <1>10 DEF n, t, t1

\* The versions skipped are empty and consist of no record.
LEMMA EmptyIs ==
    /\ Refs(EmptyTree) = {}
    /\ \A w \in Nat : IsTree(EmptyTree, w) /\ IsVersion(EmptyTree, w)
<1>1. DOMAIN Placeholder = {} /\ Placeholder = [x \in DOMAIN Placeholder |-> Placeholder[x]]
  BY DEF Placeholder
<1>2. Positions(Placeholder) = {}
  BY <1>1 DEF Positions, Below
<1> QED
  BY <1>1, <1>2 DEF Refs, EmptyTree, IsTree, IsVersion

\* Where each record of a version of the stamped replica comes from: the
\* stamped root node, or a version that was there, as it was there.
LEMMA StampOrigin ==
    ASSUME CoreInv, ReadInv, NEW w \in Nat, NEW n \in Nat, w =< n,
           w = ckpt.version,
           IsTree(lineage[w], w), IsVersion(lineage[w], w),
           Stamps(w, n, Restamped(lineage[w], n)),
           NEW u \in 0 .. n, NEW k \in Refs(lineage'[u])
    PROVE  \/ /\ k = NodeKey(<< >>, n) /\ u = n /\ lineage[w].val # Placeholder
              /\ lineage'[u] = Restamped(lineage[w], n)
           \/ \E z \in 0 .. w : /\ z =< u /\ (u =< w => z = u) /\ (z < u => z = w)
                                /\ k \in Refs(lineage[z])
                                /\ RecordOf(lineage'[u], k) = RecordOf(lineage[z], k)
                                /\ k # NodeKey(<< >>, n)
<1> DEFINE t  == lineage[w]
           t1 == Restamped(t, n)
<1>1. /\ lineage'[n] = t1
      /\ u # n => lineage'[u] = IF u \in 0 .. w THEN lineage[u] ELSE EmptyTree
      /\ Created /\ Committed = 0 .. w
  BY DEF Stamps
<1>2. /\ \A r \in Refs(t1) : (r = NodeKey(<< >>, n) /\ t.val # Placeholder) \/ r \in Refs(t)
      /\ \A r \in Refs(t1) : r \in Refs(t) => RecordOf(t1, r) = RecordOf(t, r)
  BY RestampRefs
<1> HIDE DEF t1
<1>3. CASE u = n
  <2>1. CASE k = NodeKey(<< >>, n) /\ t.val # Placeholder
    BY <1>1, <1>3, <2>1 DEF t1
  <2>2. CASE ~(k = NodeKey(<< >>, n) /\ t.val # Placeholder)
    <3>1. k \in Refs(t) /\ RecordOf(t1, k) = RecordOf(t, k)
      BY <1>1, <1>2, <1>3, <2>2
    <3>2. k # NodeKey(<< >>, n)
      <4>1. t.val = Placeholder => Refs(t) = {}
        BY DEF Refs, Positions, Below, Placeholder
      <4> QED
        BY <2>2, <3>1, <4>1
    <3>3. w \in 0 .. w /\ w =< u /\ (u =< w => w = u)
      BY <1>3
    <3> QED
      BY <1>1, <1>3, <3>1, <3>2, <3>3
  <2> QED
    BY <2>1, <2>2
<1>4. CASE u # n
  <2>1. u \in 0 .. w /\ lineage'[u] = lineage[u]
    BY <1>1, <1>4, EmptyIs
  <2>2. IsTree(lineage[u], u)
    BY <1>1, <2>1 DEF CoreInv, CheckpointCurrent
  <2>3. k.ver \in 0 .. u
    BY <2>1, <2>2, TreeRefs
  <2>4. k # NodeKey(<< >>, n)
    BY <1>4, <2>3 DEF NodeKey
  <2> QED
    BY <2>1, <2>4
<1> QED
  BY <1>3, <1>4

\* StampVersion keeps the store's invariants.
LEMMA StampCore ==
    ASSUME CoreInv, ReadInv, SourceInv, StampVersion
    PROVE  CoreInv' /\ ReadInv'
<1> DEFINE w  == version
           n  == twin.version
           t  == lineage[w]
           t1 == Restamped(t, n)
<1>1. /\ up /\ w \in Nat /\ n \in Nat /\ w =< n /\ w = ckpt.version
      /\ IsTree(t, w) /\ IsVersion(t, w) /\ t.val = root
      /\ Stamps(w, n, t1)
  BY StampDoes
<1> HIDE DEF w, n
<1>2. IsTree(t1, n) /\ IsVersion(t1, n) /\ t1.val = t.val
  BY <1>1, RestampRefs
<1>3. \A u \in 0 .. n : \A k \in Refs(lineage'[u]) :
        \/ /\ k = NodeKey(<< >>, n) /\ u = n /\ t.val # Placeholder
           /\ lineage'[u] = t1
        \/ \E z \in 0 .. w : /\ z =< u /\ (u =< w => z = u) /\ (z < u => z = w)
                             /\ k \in Refs(lineage[z])
                             /\ RecordOf(lineage'[u], k) = RecordOf(lineage[z], k)
                             /\ k # NodeKey(<< >>, n)
  BY <1>1, StampOrigin
<1> HIDE DEF t1, t
<1>4. /\ DOMAIN recs' = IF t1.val = Placeholder THEN DOMAIN recs
                        ELSE DOMAIN recs \cup {NodeKey(<< >>, n)}
      /\ \A k \in DOMAIN recs' :
            IF t1.val # Placeholder /\ k = NodeKey(<< >>, n)
            THEN recs'[k] = RecordOf(t1, k) ELSE recs'[k] = recs[k]
      /\ DOMAIN roots' = DOMAIN roots \cup {n}
      /\ \A u \in DOMAIN roots' : roots'[u] = IF u = n THEN t1.val ELSE roots[u]
      /\ Committed = 0 .. w /\ Committed' = 0 .. n /\ Created /\ Created'
      /\ ckpt' = Checkpoint(t1.val, n) /\ root' = t1.val /\ version' = n
      /\ DOMAIN lineage' = 0 .. n
      /\ lineage'[n] = t1
      /\ \A u \in 0 .. n : u # n =>
            lineage'[u] = IF u \in 0 .. w THEN lineage[u] ELSE EmptyTree
      /\ UNCHANGED <<stale, up, pin, prune, horizon>>
  BY <1>1 DEF Stamps
<1>5. ckpt'.version = n /\ ckpt'.root = t1.val /\ ckpt'.chained = Chained
  BY <1>4 DEF Checkpoint
<1>6. NodeKey(<< >>, n).ver = n /\ IsRef(NodeKey(<< >>, n))
  BY <1>1 DEF NodeKey, IsRef
<1>7. TypeOK'
  <2>1. /\ \A k \in DOMAIN recs : IsRef(k)
        /\ \A e \in stale : e[1] \in Nat /\ IsRef(e[2])
        /\ DOMAIN roots \subseteq Nat
        /\ up \in BOOLEAN
        /\ pin \in Nat \cup {None}
        /\ prune.phase \in {"idle", "stale", "roots", "done"}
        /\ prune.before \in Nat
        /\ horizon \in Nat
    BY DEF CoreInv, TypeOK
  <2>2. \A k \in DOMAIN recs' : IsRef(k)
    BY <1>4, <1>6, <2>1
  <2> QED
    BY <1>1, <1>4, <1>5, <2>1, <2>2 DEF TypeOK
<1>8. \A u \in Committed' : IsTree(lineage'[u], u) /\ IsVersion(lineage'[u], u)
  <2> SUFFICES ASSUME NEW u \in 0 .. n
               PROVE  IsTree(lineage'[u], u) /\ IsVersion(lineage'[u], u)
    BY <1>4
  <2>1. CASE u = n
    BY <1>2, <1>4, <2>1
  <2>2. CASE u # n /\ u \in 0 .. w
    BY <1>4, <2>2 DEF CoreInv, CheckpointCurrent, ReadInv
  <2>3. CASE u # n /\ u \notin 0 .. w
    BY <1>4, <2>3, EmptyIs
  <2> QED
    BY <2>1, <2>2, <2>3
<1>9. EmptyUntilCreated' /\ CheckpointCurrent'
  <2>1. /\ horizon \in Nat /\ horizon =< w /\ prune.before =< horizon
        /\ prune.phase # "idle" => up
    BY <1>1, <1>4 DEF CoreInv, TypeOK, CheckpointCurrent
  <2> QED
    BY <1>1, <1>4, <1>5, <1>8, <2>1 DEF EmptyUntilCreated, CheckpointCurrent
<1>10. RecordsPast'
  <2>1. \A k \in DOMAIN recs : k.ver \in 0 .. w
    BY <1>4 DEF CoreInv, RecordsPast
  <2>2. DOMAIN roots \subseteq 0 .. w
    BY <1>4 DEF CoreInv, RecordsPast
  <2> QED
    BY <1>1, <1>4, <1>6, <2>1, <2>2 DEF RecordsPast
<1>11. StaleSafe'
  <2> SUFFICES ASSUME NEW e \in stale
               PROVE  /\ e[1] \in 0 .. n
                      /\ e[2].ver < e[1]
                      /\ \A u \in 0 .. n : u >= e[1] => e[2] \notin Refs(lineage'[u])
    BY <1>4 DEF StaleSafe
  <2>1. /\ e[1] \in 0 .. w /\ e[2].ver < e[1] /\ e[2].ver \in Nat
        /\ \A u \in 0 .. w : u >= e[1] => e[2] \notin Refs(lineage[u])
    BY <1>4 DEF CoreInv, StaleSafe, TypeOK, IsRef
  <2>2. e[2] # NodeKey(<< >>, n)
    BY <1>1, <1>6, <2>1
  <2>3. ASSUME NEW u \in 0 .. n, u >= e[1], e[2] \in Refs(lineage'[u]) PROVE FALSE
    <3>1. PICK z \in 0 .. w : z =< u /\ (z < u => z = w) /\ e[2] \in Refs(lineage[z])
      BY <1>3, <2>2, <2>3
    <3>2. z >= e[1]
      BY <2>1, <2>3, <3>1
    <3> QED
      BY <2>1, <3>1, <3>2
  <2> QED
    BY <1>1, <2>1, <2>3
<1>12. RetainedIntact'
  <2> SUFFICES ASSUME NEW u \in 0 .. n, u >= horizon, NEW k \in Refs(lineage'[u])
               PROVE  k \in DOMAIN recs' /\ recs'[k] = RecordOf(lineage'[u], k)
    BY <1>4 DEF RetainedIntact, Retained
  <2>1. CASE k = NodeKey(<< >>, n) /\ t.val # Placeholder /\ lineage'[u] = t1
    BY <1>2, <1>4, <2>1
  <2>2. CASE ~(k = NodeKey(<< >>, n) /\ t.val # Placeholder /\ lineage'[u] = t1)
    <3>1. PICK z \in 0 .. w : /\ z =< u /\ (z < u => z = w)
                              /\ k \in Refs(lineage[z])
                              /\ RecordOf(lineage'[u], k) = RecordOf(lineage[z], k)
                              /\ k # NodeKey(<< >>, n)
      BY <1>3, <2>2
    <3>2. z \in Retained
      <4>1. horizon =< w /\ horizon \in Nat
        BY <1>1, <1>4 DEF CoreInv, CheckpointCurrent, TypeOK
      <4> QED
        BY <1>4, <3>1, <4>1 DEF Retained
    <3>3. k \in DOMAIN recs /\ recs[k] = RecordOf(lineage[z], k)
      BY <3>1, <3>2 DEF CoreInv, RetainedIntact
    <3> QED
      BY <1>4, <3>1, <3>3
  <2> QED
    BY <2>1, <2>2
<1>13. \A u \in Committed' : Truthful(lineage[u])'
  <2> SUFFICES ASSUME NEW u \in 0 .. n, NEW k \in Refs(lineage'[u]), k \in DOMAIN recs'
               PROVE  recs'[k] = RecordOf(lineage'[u], k)
    BY <1>4 DEF Truthful
  <2>1. CASE k = NodeKey(<< >>, n) /\ t.val # Placeholder /\ lineage'[u] = t1
    BY <1>2, <1>4, <2>1
  <2>2. CASE ~(k = NodeKey(<< >>, n) /\ t.val # Placeholder /\ lineage'[u] = t1)
    <3>1. PICK z \in 0 .. w : /\ k \in Refs(lineage[z])
                              /\ RecordOf(lineage'[u], k) = RecordOf(lineage[z], k)
                              /\ k # NodeKey(<< >>, n)
      BY <1>3, <2>2
    <3>2. k \in DOMAIN recs /\ recs'[k] = recs[k]
      BY <1>4, <3>1
    <3> QED
      BY <1>4, <3>1, <3>2 DEF ReadInv, Truthful
  <2> QED
    BY <2>1, <2>2
<1>14. \A u \in DOMAIN roots' : roots'[u] = lineage'[u].val
  <2> SUFFICES ASSUME NEW u \in DOMAIN roots', u # n PROVE roots[u] = lineage'[u].val
    BY <1>4
  <2>1. u \in DOMAIN roots /\ u \in 0 .. w
    BY <1>4 DEF CoreInv, RecordsPast
  <2>2. lineage'[u] = lineage[u]
    BY <1>1, <1>4, <2>1
  <2> QED
    BY <2>1, <2>2 DEF ReadInv
<1>15. CoreInv'
  BY <1>7, <1>9, <1>10, <1>11, <1>12 DEF CoreInv
<1>16. ReadInv'
  BY <1>8, <1>13, <1>14 DEF ReadInv
<1> QED
  BY <1>15, <1>16

-----------------------------------------------------------------------------
(* The replica as a store.                                                  *)

\* After the stamp, one root node may be left without a mark.
LEMMA StampReplica ==
    ASSUME ReplicaInv, StampVersion
    PROVE  ReplicaInv'
<1> DEFINE w  == version
           n  == twin.version
           t  == lineage[w]
           t1 == Restamped(t, n)
<1>1. CoreInv /\ ReadInv /\ SourceInv /\ PruneProgress
  BY DEF ReplicaInv
<1>2. /\ up /\ w \in Nat /\ n \in Nat /\ w =< n /\ w = ckpt.version
      /\ IsTree(t, w) /\ IsVersion(t, w)
      /\ Stamps(w, n, t1)
  BY <1>1, StampDoes
<1>3. CoreInv' /\ ReadInv'
  BY <1>1, StampCore
<1>4. stamp' = n /\ stamp = None /\ n # None /\ twin' = twin
  BY <1>2, NoneAssumption DEF StampVersion, MayStamp
<1> HIDE DEF w, n
<1>5. /\ t1.val = t.val
      /\ \A k \in Refs(t) : k \in Refs(t1) \/ k = NodeKey(<< >>, w)
      /\ t.val # Placeholder => NodeKey(<< >>, n) \in Refs(t1)
  BY <1>2, RestampRefs
<1> HIDE DEF t1, t
<1>6. /\ DOMAIN recs' = IF t1.val = Placeholder THEN DOMAIN recs
                        ELSE DOMAIN recs \cup {NodeKey(<< >>, n)}
      /\ DOMAIN roots' = DOMAIN roots \cup {n} /\ roots'[n] = t1.val
      /\ Committed = 0 .. w /\ Committed' = 0 .. n /\ Created /\ Created'
      /\ ckpt'.version = n
      /\ lineage'[n] = t1
      /\ \A u \in 0 .. n : u # n =>
            lineage'[u] = IF u \in 0 .. w THEN lineage[u] ELSE EmptyTree
      /\ UNCHANGED <<stale, prune, horizon>>
  BY <1>2 DEF Stamps, Checkpoint
<1>7. SourceInv'
  BY <1>1, <1>4 DEF SourceInv
<1>8. \A u \in Retained' : u >= stamp' => HasRoot(u)'
  BY <1>2, <1>4, <1>6 DEF Retained, HasRoot
<1>9. PICK last : last = w
  OBVIOUS
<1>10. last \in Committed' /\ Spares(last)'
  <2> SUFFICES ASSUME NEW k \in DOMAIN recs', k # NodeKey(<< >>, last)
               PROVE  Accounted(k)'
    BY <1>2, <1>4, <1>6, <1>9 DEF Spares
  <2>1. CASE k \in Refs(t1)
    BY <1>6, <2>1 DEF Accounted
  <2>2. CASE k \notin Refs(t1)
    <3>1. k \in DOMAIN recs /\ k \notin Refs(t)
      BY <1>5, <1>6, <1>9, <2>2
    <3>2. PICK b \in Committed : Spares(b)
      BY <1>6 DEF ReplicaInv
    <3>3. Accounted(k)
      BY <1>4, <3>1, <3>2 DEF Spares
    <3>4. PICK s \in 0 .. w : s > 0 /\ <<s, k>> \in stale /\ k \in Refs(lineage[s - 1])
      BY <1>2, <1>6, <3>1, <3>3 DEF Accounted, t
    <3>5. s \in 0 .. n /\ s - 1 \in 0 .. n /\ s - 1 # n /\ s - 1 \in 0 .. w
      BY <1>2, <3>4
    <3>6. lineage'[s - 1] = lineage[s - 1]
      BY <1>6, <3>5
    <3> QED
      BY <1>6, <3>4, <3>5, <3>6 DEF Accounted
  <2> QED
    BY <2>1, <2>2
<1>11. PruneProgress'
  <2>1. prune.before =< n /\ prune.before \in Nat
    BY <1>1, <1>2, <1>6 DEF CoreInv, TypeOK, CheckpointCurrent
  <2> QED
    BY <1>1, <1>2, <1>6, <2>1 DEF PruneProgress
<1>12. stamp' \in Nat \cup {None} /\ stamp' =< ckpt'.version
  BY <1>2, <1>4, <1>6
<1> QED
  BY <1>3, <1>4, <1>6, <1>7, <1>8, <1>10, <1>11, <1>12 DEF ReplicaInv

\* A step of the store that keeps root records and accounts keeps the replica.
LEMMA StoreReplica ==
    ASSUME ReplicaInv, CoreInv', ReadInv', SourceInv', PruneProgress', stamp' = stamp,
           Created, Created', ckpt'.version >= ckpt.version,
           \A w : (w \in Retained => HasRoot(w)) => (w \in Retained' => HasRoot(w)'),
           \A k : (k \in DOMAIN recs => Accounted(k)) => (k \in DOMAIN recs' => Accounted(k)')
    PROVE  ReplicaInv'
<1>1. /\ stamp \in Nat \cup {None} /\ (stamp # None => stamp =< ckpt.version)
      /\ \A w \in Retained : (stamp = None \/ w >= stamp) => HasRoot(w)
  BY DEF ReplicaInv
<1>2. ckpt.version \in Nat /\ ckpt'.version \in Nat
  BY DEF ReplicaInv, CoreInv, TypeOK
<1>3. \A w \in Retained' : (stamp' = None \/ w >= stamp') => HasRoot(w)'
  BY <1>1
<1>4. PICK b \in Committed : Spares(b)
  BY DEF ReplicaInv
<1>5. b \in Committed' /\ Spares(b)'
  <2>1. b \in Committed'
    BY <1>2, <1>4 DEF Committed
  <2>2. ASSUME NEW k \in DOMAIN recs', ~(stamp # None /\ k = NodeKey(<< >>, b))
        PROVE  Accounted(k)'
    <3>1. k \in DOMAIN recs => Accounted(k)
      BY <1>4, <2>2 DEF Spares
    <3> QED
      BY <3>1
  <2> QED
    BY <2>1, <2>2 DEF Spares
<1>6. stamp' \in Nat \cup {None} /\ (stamp' # None => stamp' =< ckpt'.version)
  BY <1>1, <1>2
<1> QED
  BY <1>3, <1>5, <1>6 DEF ReplicaInv

\* A commit on the replica, of a chunk or of a batch.
LEMMA CommitReplica ==
    ASSUME ReplicaInv, Ready, NEW t1, Succeeds(t1), IsVersion(t1, version + 1),
           Commit(lineage[version], t1, version + 1),
           UNCHANGED <<up, pin, prune, horizon, stamp>>, SourceInv'
    PROVE  ReplicaInv'
<1>1. CoreInv /\ ReadInv /\ PruneProgress /\ up
  BY DEF ReplicaInv, Ready
<1>2. CoreInv' /\ ReadInv' /\ PruneProgress'
  BY <1>1, CommitInv, CommitRead, CommitProgress
<1>3. /\ ckpt'.version = version + 1 /\ version' = version + 1
      /\ version = ckpt.version /\ version \in Nat /\ Created /\ Created'
  <2>1. ckpt' = Checkpoint(t1.val, version + 1) /\ version' = version + 1
    BY DEF Commit
  <2>2. version = ckpt.version /\ version \in Nat /\ Created
    BY <1>1 DEF CoreInv, TypeOK, CheckpointCurrent
  <2> QED
    BY <2>1, <2>2 DEF Checkpoint, Created, NoCheckpoint
<1>4. ASSUME NEW w, w \in Retained => HasRoot(w), w \in Retained'
      PROVE  HasRoot(w)'
  <2>1. w \in 0 .. version' /\ w >= horizon
    BY <1>3, <1>4 DEF Retained, Committed
  <2> QED
    BY <1>1, <1>4, <2>1, CommitRoots
<1>5. ASSUME NEW k, k \in DOMAIN recs => Accounted(k), k \in DOMAIN recs'
      PROVE  Accounted(k)'
  BY <1>1, <1>5, CommitAccounts
<1> QED
  BY <1>2, <1>3, <1>4, <1>5, StoreReplica

\* The source goes on with the user's values.
LEMMA AdvanceSource ==
    ASSUME SourceInv, NEW upd \in Batches, twin' = Advance(twin, upd)
    PROVE  SourceInv'
<1> DEFINE c == Updated(twin.content, upd)
           h == HistoryLink(twin.head, twin.content, twin.version + 1)
           d == Updated(c, [x \in {HistoryPath} |-> h])
<1>1. /\ DOMAIN upd \subseteq Paths
      /\ \A x \in DOMAIN upd : upd[x] \in Values \cup {Absent}
  BY DEF Batches
<1>2. /\ c = [x \in DOMAIN c |-> c[x]]
      /\ DOMAIN c \subseteq AllPaths
      /\ \A x \in DOMAIN c \cap Paths : c[x] \in Values
      /\ \A x \in DOMAIN c : c[x] # Absent
  BY <1>1 DEF Updated, SourceInv, AllPaths
<1> HIDE DEF c
<1>3. /\ d = [x \in DOMAIN d |-> d[x]]
      /\ DOMAIN d \subseteq AllPaths
      /\ \A x \in DOMAIN d \cap Paths : d[x] \in Values
      /\ \A x \in DOMAIN d : d[x] # Absent
  BY <1>2, PathsAssumption DEF Updated, AllPaths
<1>4. Advance(twin, upd) =
        IF c = twin.content THEN twin
        ELSE IF ~Chained THEN [twin EXCEPT !.content = c, !.version = @ + 1]
        ELSE [content |-> d, version |-> twin.version + 1, head |-> h]
  BY DEF Advance, c
<1> HIDE DEF d, h
<1>5. twin.version \in Nat /\ twin.version + 1 \in Nat
  BY DEF SourceInv
<1>6. CASE c = twin.content
  BY <1>4, <1>6 DEF SourceInv
<1>7. CASE c # twin.content /\ ~Chained
  <2>1. twin' = [content |-> c, version |-> twin.version + 1, head |-> twin.head]
    BY <1>4, <1>7 DEF SourceInv
  <2> QED
    BY <1>2, <1>5, <2>1 DEF SourceInv
<1>8. CASE c # twin.content /\ Chained
  <2>1. twin' = [content |-> d, version |-> twin.version + 1, head |-> h]
    BY <1>4, <1>8
  <2> QED
    BY <1>3, <1>5, <2>1 DEF SourceInv
<1> QED
  BY <1>6, <1>7, <1>8

\* A chunk is a batch of the source's leaves, the head leaf among them.
LEMMA ChunkSucceeds ==
    ASSUME ReplicaInv, NEW C, C \subseteq DOMAIN twin.content, RestoreLeaves(C)
    PROVE  LET t1 == Apply(lineage[version], Restrict(twin.content, C), version + 1)
           IN  Succeeds(t1) /\ IsVersion(t1, version + 1)
<1> DEFINE t   == lineage[version]
           upd == Restrict(twin.content, C)
           v   == version + 1
           t1  == Apply(t, upd, v)
<1>1. up /\ t1.val # t.val
  BY DEF RestoreLeaves, Ready
<1>2. /\ version \in Nat /\ v \in Nat /\ version =< v
      /\ IsTree(t, version) /\ IsVersion(t, version)
  BY <1>1 DEF ReplicaInv, CoreInv, TypeOK, CheckpointCurrent, Committed, ReadInv
<1>3. /\ DOMAIN upd \subseteq AllPaths
      /\ \A x \in DOMAIN upd \cap Paths : upd[x] \in Values \cup {Absent}
  BY DEF Restrict, ReplicaInv, SourceInv
<1>4. DOMAIN upd \subseteq Path
  BY <1>3, PathsAssumption DEF AllPaths
<1> HIDE DEF t, upd, v
<1>5. IsTree(t1, v)
  BY <1>2, <1>4, ApplyTree
<1>6. \A k \in Refs(t1) : k.ver # v => k \in Refs(t) /\ RecordOf(t1, k) = RecordOf(t, k)
  BY <1>2, <1>4, ApplyRefs DEF IsTree
<1>7. IsVersion(t1, v)
  <2>1. Updated(t.val, upd) # t.val
    BY <1>1 DEF Apply
  <2> QED
    BY <1>2, <1>3, <2>1, ApplyVersion
<1> HIDE DEF t1
<1>8. Succeeds(t1)
  BY <1>5, <1>6 DEF Succeeds, t, v
<1> QED
  BY <1>7, <1>8 DEF t1, t, upd, v

\* RestoreLeaves commits the chunk.
LEMMA ChunkReplica ==
    ASSUME ReplicaInv, NEW C, C \subseteq DOMAIN twin.content, RestoreLeaves(C)
    PROVE  ReplicaInv'
<1> DEFINE t1 == Apply(lineage[version], Restrict(twin.content, C), version + 1)
<1>1. /\ Ready /\ Commit(lineage[version], t1, version + 1)
      /\ UNCHANGED <<up, pin, prune, horizon, stamp>> /\ twin' = twin
  BY DEF RestoreLeaves
<1>2. Succeeds(t1) /\ IsVersion(t1, version + 1)
  BY ChunkSucceeds
<1>3. SourceInv'
  BY <1>1 DEF ReplicaInv, SourceInv
<1> HIDE DEF t1
<1> QED
  BY <1>1, <1>2, <1>3, CommitReplica

\* A stamped replica commits as any store.
LEMMA ContinueReplica ==
    ASSUME ReplicaInv, NEW upd \in Batches, Continue(upd)
    PROVE  ReplicaInv'
<1> DEFINE t1 == WithLink(Apply(lineage[version], upd, version + 1), version + 1)
<1>1. /\ PutBatch(upd) /\ stamp' = stamp /\ twin' = Advance(twin, upd)
      /\ CoreInv /\ ReadInv /\ SourceInv
  BY DEF Continue, ReplicaInv
<1>2. /\ Ready /\ up /\ Commit(lineage[version], t1, version + 1)
      /\ UNCHANGED <<up, pin, prune, horizon>>
  BY <1>1 DEF PutBatch, Ready
<1>3. Succeeds(t1) /\ IsVersion(t1, version + 1)
  BY <1>1, <1>2, BatchSucceeds, BatchVersion
<1>4. SourceInv'
  BY <1>1, AdvanceSource
<1> HIDE DEF t1
<1> QED
  BY <1>1, <1>2, <1>3, <1>4, CommitReplica

\* Steps that write nothing.
LEMMA QuietReplica ==
    ASSUME ReplicaInv, CoreInv', UNCHANGED <<backend, lineage, stamp>>, SourceInv',
           horizon' >= horizon,
           prune' = prune \/ prune'.phase \in {"idle", "stale"}
    PROVE  ReplicaInv'
<1>1. UNCHANGED <<recs, stale, roots, ckpt, lineage>>
  BY DEF backend
<1>2. ReadInv'
  BY <1>1, QuietRead DEF ReplicaInv
<1>3. PruneProgress'
  BY <1>1, QuietProgress DEF ReplicaInv
<1>4. Committed' = Committed /\ Created' = Created /\ Retained' \subseteq Retained
  BY <1>1 DEF Committed, Created, Retained, ReplicaInv, CoreInv, TypeOK
<1>5. \A w : HasRoot(w)' = HasRoot(w)
  BY <1>1 DEF HasRoot
<1>6. \A w \in Retained' : (stamp' = None \/ w >= stamp') => HasRoot(w)'
  BY <1>4, <1>5 DEF ReplicaInv
<1>7. Created' => \E b \in Committed' : Spares(b)'
  <2>1. \A k : Accounted(k)' = Accounted(k)
    BY <1>1, <1>4 DEF Accounted
  <2>2. \A b : Spares(b)' = Spares(b)
    BY <1>1, <2>1 DEF Spares
  <2> QED
    BY <1>4, <2>2 DEF ReplicaInv
<1> QED
  BY <1>1, <1>2, <1>3, <1>4, <1>6, <1>7 DEF ReplicaInv

\* The replica is created while the source is at the version it exports.
LEMMA CreateReplica ==
    ASSUME ReplicaInv, Create, UNCHANGED <<twin, stamp>>
    PROVE  ReplicaInv'
<1>1. CoreInv /\ ~Created /\ stamp = None /\ SourceInv
  BY DEF ReplicaInv, Create
<1>2. CoreInv' /\ ReadInv' /\ PruneProgress' /\ DOMAIN recs' = {}
  BY <1>1, CreateInv, CreateRead, CreateErase DEF EraseInv
<1>3. Committed' = 0 .. 0 /\ Spares(0)'
  BY <1>2 DEF Create, Committed, Checkpoint, Spares
<1>4. \A w \in Retained' : HasRoot(w)'
  BY <1>3 DEF Retained, HasRoot, Create, EmptyTree
<1>5. SourceInv'
  BY <1>1 DEF SourceInv
<1> QED
  BY <1>1, <1>2, <1>3, <1>4, <1>5 DEF ReplicaInv

\* The chunks of a Prune call.
LEMMA PruneReplica ==
    ASSUME ReplicaInv, PruneStale \/ PruneRoots, UNCHANGED <<twin, stamp>>
    PROVE  ReplicaInv'
<1>1. CoreInv /\ ReadInv /\ PruneProgress /\ SourceInv
  BY DEF ReplicaInv
<1>2. CoreInv' /\ PruneProgress' /\ SourceInv'
  BY <1>1, PruneStaleInv, PruneRootsInv, PruneStaleProgress, PruneRootsProgress DEF SourceInv
<1>3. /\ UNCHANGED <<ckpt, lineage, horizon>> /\ Created /\ Created'
      /\ Retained' = Retained /\ ckpt.version \in Nat
  <2>1. UNCHANGED <<ckpt, lineage, horizon>> /\ up
    BY DEF PruneStale, PruneRoots, ghosts
  <2>2. Created /\ ckpt.version \in Nat
    BY <1>1, <2>1 DEF CoreInv, CheckpointCurrent, TypeOK
  <2> QED
    BY <2>1, <2>2 DEF Created, Retained, Committed
<1>4. ReadInv'
  <2>1. CASE PruneStale
    BY <1>1, <2>1, QuietRead DEF PruneStale, Restrict, ghosts
  <2>2. CASE PruneRoots
    BY <1>1, <2>2, QuietRead DEF PruneRoots, Restrict, ghosts
  <2> QED
    BY <2>1, <2>2
<1>5. ASSUME NEW w, w \in Retained => HasRoot(w), w \in Retained' PROVE HasRoot(w)'
  <2>1. CASE PruneStale
    BY <1>3, <1>5, <2>1 DEF PruneStale, HasRoot
  <2>2. CASE PruneRoots
    BY <1>1, <1>5, <2>2, PruneRootsRoots
  <2> QED
    BY <2>1, <2>2
<1>6. ASSUME NEW k, k \in DOMAIN recs => Accounted(k), k \in DOMAIN recs' PROVE Accounted(k)'
  <2>1. CASE PruneStale
    BY <1>6, <2>1, PruneStaleAccounts
  <2>2. CASE PruneRoots
    BY <1>3, <1>6, <2>2, QuietAccounts DEF PruneRoots
  <2> QED
    BY <2>1, <2>2
<1> QED
  BY <1>2, <1>3, <1>4, <1>5, <1>6, StoreReplica

\* Neither store nor source has done anything.
LEMMA InitReplica == RestoreInit => ReplicaInv
<1> SUFFICES ASSUME RestoreInit PROVE ReplicaInv
  OBVIOUS
<1>1. Init /\ twin = NewSource /\ stamp = None
  BY DEF RestoreInit
<1>2. CoreInv /\ ReadInv /\ PruneProgress
  BY <1>1, InitCore, InitRead, InitErase DEF EraseInv
<1>3. SourceInv
  BY <1>1 DEF NewSource, SourceInv, Placeholder
<1>4. ~Created /\ Retained = {}
  BY <1>1 DEF Init, Created, Retained, Committed, NoCheckpoint
<1> QED
  BY <1>1, <1>2, <1>3, <1>4 DEF ReplicaInv

\* Every step of the transfer, of the replica and of the source.
LEMMA NextReplica == ReplicaInv /\ [RestoreNext]_rvars => ReplicaInv'
<1> SUFFICES ASSUME ReplicaInv, [RestoreNext]_rvars PROVE ReplicaInv'
  OBVIOUS
<1>1. CoreInv /\ SourceInv /\ horizon \in Nat
  BY DEF ReplicaInv, CoreInv, TypeOK
<1>2. twin' = twin => SourceInv'
  BY <1>1 DEF SourceInv
<1>3. CASE UNCHANGED vars /\ stamp' = stamp /\ SourceInv'
  <2>1. CoreInv'
    BY <1>1, <1>3, NextCore
  <2> QED
    BY <1>1, <1>3, <2>1, QuietReplica DEF vars, ghosts
<1>4. CASE \E C \in SUBSET DOMAIN twin.content :
             C # {} /\ Cardinality(C) =< ChunkLeaves /\ RestoreLeaves(C)
  BY <1>4, ChunkReplica
<1>5. CASE StampVersion
  BY <1>5, StampReplica
<1>6. CASE StampFails
  BY <1>2, <1>3, <1>6 DEF StampFails
<1>7. CASE \E upd \in Batches : SourceCommit(upd)
  BY <1>1, <1>3, <1>7, AdvanceSource DEF SourceCommit
<1>8. CASE \E upd \in Batches : Continue(upd)
  BY <1>8, ContinueReplica
<1>9. CASE RestoreOpen
  BY <1>1, <1>2, <1>9, OpenInv, QuietReplica DEF RestoreOpen, OpenLatest, OpenAt, ghosts
<1>10. CASE StoreStep
  <2>1. UNCHANGED <<twin, stamp>>
    BY <1>10 DEF StoreStep
  <2>2. CASE Create
    BY <2>1, <2>2, CreateReplica
  <2>3. CASE Crash
    BY <1>1, <1>2, <2>1, <2>3, CrashInv, QuietReplica DEF Crash, ghosts, Idle
  <2>4. CASE \E before \in 0 .. MaxVersion : PruneStart(before)
    <3>1. PICK before \in 0 .. MaxVersion : PruneStart(before)
      BY <2>4
    <3>2. CoreInv' /\ horizon' >= horizon
      BY <1>1, <3>1, PruneStartInv, HorizonGrows
    <3> QED
      BY <1>2, <2>1, <3>1, <3>2, QuietReplica DEF PruneStart
  <2>5. CASE PruneStale \/ PruneRoots
    BY <2>1, <2>5, PruneReplica
  <2> QED
    BY <1>10, <2>2, <2>3, <2>4, <2>5 DEF StoreStep
<1>11. CASE UNCHANGED rvars
  BY <1>2, <1>3, <1>11 DEF rvars
<1> QED
  BY <1>4, <1>5, <1>6, <1>7, <1>8, <1>9, <1>10, <1>11 DEF RestoreNext

\* A replica keeps the invariants of a store, through chunks, stamps, failed
\* stamps, crashes, prunes and the commits that follow; what it has over a
\* store is at most one root node without a mark.
THEOREM ReplicaInvariance == RestoreSpec => []ReplicaInv
BY InitReplica, NextReplica, PTL DEF RestoreSpec

\* The current content of a replica can be read, key by key.
LEMMA CurrentReads ==
    ASSUME ReplicaInv, Created, NEW x \in AllPaths
    PROVE  /\ GetFrom(ckpt.root, ckpt.version, x) =
                IF x \in DOMAIN ckpt.root THEN Found(ckpt.root[x]) ELSE NotFound
           /\ LoadRootChild(ckpt.root, ckpt.version).st = "found"
           /\ ckpt.version \in Nat /\ ckpt.chained = Chained
           /\ ckpt.root = lineage[ckpt.version].val
<1> DEFINE w == ckpt.version
<1>1. /\ w \in Nat /\ w \in Committed /\ w \in Retained
      /\ ckpt.root = lineage[w].val /\ ckpt.chained = Chained
  BY DEF ReplicaInv, CoreInv, TypeOK, CheckpointCurrent, Committed, Retained
<1>2. /\ GetFrom(lineage[w].val, w, x) = Truth(w, x)
      /\ LoadRootChild(lineage[w].val, w).st = "found"
  BY <1>1, ReadsAnswer DEF ReplicaInv
<1> QED
  BY <1>1, <1>2 DEF Truth

\* Whatever failed, every leaf of the durable content is there, under the
\* version that the checkpoint names: a StampVersion whose write fails has cost
\* nothing, and one that succeeds has put the root node where readers look.
THEOREM StampSafe == RestoreSpec => []StampLosesNothing
<1>1. ReplicaInv => StampLosesNothing
  BY CurrentReads DEF StampLosesNothing
<1> QED
  BY <1>1, ReplicaInvariance, PTL

\* A Prune of a stamped replica leaves the records of its retained versions
\* and at most one root node more, for any chunking of restore and prune.
THEOREM LeakSafe == RestoreSpec => []LeakBounded
<1>1. ASSUME ReplicaInv PROVE LeakBounded
  <2> DEFINE kept  == UNION {Refs(lineage[w]) : w \in horizon .. version}
             spare == DOMAIN recs \ kept
  <2> SUFFICES ASSUME prune.phase = "done", prune.before = horizon
               PROVE  /\ Cardinality(spare) =< 1
                      /\ \A k \in spare : k.kind = "n" /\ k.at = << >>
    BY DEF LeakBounded
  <2>1. /\ Created /\ version = ckpt.version /\ version \in Nat /\ horizon \in Nat
        /\ horizon =< version /\ Committed = 0 .. version
    BY <1>1 DEF ReplicaInv, CoreInv, TypeOK, CheckpointCurrent, Committed
  <2>2. \A e \in stale : e[1] > horizon
    BY <1>1 DEF ReplicaInv, PruneProgress
  <2>3. PICK b \in Committed : Spares(b)
    BY <1>1, <2>1 DEF ReplicaInv
  <2>4. ASSUME NEW k \in DOMAIN recs, Accounted(k) PROVE k \in kept
    <3>1. CASE k \in Refs(lineage[version])
      <4>1. version \in horizon .. version
        BY <2>1
      <4> QED
        BY <3>1, <4>1
    <3>2. CASE k \notin Refs(lineage[version])
      <4>1. PICK s \in Committed : s > 0 /\ <<s, k>> \in stale /\ k \in Refs(lineage[s - 1])
        BY <2>1, <2>4, <3>2 DEF Accounted
      <4>2. s > horizon
        BY <2>2, <4>1
      <4>3. s - 1 \in horizon .. version
        BY <2>1, <4>1, <4>2
      <4> QED
        BY <4>1, <4>3
    <3> QED
      BY <3>1, <3>2
  <2>5. spare \subseteq {NodeKey(<< >>, b)}
    BY <2>3, <2>4 DEF Spares
  <2> HIDE DEF spare
  <2>6. spare = {} \/ spare = {NodeKey(<< >>, b)}
    BY <2>5
  <2>7. Cardinality(spare) =< 1
    <3>1. Cardinality({}) = 0
      BY FS_EmptySet
    <3>2. Cardinality({NodeKey(<< >>, b)}) = 1
      BY FS_Singleton
    <3>3. Cardinality(spare) = 0 \/ Cardinality(spare) = 1
      BY <2>6, <3>1, <3>2, Zenon
    <3> QED
      BY <3>3
  <2>8. \A k \in spare : k.kind = "n" /\ k.at = << >>
    BY <2>5 DEF NodeKey
  <2> QED
    BY <2>7, <2>8
<1> QED
  BY <1>1, ReplicaInvariance, PTL

-----------------------------------------------------------------------------
(* The replica and its source.                                              *)

\* The content c with the link h in its head leaf.
Linked(c, h) == Updated(c, [x \in {HistoryPath} |-> h])

\* The source's next version: the batch and, in a chained source, the link.
LEMMA AdvanceIs ==
    ASSUME SourceInv, NEW upd \in Batches,
           Updated(twin.content, upd) # twin.content, twin' = Advance(twin, upd)
    PROVE  /\ twin'.version = twin.version + 1
           /\ ~Chained => /\ twin'.content = Updated(twin.content, upd)
                          /\ twin'.head = twin.head
           /\ Chained =>
                LET h == HistoryLink(twin.head, twin.content, twin.version + 1)
                IN  /\ twin'.content = Linked(Updated(twin.content, upd), h)
                    /\ twin'.head = h
<1>1. twin = [content |-> twin.content, version |-> twin.version, head |-> twin.head]
  BY DEF SourceInv
<1>2. CASE ~Chained
  <2>1. twin' = [twin EXCEPT !.content = Updated(twin.content, upd), !.version = @ + 1]
    BY <1>2 DEF Advance
  <2> QED
    BY <1>1, <1>2, <2>1
<1>3. CASE Chained
  BY <1>3 DEF Advance, Linked
<1> QED
  BY <1>2, <1>3

\* A batch of the user's leaves the head leaf alone.
LEMMA BatchLeaf ==
    ASSUME NEW c, NEW upd \in Batches
    PROVE  /\ HistoryPath \in DOMAIN Updated(c, upd) <=> HistoryPath \in DOMAIN c
           /\ HeadLeaf(Updated(c, upd)) = HeadLeaf(c)
<1>1. HistoryPath \notin DOMAIN upd
  BY PathsAssumption DEF Batches
<1>2. /\ HistoryPath \in DOMAIN Updated(c, upd) <=> HistoryPath \in DOMAIN c
      /\ HistoryPath \in DOMAIN c => Updated(c, upd)[HistoryPath] = c[HistoryPath]
  BY <1>1 DEF Updated
<1> QED
  BY <1>2 DEF HeadLeaf

\* A content with a link has the link as its head leaf.
LEMMA LinkLeaf ==
    ASSUME NEW c, NEW h, h # Absent
    PROVE  /\ HistoryPath \in DOMAIN Linked(c, h)
           /\ Linked(c, h)[HistoryPath] = h
           /\ HeadLeaf(Linked(c, h)) = h
<1>1. HistoryPath \in DOMAIN Linked(c, h) /\ Linked(c, h)[HistoryPath] = h
  BY DEF Linked, Updated
<1> QED
  BY <1>1 DEF HeadLeaf

\* Nothing is transferred yet.
LEMMA InitFollow == RestoreInit => FollowInv
<1> SUFFICES ASSUME RestoreInit PROVE FollowInv
  OBVIOUS
<1>1. ~Created /\ ~up /\ twin = NewSource /\ stamp = None
  BY DEF RestoreInit, Init, Created
<1>2. HistoryPath \notin DOMAIN twin.content /\ twin.head = NoHead /\ twin.version = 0
  BY <1>1 DEF NewSource, Placeholder
<1> QED
  BY <1>1, <1>2 DEF FollowInv, HeadLeaf

\* Steps that neither commit nor stamp, and keep the cached head or drop it.
LEMMA QuietFollow ==
    ASSUME FollowInv, UNCHANGED <<ckpt, lineage, twin, stamp>>,
           ~up' \/ (up /\ head' = head)
    PROVE  FollowInv'
<1>1. Created' = Created
  BY DEF Created
<1>2. \A w : HeadOf(w)' = HeadOf(w)
  BY DEF HeadOf
<1> QED
  BY <1>1, <1>2 DEF FollowInv, HeadLeaf

\* The empty replica has part of every content.
LEMMA CreateFollow ==
    ASSUME ReplicaInv, FollowInv, Create, UNCHANGED <<twin, stamp>>
    PROVE  FollowInv'
<1>1. stamp = None
  BY DEF ReplicaInv, Create
<1>2. ckpt'.root = Placeholder /\ head' = NoHead
  BY DEF Create, Checkpoint
<1>3. DOMAIN ckpt'.root = {}
  BY <1>2 DEF Placeholder
<1> QED
  BY <1>1, <1>2, <1>3 DEF FollowInv, HeadLeaf

\* The source commits: its head is its new link.
LEMMA SourceFollow ==
    ASSUME LinksPresent, ReplicaInv, FollowInv, NEW upd \in Batches, SourceCommit(upd)
    PROVE  FollowInv'
<1>1. /\ ~Created /\ twin' = Advance(twin, upd) /\ UNCHANGED <<ckpt, lineage, stamp, up, head>>
  BY DEF SourceCommit, vars, backend, memory, ghosts
<1>2. ~Created' /\ ~up' /\ stamp' = None
  BY <1>1 DEF Created, ReplicaInv, CoreInv, EmptyUntilCreated
<1>3. /\ twin.head = HeadLeaf(twin.content)
      /\ HistoryPath \in DOMAIN twin.content <=> Chained /\ twin.version > 0
      /\ twin.version \in Nat /\ SourceInv
  BY DEF FollowInv, ReplicaInv, SourceInv
<1>4. CASE Updated(twin.content, upd) = twin.content
  <2>1. twin' = twin
    BY <1>1, <1>4 DEF Advance
  <2> QED
    BY <1>2, <1>3, <2>1 DEF FollowInv, HeadLeaf
<1>5. CASE Updated(twin.content, upd) # twin.content
  <2>1. twin'.version = twin.version + 1 /\ twin'.version > 0
    BY <1>1, <1>3, <1>5, AdvanceIs
  <2>2. CASE ~Chained
    <3>1. twin'.content = Updated(twin.content, upd) /\ twin'.head = twin.head
      BY <1>1, <1>3, <1>5, <2>2, AdvanceIs
    <3>2. /\ HistoryPath \in DOMAIN twin'.content <=> HistoryPath \in DOMAIN twin.content
          /\ HeadLeaf(twin'.content) = HeadLeaf(twin.content)
      BY <3>1, BatchLeaf
    <3> QED
      BY <1>2, <1>3, <2>2, <3>1, <3>2 DEF FollowInv, HeadLeaf
  <2>3. CASE Chained
    <3> DEFINE h == HistoryLink(twin.head, twin.content, twin.version + 1)
    <3>1. /\ twin'.content = Linked(Updated(twin.content, upd), h)
          /\ twin'.head = h
      BY <1>1, <1>3, <1>5, <2>3, AdvanceIs
    <3>2. h # Absent
      BY DEF LinksPresent
    <3> HIDE DEF h
    <3>3. HistoryPath \in DOMAIN twin'.content /\ twin'.head = HeadLeaf(twin'.content)
      BY <3>1, <3>2, LinkLeaf
    <3> QED
      BY <1>2, <2>1, <2>3, <3>3 DEF FollowInv, HeadLeaf
  <2> QED
    BY <2>2, <2>3
<1> QED
  BY <1>4, <1>5

\* initHistory reads the head back from the replica's own content.
LEMMA OpenFollow ==
    ASSUME ReplicaInv, FollowInv, RestoreOpen
    PROVE  FollowInv'
<1> DEFINE leaf == GetFrom(ckpt.root, ckpt.version, HistoryPath)
<1>1. /\ UNCHANGED <<ckpt, lineage, twin, stamp>> /\ Created
      /\ head' = IF leaf.st = "found" THEN leaf.out ELSE NoHead
  BY DEF RestoreOpen, OpenLatest, OpenAt, backend, ghosts
<1>2. leaf = IF HistoryPath \in DOMAIN ckpt.root THEN Found(ckpt.root[HistoryPath]) ELSE NotFound
  BY <1>1, CurrentReads DEF AllPaths
<1>3. head' = HeadLeaf(ckpt.root)
  BY <1>1, <1>2 DEF HeadLeaf, Found, NotFound
<1>4. Created' = Created
  BY <1>1 DEF Created
<1>5. \A w : HeadOf(w)' = HeadOf(w)
  BY <1>1 DEF HeadOf
<1> QED
  BY <1>1, <1>3, <1>4, <1>5 DEF FollowInv, HeadLeaf

\* A chunk brings leaves of the source, and the head with the head leaf.
LEMMA ChunkFollow ==
    ASSUME ReplicaInv, FollowInv, NEW C, C \subseteq DOMAIN twin.content, RestoreLeaves(C)
    PROVE  FollowInv'
<1> DEFINE t   == lineage[version]
           upd == Restrict(twin.content, C)
           t1  == Apply(t, upd, version + 1)
<1>1. /\ up /\ stamp = None /\ UNCHANGED <<up, twin, stamp>>
      /\ ckpt' = Checkpoint(t1.val, version + 1)
      /\ head' = Refreshed(t1.val)
  BY DEF RestoreLeaves, Commit, Ready
<1>2. ckpt'.root = Updated(t.val, upd)
  BY <1>1 DEF Checkpoint, Apply
<1>3. Created /\ t.val = ckpt.root
  BY <1>1 DEF ReplicaInv, CoreInv, CheckpointCurrent
<1>4. /\ DOMAIN ckpt.root \subseteq DOMAIN twin.content
      /\ \A x \in DOMAIN ckpt.root : ckpt.root[x] = twin.content[x]
      /\ head = HeadLeaf(ckpt.root)
      /\ HistoryPath \in DOMAIN twin.content => Chained
  BY <1>1, <1>3 DEF FollowInv
<1>5. DOMAIN upd = C /\ \A x \in C : upd[x] = twin.content[x]
  BY DEF Restrict
<1> HIDE DEF t, upd
<1>6. /\ DOMAIN ckpt'.root \subseteq DOMAIN twin.content
      /\ \A x \in DOMAIN ckpt'.root : ckpt'.root[x] = twin.content[x]
      /\ HistoryPath \in DOMAIN ckpt.root \ C => HistoryPath \in DOMAIN ckpt'.root
  BY <1>2, <1>3, <1>4, <1>5 DEF Updated
<1>7. head' = IF Chained /\ HistoryPath \in DOMAIN ckpt'.root THEN ckpt'.root[HistoryPath] ELSE head
  BY <1>1, <1>2 DEF Refreshed, Apply
<1>8. head' = HeadLeaf(ckpt'.root)
  <2>1. CASE HistoryPath \in DOMAIN ckpt'.root
    BY <1>4, <1>6, <1>7, <2>1 DEF HeadLeaf
  <2>2. CASE HistoryPath \notin DOMAIN ckpt'.root
    <3>1. HistoryPath \notin DOMAIN ckpt.root
      <4>1. ASSUME HistoryPath \in DOMAIN ckpt.root PROVE FALSE
        <5>1. HistoryPath \in C
          BY <1>6, <2>2, <4>1
        <5>2. twin.content[HistoryPath] = Absent
          BY <1>2, <1>5, <2>2, <5>1 DEF Updated
        <5> QED
          BY <5>1, <5>2 DEF ReplicaInv, SourceInv
      <4> QED
        BY <4>1
    <3> QED
      BY <1>4, <1>7, <2>2, <3>1 DEF HeadLeaf
  <2> QED
    BY <2>1, <2>2
<1> QED
  BY <1>1, <1>6, <1>8 DEF FollowInv

\* The stamp makes the replica's content and version the source's.
LEMMA StampFollow ==
    ASSUME ReplicaInv, FollowInv, StampVersion
    PROVE  FollowInv'
<1> DEFINE n == twin.version
<1>1. /\ up /\ n \in Nat /\ lineage[version].val = root /\ root = twin.content
      /\ Stamps(version, n, Restamped(lineage[version], n))
  BY StampDoes DEF ReplicaInv
<1>2. stamp' = n /\ head' = head /\ twin' = twin
  BY DEF StampVersion
<1>3. Restamped(lineage[version], n).val = root
  BY <1>1 DEF Restamped
<1>4. /\ ckpt'.root = root /\ ckpt'.version = n
      /\ lineage'[n].val = root
  BY <1>1, <1>3 DEF Stamps, Checkpoint
<1>5. head = HeadLeaf(ckpt.root) /\ ckpt.root = root
  BY <1>1 DEF FollowInv, ReplicaInv, CoreInv, CheckpointCurrent
<1>6. /\ twin.head = HeadLeaf(twin.content)
      /\ HistoryPath \in DOMAIN twin.content <=> Chained /\ n > 0
  BY DEF FollowInv
<1>7. \A w \in stamp' .. ckpt'.version : w = n
  BY <1>1, <1>2, <1>4
<1>8. Chained => \A w \in stamp' .. ckpt'.version :
          /\ w > 0 => HistoryPath \in DOMAIN lineage'[w].val
          /\ ~(w > stamp')
  BY <1>1, <1>2, <1>4, <1>6, <1>7
<1> HIDE DEF n
<1> QED
  BY <1>1, <1>2, <1>4, <1>5, <1>6, <1>8 DEF FollowInv, HeadLeaf, n

\* The cached head of a stamped replica is the head of its newest version.
LEMMA HeadCurrent ==
    ASSUME ReplicaInv, FollowInv, up, Chained, stamp # None
    PROVE  head = HeadOf(version)
<1>1. /\ version = ckpt.version /\ version \in Nat /\ Created
      /\ ckpt.root = lineage[version].val
  BY DEF ReplicaInv, CoreInv, TypeOK, CheckpointCurrent
<1>2. /\ ckpt.root = twin.content /\ version = twin.version
      /\ HistoryPath \in DOMAIN twin.content <=> twin.version > 0
      /\ head = HeadLeaf(ckpt.root)
  BY <1>1 DEF FollowInv
<1> QED
  BY <1>1, <1>2 DEF HeadOf, HeadLeaf

\* Replica and source commit the same batch.
LEMMA ContinueFollow ==
    ASSUME LinksPresent, ReplicaInv, FollowInv, NEW upd \in Batches, Continue(upd)
    PROVE  FollowInv'
<1> DEFINE t  == lineage[version]
           v  == version + 1
           t1 == WithLink(Apply(t, upd, v), v)
           h  == HistoryLink(head, root, v)
<1>1. /\ up /\ Apply(t, upd, v).val # t.val
      /\ stamp # None /\ stamp' = stamp /\ up' = up
      /\ ckpt' = Checkpoint(t1.val, v)
      /\ lineage' = [w \in 0 .. v |-> IF w = v THEN t1 ELSE lineage[w]]
      /\ head' = IF Chained THEN h ELSE head
      /\ twin' = Advance(twin, upd)
  BY DEF Continue, PutBatch, Commit, Ready
<1>2. /\ version = ckpt.version /\ version \in Nat /\ v \in Nat /\ v > 0 /\ v - 1 = version
      /\ Created /\ ckpt.root = t.val /\ root = t.val
      /\ stamp \in Nat /\ stamp =< version
  <2>1. up /\ stamp # None
    BY <1>1
  <2>2. stamp \in Nat /\ stamp =< ckpt.version /\ CoreInv
    BY <2>1 DEF ReplicaInv
  <2>3. /\ version = ckpt.version /\ version \in Nat /\ Created
        /\ ckpt.root = lineage[version].val /\ root = ckpt.root
    BY <2>1, <2>2 DEF CoreInv, TypeOK, CheckpointCurrent
  <2> QED
    BY <2>2, <2>3
<1>3. /\ twin.content = root /\ twin.version = version
      /\ head = HeadLeaf(root) /\ twin.head = head
      /\ HistoryPath \in DOMAIN root <=> Chained /\ version > 0
  BY <1>1, <1>2 DEF FollowInv
<1>4. /\ Updated(root, upd) # root
      /\ t1.val = IF Chained THEN Linked(Updated(root, upd), h) ELSE Updated(root, upd)
  BY <1>1, <1>2 DEF Apply, WithLink, Link, Linked
<1>5. h # Absent
  BY DEF LinksPresent
<1>6. /\ twin'.version = v
      /\ twin'.content = t1.val
      /\ twin'.head = IF Chained THEN h ELSE head
  BY <1>1, <1>3, <1>4, AdvanceIs DEF ReplicaInv
<1>7. /\ ckpt'.root = t1.val /\ ckpt'.version = v
      /\ lineage'[v] = t1
      /\ \A w \in 0 .. version : w # v /\ lineage'[w] = lineage[w]
  BY <1>1, <1>2 DEF Checkpoint
<1> HIDE DEF h
<1>8. /\ HistoryPath \in DOMAIN t1.val <=> Chained
      /\ head' = HeadLeaf(t1.val)
      /\ Chained => t1.val[HistoryPath] = h
  <2>1. CASE Chained
    BY <1>1, <1>4, <1>5, <2>1, LinkLeaf
  <2>2. CASE ~Chained
    BY <1>1, <1>3, <1>4, <2>2, BatchLeaf
  <2> QED
    BY <2>1, <2>2
<1> HIDE DEF t1, t
<1>9. \A w \in 0 .. version : HeadOf(w)' = HeadOf(w)
  BY <1>7 DEF HeadOf
<1>10. ASSUME Chained, NEW w \in stamp .. v
       PROVE  /\ w > 0 => HistoryPath \in DOMAIN lineage'[w].val
              /\ w > stamp => HeadOf(w)' = HistoryLink(HeadOf(w - 1)', lineage'[w - 1].val, w)
  <2>1. CASE w = v
    <3>1. HeadOf(w)' = h
      BY <1>2, <1>7, <1>8, <1>10, <2>1 DEF HeadOf
    <3>2. HeadOf(w - 1)' = head
      BY <1>1, <1>2, <1>9, <1>10, <2>1, HeadCurrent
    <3>3. lineage'[w - 1].val = root
      BY <1>2, <1>7, <2>1 DEF t
    <3> QED
      BY <1>7, <1>8, <1>10, <2>1, <3>1, <3>2, <3>3 DEF h
  <2>2. CASE w # v
    <3>1. w \in stamp .. version /\ w \in 0 .. version /\ (w > stamp => w - 1 \in 0 .. version)
      BY <1>2, <2>2
    <3>2. /\ w > 0 => HistoryPath \in DOMAIN lineage[w].val
          /\ w > stamp => HeadOf(w) = HistoryLink(HeadOf(w - 1), lineage[w - 1].val, w)
      BY <1>1, <1>2, <1>10, <3>1 DEF FollowInv
    <3> QED
      BY <1>7, <1>9, <3>1, <3>2
  <2> QED
    BY <2>1, <2>2
<1>11. twin'.head = HeadLeaf(twin'.content)
  BY <1>1, <1>6, <1>8
<1>12. HistoryPath \in DOMAIN twin'.content <=> Chained /\ twin'.version > 0
  BY <1>2, <1>6, <1>8
<1> QED
  BY <1>1, <1>2, <1>6, <1>7, <1>8, <1>10, <1>11, <1>12 DEF FollowInv, HeadLeaf

\* Every step of the transfer.
LEMMA NextFollow ==
    ASSUME LinksPresent, ReplicaInv, FollowInv, [RestoreNext]_rvars
    PROVE  FollowInv'
<1>1. CASE \E C \in SUBSET DOMAIN twin.content :
             C # {} /\ Cardinality(C) =< ChunkLeaves /\ RestoreLeaves(C)
  BY <1>1, ChunkFollow
<1>2. CASE StampVersion
  BY <1>2, StampFollow
<1>3. CASE \E upd \in Batches : SourceCommit(upd)
  BY <1>3, SourceFollow
<1>4. CASE \E upd \in Batches : Continue(upd)
  BY <1>4, ContinueFollow
<1>5. CASE RestoreOpen
  BY <1>5, OpenFollow
<1>6. CASE UNCHANGED <<ckpt, lineage, twin, stamp, up, head>>
  <2>1. ~up' \/ (up /\ head' = head)
    BY <1>6
  <2> QED
    BY <1>6, <2>1, QuietFollow
<1>7. CASE StampFails \/ UNCHANGED rvars
  BY <1>6, <1>7 DEF StampFails, rvars, vars, backend, memory, ghosts
<1>8. CASE StoreStep
  <2>1. UNCHANGED <<twin, stamp>>
    BY <1>8 DEF StoreStep
  <2>2. CASE Create
    BY <2>1, <2>2, CreateFollow
  <2>3. CASE Crash
    BY <2>1, <2>3, QuietFollow DEF Crash, backend, ghosts
  <2>4. CASE PruneStale \/ PruneRoots \/ \E before \in 0 .. MaxVersion : PruneStart(before)
    BY <1>6, <2>1, <2>4 DEF PruneStale, PruneRoots, PruneStart, backend, memory, ghosts
  <2> QED
    BY <1>8, <2>2, <2>3, <2>4 DEF StoreStep
<1> QED
  BY <1>1, <1>2, <1>3, <1>4, <1>5, <1>7, <1>8 DEF RestoreNext

\* Replica and source agree: on the leaves that have arrived, and from the
\* stamp on in content, version and head, and in the links of every version.
THEOREM FollowInvariance == LinksPresent => (RestoreSpec => []FollowInv)
<1> SUFFICES ASSUME LinksPresent PROVE RestoreSpec => []FollowInv
  OBVIOUS
<1>1. ReplicaInv /\ FollowInv /\ [RestoreNext]_rvars => FollowInv'
  BY NextFollow
<1> QED
  BY <1>1, InitFollow, InitReplica, NextReplica, PTL DEF RestoreSpec

-----------------------------------------------------------------------------
(* The theorems about a restored replica.                                   *)

\* A stamped replica is its source, for any export and any chunking: root,
\* version, head and every read, and it stays so when both commit the same
\* batches.
THEOREM FollowSafe == LinksPresent => (RestoreSpec => []ReplicaFollows)
<1> SUFFICES ASSUME LinksPresent PROVE RestoreSpec => []ReplicaFollows
  OBVIOUS
<1>1. ASSUME ReplicaInv, FollowInv PROVE ReplicaFollows
  <2> SUFFICES ASSUME up, stamp # None
               PROVE  /\ root = twin.content /\ version = twin.version
                      /\ Chained => head = twin.head
                      /\ \A x \in AllPaths :
                            GetFrom(root, version, x) =
                              IF x \in DOMAIN twin.content THEN Found(twin.content[x])
                                                           ELSE NotFound
    BY DEF ReplicaFollows
  <2>1. Created /\ version = ckpt.version /\ root = ckpt.root
    BY <1>1 DEF ReplicaInv, CoreInv, CheckpointCurrent
  <2>2. /\ ckpt.root = twin.content /\ ckpt.version = twin.version
        /\ head = HeadLeaf(ckpt.root) /\ twin.head = HeadLeaf(twin.content)
    BY <1>1 DEF FollowInv
  <2> QED
    BY <1>1, <2>1, <2>2, CurrentReads
<1> QED
  BY <1>1, ReplicaInvariance, FollowInvariance, PTL

\* A replica that died is opened again, unless it is chained and its head leaf
\* has not arrived.
THEOREM ReplicaReopenSafe == LinksPresent => (RestoreSpec => []ReplicaReopens)
<1> SUFFICES ASSUME LinksPresent PROVE RestoreSpec => []ReplicaReopens
  OBVIOUS
<1>1. ASSUME ReplicaInv, FollowInv PROVE ReplicaReopens
  <2> DEFINE leaf == GetFrom(ckpt.root, ckpt.version, HistoryPath)
  <2> SUFFICES ASSUME Created
               PROVE  Opens(ckpt.root, ckpt.version) <=>
                        (Chained /\ ckpt.version > 0 => HistoryPath \in DOMAIN ckpt.root)
    BY DEF ReplicaReopens
  <2>1. /\ leaf = IF HistoryPath \in DOMAIN ckpt.root THEN Found(ckpt.root[HistoryPath])
                                                      ELSE NotFound
        /\ LoadRootChild(ckpt.root, ckpt.version).st = "found"
        /\ ckpt.chained = Chained
    BY <1>1, CurrentReads DEF AllPaths
  <2>2. leaf.st = IF HistoryPath \in DOMAIN ckpt.root THEN "found" ELSE "absent"
    BY <2>1 DEF Found, NotFound
  <2>3. HistoryPath \in DOMAIN ckpt.root => Chained
    BY <1>1 DEF FollowInv
  <2>4. Opens(ckpt.root, ckpt.version) <=> HistoryAgrees(Chained, ckpt.version, leaf)
    BY <2>1 DEF Opens
  <2> HIDE DEF leaf
  <2>5. HistoryAgrees(Chained, ckpt.version, leaf) <=>
          (Chained /\ ckpt.version > 0 => HistoryPath \in DOMAIN ckpt.root)
    BY <2>2, <2>3, ChainedAssumption DEF HistoryAgrees
  <2> QED
    BY <2>4, <2>5
<1> QED
  BY <1>1, ReplicaInvariance, FollowInvariance, PTL

\* VerifyHistory accepts on a replica from the stamped version onwards, for
\* every version that Prune has left.
THEOREM AnchoredChainSafe == LinksPresent => (RestoreSpec => []AnchoredChainVerifies)
<1> SUFFICES ASSUME LinksPresent PROVE RestoreSpec => []AnchoredChainVerifies
  OBVIOUS
<1>1. ASSUME ReplicaInv, FollowInv PROVE AnchoredChainVerifies
  <2> SUFFICES ASSUME Chained, up, stamp # None, NEW w \in stamp .. version, w >= horizon
               PROVE  Rechained(w, HistoryHeadAt(w).out) = head
    BY DEF AnchoredChainVerifies, Ready
  <2>1. /\ CoreInv /\ ReadInv
        /\ stamp \in Nat /\ stamp =< ckpt.version
        /\ \A u \in Retained : u >= stamp => HasRoot(u)
    BY <1>1 DEF ReplicaInv
  <2>2. /\ version = ckpt.version /\ version \in Nat /\ horizon \in Nat
        /\ Committed = 0 .. version
    BY <2>1 DEF CoreInv, TypeOK, CheckpointCurrent, Committed
  <2>3. w \in Nat /\ w \in 0 .. version /\ w \in Retained /\ w \in Committed
    BY <2>1, <2>2 DEF Retained
  <2>4. ASSUME NEW u \in w + 1 .. version
        PROVE  HeadOf(u) = HistoryLink(HeadOf(u - 1), roots[u - 1], u)
    <3>1. u \in stamp .. ckpt.version /\ u > stamp /\ u - 1 \in Retained /\ u - 1 >= stamp
      BY <2>1, <2>2, <2>3 DEF Retained
    <3>2. roots[u - 1] = lineage[u - 1].val
      BY <2>1, <3>1 DEF HasRoot
    <3> QED
      BY <1>1, <3>1, <3>2 DEF FollowInv
  <2>5. Rechained(w, HeadOf(w)) = HeadOf(version)
    BY <2>2, <2>3, <2>4, ChainFrom
  <2>6. HistoryHeadAt(w).out = HeadOf(w)
    <3>1. CASE w = 0
      BY <3>1 DEF HistoryHeadAt, HeadOf, Found
    <3>2. CASE w # 0
      <4>1. w \in DOMAIN roots /\ roots[w] = lineage[w].val
        BY <2>1, <2>3 DEF HasRoot
      <4>2. GetAt(w, HistoryPath) = Truth(w, HistoryPath)
        BY <2>1, <2>3, <4>1, ReadsAnswer DEF GetAt, AllPaths
      <4>3. HistoryPath \in DOMAIN lineage[w].val
        BY <1>1, <2>2, <2>3, <3>2 DEF FollowInv
      <4> QED
        BY <3>2, <4>2, <4>3 DEF HistoryHeadAt, HeadOf, Truth, Found
    <3> QED
      BY <3>1, <3>2
  <2> QED
    BY <1>1, <2>5, <2>6, HeadCurrent
<1> QED
  BY <1>1, ReplicaInvariance, FollowInvariance, PTL
=============================================================================

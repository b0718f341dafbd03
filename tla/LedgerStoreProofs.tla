-------------------------- MODULE LedgerStoreProofs --------------------------
(***************************************************************************)
(* Proofs about LedgerStore, for every arity, depth, set of keys and values,*)
(* chunk size and bound, chained or not.                                    *)
(***************************************************************************)
EXTENDS LedgerStore, SequenceTheorems, TLAPS

-----------------------------------------------------------------------------
(* Trees.                                                                   *)

\* A position is a sequence of nibbles.
LEMMA PrefixSeq ==
    ASSUME NEW p \in Prefix
    PROVE  p \in Seq(Nibbles) /\ Len(p) \in 0 .. Depth
BY DepthAssumption DEF Prefix

\* Extending a position and taking the front gives the position back.
LEMMA FrontAppend ==
    ASSUME NEW p \in Prefix, NEW n \in Nibbles
    PROVE  /\ Append(p, n) # << >>
           /\ Front(Append(p, n)) = p
<1>1. p \in Seq(Nibbles)
  BY PrefixSeq
<1> QED
  BY <1>1 DEF Front

\* What lies below a child lies below its parent.
LEMMA UnderAppend ==
    ASSUME NEW p \in Prefix, NEW n \in Nibbles, NEW x, Under(x, Append(p, n))
    PROVE  Under(x, p)
<1>1. p \in Seq(Nibbles)
  BY PrefixSeq
<1> QED
  BY <1>1 DEF Under

\* Two contents with one subtree hash at p agree on every path below p.
LEMMA SubAgree ==
    ASSUME NEW c, NEW d, NEW p, Sub(c, p) = Sub(d, p)
    PROVE  /\ Below(c, p) = Below(d, p)
           /\ \A x \in Below(c, p) : c[x] = d[x]
BY DEF Sub, Restrict

\* Contents that agree on every path below p have one subtree hash at p.
LEMMA SubAgreeConverse ==
    ASSUME NEW c, NEW d, NEW p,
           Below(c, p) = Below(d, p),
           \A x \in Below(c, p) : c[x] = d[x]
    PROVE  Sub(c, p) = Sub(d, p)
BY DEF Sub, Restrict

\* ... and so do the hashes of the children.
LEMMA SubKid ==
    ASSUME NEW c, NEW d, NEW p \in Prefix, NEW n \in Nibbles,
           Sub(c, p) = Sub(d, p)
    PROVE  /\ Below(c, Append(p, n)) = Below(d, Append(p, n))
           /\ Sub(c, Append(p, n)) = Sub(d, Append(p, n))
<1>1. \A x : Under(x, Append(p, n)) => Under(x, p)
  BY UnderAppend
<1>2. /\ Below(c, p) = Below(d, p)
      /\ \A x \in Below(c, p) : c[x] = d[x]
  BY SubAgree
<1>3. Below(c, Append(p, n)) = Below(d, Append(p, n))
  BY <1>1, <1>2 DEF Below
<1>4. \A x \in Below(c, Append(p, n)) : c[x] = d[x]
  BY <1>1, <1>2 DEF Below
<1> QED
  BY <1>3, <1>4, SubAgreeConverse

\* A position with two leaves below it has children.
LEMMA CrowdedShort ==
    ASSUME NEW c, DOMAIN c \subseteq Path, NEW p \in Prefix, Crowded(c, p)
    PROVE  Len(p) < Depth
<1> SUFFICES ASSUME ~(Len(p) < Depth) PROVE FALSE
  OBVIOUS
<1>1. Len(p) = Depth
  BY PrefixSeq, DepthAssumption
<1>2. PICK x \in Below(c, p), y \in Below(c, p) : x # y
  BY DEF Crowded
<1>3. x \in Path /\ y \in Path
  BY <1>2 DEF Below
<1>4. \A i \in 1 .. Depth : x[i] = y[i]
  BY <1>1, <1>2 DEF Below, Under
<1>5. x = [i \in 1 .. Depth |-> x[i]] /\ y = [i \in 1 .. Depth |-> y[i]]
  BY <1>3 DEF Path
<1>6. [i \in 1 .. Depth |-> x[i]] = [i \in 1 .. Depth |-> y[i]]
  BY <1>4
<1> QED
  BY <1>2, <1>5, <1>6

-----------------------------------------------------------------------------
(* One commit.                                                              *)

\* A position whose subtree a batch left alone holds the same node.
LEMMA KeptNode ==
    ASSUME NEW t, NEW upd, NEW v,
           DOMAIN t.val \subseteq Path,
           DOMAIN upd \subseteq Path,
           NEW p \in Positions(t.val),
           p \in Positions(Updated(t.val, upd)),
           Sub(Updated(t.val, upd), p) = Sub(t.val, p)
    PROVE  NodeAt(Apply(t, upd, v), p) = NodeAt(t, p)
<1> DEFINE c == Updated(t.val, upd)
           d == t.val
           t1 == Apply(t, upd, v)
<1>0. p \in Prefix
  BY DEF Positions
<1>1. /\ Below(c, p) = Below(d, p)
      /\ \A x \in Below(c, p) : c[x] = d[x]
  BY SubAgree
<1>2. t1.val = c
  BY DEF Apply
<1>3. Crowded(c, p) <=> Crowded(d, p)
  BY <1>1 DEF Crowded
<1>4. CASE Crowded(d, p)
  <2>1. Len(p) < Depth
    BY <1>0, <1>4, CrowdedShort
  <2>2. \A n \in Nibbles : /\ Below(c, Append(p, n)) = Below(d, Append(p, n))
                           /\ Sub(c, Append(p, n)) = Sub(d, Append(p, n))
    BY <1>0, SubKid
  <2>3. Kids(c, p) = Kids(d, p)
    BY <2>2 DEF Kids
  <2>4. ASSUME NEW n \in Kids(d, p)
        PROVE  ChildRef(t1, Append(p, n)) = ChildRef(t, Append(p, n))
    <3> DEFINE q == Append(p, n)
    <3>1. n \in Nibbles
      BY DEF Kids
    <3>2. q \in Prefix
      <4>1. p \in Seq(Nibbles) /\ Len(p) \in 0 .. Depth
        BY <1>0, PrefixSeq
      <4>2. Len(p) + 1 \in 0 .. Depth
        BY <2>1, <4>1, DepthAssumption
      <4>3. q \in Seq(Nibbles) /\ Len(q) = Len(p) + 1
        BY <3>1, <4>1
      <4>4. q \in [1 .. Len(p) + 1 -> Nibbles]
        BY <4>3, LenProperties
      <4> QED
        BY <4>2, <4>4 DEF Prefix
    <3>3. q # << >> /\ Front(q) = p
      BY <1>0, <3>1, FrontAppend
    <3>4. Below(c, q) # {} /\ Below(d, q) # {}
      BY <2>2, <3>1 DEF Kids
    <3>5. q \in Positions(c) /\ q \in Positions(d)
      BY <1>3, <1>4, <3>2, <3>3, <3>4 DEF Positions
    <3>6. Sub(c, q) = Sub(d, q)
      BY <2>2, <3>1
    <3>7. t1.ver[q] = t.ver[q]
      BY <3>5, <3>6 DEF Apply
    <3>8. Crowded(c, q) <=> Crowded(d, q)
      BY <2>2, <3>1 DEF Crowded
    <3> QED
      BY <1>2, <3>6, <3>7, <3>8 DEF ChildRef
  <2> QED
    BY <1>2, <1>3, <1>4, <2>3, <2>4 DEF NodeAt
<1>5. CASE ~Crowded(d, p)
  <2>1. PICK x : x = CHOOSE y \in Below(d, p) : TRUE
    OBVIOUS
  <2>2. x \in Below(d, p)
    BY <2>1 DEF Positions
  <2>3. x = CHOOSE y \in Below(c, p) : TRUE
    BY <1>1, <2>1
  <2>4. x \in DOMAIN c /\ x \in DOMAIN d /\ c[x] = d[x]
    BY <1>1, <2>2 DEF Below
  <2>5. t1.vv[x] = t.vv[x]
    BY <2>4 DEF Apply
  <2>6. NodeAt(t1, p) = LeafNode(x, c[x], t1.vv[x])
    BY <1>2, <1>3, <1>5, <2>3 DEF NodeAt
  <2>7. NodeAt(t, p) = LeafNode(x, d[x], t.vv[x])
    BY <1>5, <2>1 DEF NodeAt
  <2> QED
    BY <2>4, <2>5, <2>6, <2>7
<1> QED
  BY <1>4, <1>5

\* A batch writes records of the new version and keeps the others as they are.
LEMMA ApplyRefs ==
    ASSUME NEW t, NEW upd, NEW v,
           DOMAIN t.val \subseteq Path,
           DOMAIN upd \subseteq Path,
           NEW k \in Refs(Apply(t, upd, v)),
           k.ver # v
    PROVE  /\ k \in Refs(t)
           /\ RecordOf(Apply(t, upd, v), k) = RecordOf(t, k)
<1> DEFINE c == Updated(t.val, upd)
           t1 == Apply(t, upd, v)
<1>1. t1.val = c
  BY DEF Apply
<1>2. CASE \E p \in Positions(c) : k = NodeKey(p, t1.ver[p])
  <2>1. PICK p \in Positions(c) : k = NodeKey(p, t1.ver[p])
    BY <1>2
  <2>2. k.ver = t1.ver[p] /\ k.at = p /\ k.kind = "n"
    BY <2>1 DEF NodeKey
  <2>3. p \in Positions(t.val) /\ Sub(c, p) = Sub(t.val, p)
    BY <2>2 DEF Apply
  <2>4. t1.ver[p] = t.ver[p]
    BY <2>3 DEF Apply
  <2>5. k \in Refs(t)
    BY <2>1, <2>3, <2>4 DEF Refs
  <2>6. NodeAt(t1, p) = NodeAt(t, p)
    BY <2>3, KeptNode
  <2> QED
    BY <2>2, <2>5, <2>6 DEF RecordOf
<1>3. CASE \E x \in DOMAIN c : k = ValueKey(x, c[x], t1.vv[x])
  <2>1. PICK x \in DOMAIN c : k = ValueKey(x, c[x], t1.vv[x])
    BY <1>3
  <2>2. k.ver = t1.vv[x] /\ k.kind = "v"
    BY <2>1 DEF ValueKey
  <2>3. x \in DOMAIN t.val /\ c[x] = t.val[x]
    BY <2>2 DEF Apply
  <2>4. t1.vv[x] = t.vv[x]
    BY <2>3 DEF Apply
  <2>5. k \in Refs(t)
    BY <2>1, <2>3, <2>4 DEF Refs
  <2> QED
    BY <2>2, <2>5 DEF RecordOf
<1> QED
  BY <1>1, <1>2, <1>3 DEF Refs

\* A batch keeps trees trees.
LEMMA ApplyTree ==
    ASSUME NEW t, NEW upd, NEW w \in Nat, NEW v \in Nat, w =< v,
           IsTree(t, w),
           DOMAIN upd \subseteq Path
    PROVE  IsTree(Apply(t, upd, v), v)
<1> DEFINE c == Updated(t.val, upd)
           t1 == Apply(t, upd, v)
<1>1. t1.val = c
  BY DEF Apply
<1>2. DOMAIN c \subseteq Path
  BY DEF Updated, IsTree
<1>3. \A x \in DOMAIN c : t1.vv[x] \in 0 .. v
  BY DEF Apply, IsTree
<1>4. \A p \in Positions(c) : t1.ver[p] \in 0 .. v
  BY DEF Apply, IsTree
<1> QED
  BY <1>1, <1>2, <1>3, <1>4 DEF IsTree

\* The records of a tree of version w have versions up to w.
LEMMA TreeRefs ==
    ASSUME NEW t, NEW w \in Nat, IsTree(t, w), NEW k \in Refs(t)
    PROVE  IsRef(k) /\ k.ver \in 0 .. w
BY DEF Refs, IsTree, IsRef, NodeKey, ValueKey

\* The two passes of a chained commit, seen as one.
LEMMA CommitRefs ==
    ASSUME NEW t, NEW upd, NEW w \in Nat, NEW v \in Nat, w =< v,
           IsTree(t, w),
           DOMAIN upd \subseteq Path
    PROVE  LET t1 == WithLink(Apply(t, upd, v), v)
           IN  /\ IsTree(t1, v)
               /\ \A k \in Refs(t1) :
                     k.ver # v =>
                        /\ k \in Refs(t)
                        /\ RecordOf(t1, k) = RecordOf(t, k)
<1> DEFINE ta == Apply(t, upd, v)
           t1 == WithLink(ta, v)
<1>1. IsTree(ta, v)
  BY ApplyTree
<1>2. \A k \in Refs(ta) : k.ver # v => /\ k \in Refs(t)
                                       /\ RecordOf(ta, k) = RecordOf(t, k)
  BY ApplyRefs DEF IsTree
<1>3. CASE Chained
  <2>1. t1 = Apply(ta, Link(v), v)
    BY <1>3 DEF WithLink
  <2>2. DOMAIN Link(v) \subseteq Path
    BY PathsAssumption DEF Link
  <2>3. IsTree(t1, v)
    BY <1>1, <2>1, <2>2, ApplyTree
  <2>4. \A k \in Refs(t1) : k.ver # v => /\ k \in Refs(ta)
                                         /\ RecordOf(t1, k) = RecordOf(ta, k)
    BY <1>1, <2>1, <2>2, ApplyRefs DEF IsTree
  <2> QED
    BY <1>2, <2>3, <2>4
<1>4. CASE ~Chained
  BY <1>1, <1>2, <1>4 DEF WithLink
<1> QED
  BY <1>3, <1>4

-----------------------------------------------------------------------------
(* The invariant.                                                           *)

\* The empty backend of a process that has not created its store satisfies
\* the invariant.
LEMMA InitCore == Init => CoreInv
<1> SUFFICES ASSUME Init PROVE CoreInv
  OBVIOUS
<1>1. ~Created /\ ckpt.version = -1 /\ Committed = {} /\ Retained = {}
  BY DEF Init, Created, Committed, Retained, NoCheckpoint
<1>2. DOMAIN recs = {} /\ DOMAIN roots = {} /\ stale = {}
  BY DEF Init, Placeholder
<1>3. TypeOK
  BY <1>1, <1>2 DEF Init, TypeOK, Idle
<1>4. EmptyUntilCreated /\ CheckpointCurrent
  BY <1>1 DEF Init, EmptyUntilCreated, CheckpointCurrent, Idle
<1>5. RecordsPast /\ StaleSafe /\ RetainedIntact
  BY <1>1, <1>2 DEF RecordsPast, StaleSafe, RetainedIntact
<1> QED
  BY <1>3, <1>4, <1>5 DEF CoreInv

\* Create writes version 0, which no record belongs to yet.
LEMMA CreateInv == CoreInv /\ Create => CoreInv'
<1> SUFFICES ASSUME CoreInv, Create PROVE CoreInv'
  OBVIOUS
<1>1. ckpt' = Checkpoint(Placeholder, 0) /\ Committed' = 0 .. 0 /\ Created'
  BY DEF Create, Committed, Checkpoint, Created, NoCheckpoint
<1>2. lineage'[0] = EmptyTree /\ DOMAIN lineage' = {0}
  BY DEF Create
<1>3. Positions(Placeholder) = {} /\ DOMAIN Placeholder = {}
  BY DEF Positions, Below, Placeholder
<1>4. IsTree(EmptyTree, 0) /\ Refs(EmptyTree) = {}
  BY <1>3 DEF IsTree, Refs, EmptyTree
<1>5. recs' = recs /\ stale' = stale /\ DOMAIN recs = {} /\ stale = {}
  <2>1. Committed = {}
    BY DEF CoreInv, EmptyUntilCreated, Create, Committed
  <2> QED
    BY <2>1 DEF CoreInv, RecordsPast, StaleSafe, Create
<1>6. TypeOK'
  <2>1. ckpt'.version = 0 /\ ckpt'.chained = Chained
    BY <1>1 DEF Checkpoint
  <2>2. DOMAIN roots' \subseteq Nat
    BY DEF Create
  <2>3. /\ UNCHANGED <<prune, horizon>>
        /\ up' = TRUE /\ version' = 0 /\ pin' = None
    BY DEF Create
  <2> QED
    BY <1>5, <2>1, <2>2, <2>3 DEF CoreInv, TypeOK
<1>7. EmptyUntilCreated' /\ CheckpointCurrent'
  <2>1. ckpt'.version = 0 /\ ckpt'.root = EmptyTree.val
    BY <1>1 DEF Checkpoint, EmptyTree
  <2>2. version' = 0 /\ root' = ckpt'.root
    BY <1>1 DEF Create, Checkpoint
  <2> QED
    BY <1>1, <1>2, <1>4, <2>1, <2>2 DEF CoreInv, EmptyUntilCreated,
       CheckpointCurrent, Create
<1>8. RecordsPast' /\ StaleSafe' /\ RetainedIntact'
  BY <1>1, <1>2, <1>4, <1>5 DEF RecordsPast, StaleSafe,
     RetainedIntact, Retained, Create, EmptyTree
<1> QED
  BY <1>6, <1>7, <1>8 DEF CoreInv

\* Steps that leave the backend and the lineage alone.
LEMMA MemoryInv ==
    ASSUME CoreInv, UNCHANGED <<backend, lineage>>,
           TypeOK', EmptyUntilCreated', CheckpointCurrent',
           horizon' >= horizon
    PROVE  CoreInv'
<1>1. Committed' = Committed /\ Retained' \subseteq Retained
  BY DEF backend, Committed, Retained, CoreInv, TypeOK
<1>2. RecordsPast' /\ StaleSafe' /\ RetainedIntact'
  BY <1>1 DEF CoreInv, RecordsPast, StaleSafe, RetainedIntact, backend
<1> QED
  BY <1>2 DEF CoreInv

\* OpenLatest rebuilds the memory from the checkpoint and writes nothing.
LEMMA OpenInv == CoreInv /\ OpenLatest => CoreInv'
<1> SUFFICES ASSUME CoreInv, OpenLatest PROVE CoreInv'
  OBVIOUS
<1>1. UNCHANGED <<backend, lineage>> /\ horizon' = horizon
  BY DEF OpenLatest, OpenAt, ghosts
<1>2. Created /\ Created' /\ Committed' = Committed
  BY <1>1 DEF OpenLatest, OpenAt, Created, Committed, backend
<1>3. TypeOK'
  BY <1>1, <1>2 DEF CoreInv, TypeOK, OpenLatest, OpenAt, backend
<1>4. CheckpointCurrent' /\ EmptyUntilCreated'
  BY <1>1, <1>2 DEF CoreInv, CheckpointCurrent, EmptyUntilCreated, OpenLatest,
     OpenAt, backend, TypeOK
<1> QED
  BY <1>1, <1>3, <1>4, MemoryInv DEF CoreInv, TypeOK

\* A crash, also in the middle of a Prune, loses memory only.
LEMMA CrashInv == CoreInv /\ Crash => CoreInv'
<1> SUFFICES ASSUME CoreInv, Crash PROVE CoreInv'
  OBVIOUS
<1>1. UNCHANGED <<backend, lineage>> /\ horizon' = horizon
  BY DEF Crash, ghosts
<1>2. Created' = Created /\ Committed' = Committed
  BY <1>1 DEF Created, Committed, backend
<1>3. TypeOK'
  BY <1>1, <1>2 DEF CoreInv, TypeOK, Crash, backend, Idle
<1>4. CheckpointCurrent' /\ EmptyUntilCreated'
  BY <1>1, <1>2 DEF CoreInv, CheckpointCurrent, EmptyUntilCreated, Crash,
     backend, Idle, TypeOK
<1> QED
  BY <1>1, <1>3, <1>4, MemoryInv DEF CoreInv, TypeOK

\* PinVersion touches the pin alone.
LEMMA PinInv ==
    ASSUME CoreInv, NEW v \in (0 .. version) \cup {None}, PinVersion(v)
    PROVE  CoreInv'
<1>1. UNCHANGED <<backend, lineage>> /\ horizon' = horizon
  BY DEF PinVersion, ghosts
<1>2. Created' = Created /\ Committed' = Committed
  BY <1>1 DEF Created, Committed, backend
<1>3. TypeOK'
  BY <1>1, <1>2 DEF CoreInv, TypeOK, PinVersion, backend
<1>4. CheckpointCurrent' /\ EmptyUntilCreated'
  BY <1>1, <1>2 DEF CoreInv, CheckpointCurrent, EmptyUntilCreated, PinVersion,
     backend
<1> QED
  BY <1>1, <1>3, <1>4, MemoryInv DEF CoreInv, TypeOK

\* A Prune call raises the horizon to at most the current version.
LEMMA PruneStartInv ==
    ASSUME CoreInv, NEW before \in Nat, PruneStart(before)
    PROVE  CoreInv'
<1>1. UNCHANGED <<backend, lineage>> /\ UNCHANGED memory
  BY DEF PruneStart
<1>2. Created' = Created /\ Committed' = Committed
  BY <1>1 DEF Created, Committed, backend
<1>3. Capped(before) \in Nat
  BY NoneAssumption DEF Capped, CoreInv, TypeOK
<1>4. /\ horizon' \in Nat
      /\ horizon' >= horizon
      /\ horizon' >= Capped(before)
      /\ horizon' = horizon \/ horizon' = Capped(before)
  BY <1>3 DEF PruneStart, CoreInv, TypeOK
<1>5. TypeOK'
  BY <1>1, <1>2, <1>3, <1>4 DEF CoreInv, TypeOK, PruneStart, backend, memory
<1>6. CheckpointCurrent' /\ EmptyUntilCreated'
  BY <1>1, <1>2, <1>3, <1>4 DEF CoreInv, TypeOK, CheckpointCurrent,
     EmptyUntilCreated, PruneStart, Ready, backend, memory
<1> QED
  BY <1>1, <1>4, <1>5, <1>6, MemoryInv

\* A Prune call that returns an error leaves what its chunks have done.
LEMMA PruneFailsInv == CoreInv /\ PruneFails => CoreInv'
<1> SUFFICES ASSUME CoreInv, PruneFails PROVE CoreInv'
  OBVIOUS
<1>1. UNCHANGED <<backend, lineage, memory>> /\ horizon' = horizon
  BY DEF PruneFails, ghosts
<1>2. Created' = Created /\ Committed' = Committed
  BY <1>1 DEF Created, Committed, backend
<1>3. TypeOK'
  BY <1>1, <1>2 DEF CoreInv, TypeOK, PruneFails, backend, memory, Idle
<1>4. CheckpointCurrent' /\ EmptyUntilCreated'
  BY <1>1, <1>2 DEF CoreInv, CheckpointCurrent, EmptyUntilCreated, PruneFails,
     backend, memory, Idle, TypeOK
<1> QED
  BY <1>1, <1>3, <1>4, MemoryInv DEF CoreInv, TypeOK

\* Deleting a chunk of stale targets hits no record of a retained version: the
\* marks are at or below the horizon, and StaleSafe.
LEMMA PruneStaleInv == CoreInv /\ PruneStale => CoreInv'
<1> SUFFICES ASSUME CoreInv, PruneStale PROVE CoreInv'
  OBVIOUS
<1>1. PICK C : /\ C \subseteq {e \in stale : e[1] =< prune.before}
               /\ recs' = Restrict(recs, DOMAIN recs \ {e[2] : e \in C})
               /\ stale' = stale \ C
               /\ prune' = After(C, "stale", "roots")
  BY DEF PruneStale
<1>2. UNCHANGED <<roots, ckpt, memory, ghosts>> /\ prune.phase = "stale"
  BY DEF PruneStale
<1>3. Created' = Created /\ Committed' = Committed /\ Retained' = Retained
  BY <1>2 DEF Created, Committed, Retained, ghosts
<1>4. /\ prune'.before = prune.before
      /\ prune'.phase \in {"stale", "roots"}
  BY <1>1 DEF After, CoreInv, TypeOK
<1>5. DOMAIN recs' \subseteq DOMAIN recs
  BY <1>1 DEF Restrict
<1>6. TypeOK'
  <2>1. \A k \in DOMAIN recs' : IsRef(k)
    BY <1>5 DEF CoreInv, TypeOK
  <2>2. \A e \in stale' : e[1] \in Nat /\ IsRef(e[2])
    BY <1>1 DEF CoreInv, TypeOK
  <2> QED
    BY <1>2, <1>3, <1>4, <2>1, <2>2 DEF CoreInv, TypeOK, memory, ghosts
<1>7. EmptyUntilCreated' /\ CheckpointCurrent'
  BY <1>2, <1>3, <1>4 DEF CoreInv, EmptyUntilCreated, CheckpointCurrent, memory,
     ghosts
<1>8. RecordsPast' /\ StaleSafe'
  BY <1>1, <1>2, <1>3, <1>5 DEF CoreInv, RecordsPast, StaleSafe, ghosts
<1>9. RetainedIntact'
  <2> SUFFICES ASSUME NEW w \in Retained, NEW k \in Refs(lineage[w])
               PROVE  k \in DOMAIN recs' /\ recs'[k] = RecordOf(lineage[w], k)
    BY <1>2, <1>3 DEF RetainedIntact, ghosts
  <2>1. k \in DOMAIN recs /\ recs[k] = RecordOf(lineage[w], k)
    BY DEF CoreInv, RetainedIntact
  <2>2. ASSUME NEW e \in C PROVE e[2] # k
    <3>1. e \in stale /\ e[1] =< prune.before
      BY <1>1
    <3>2. prune.before =< horizon
      BY <1>2 DEF CoreInv, CheckpointCurrent
    <3>3. w \in Committed /\ w >= horizon
      BY DEF Retained
    <3>4. w >= e[1]
      BY <3>1, <3>2, <3>3 DEF CoreInv, TypeOK, Committed
    <3> QED
      BY <3>1, <3>3, <3>4 DEF CoreInv, StaleSafe
  <2>3. k \in DOMAIN recs \ {e[2] : e \in C}
    BY <2>1, <2>2
  <2> QED
    BY <1>1, <2>1, <2>3 DEF Restrict
<1> QED
  BY <1>6, <1>7, <1>8, <1>9 DEF CoreInv

\* A chunk of root records goes only from below the horizon.
LEMMA PruneRootsInv == CoreInv /\ PruneRoots => CoreInv'
<1> SUFFICES ASSUME CoreInv, PruneRoots PROVE CoreInv'
  OBVIOUS
<1>1. PICK C : /\ C \subseteq {v \in DOMAIN roots : v < prune.before}
               /\ roots' = Restrict(roots, DOMAIN roots \ C)
               /\ prune' = After(C, "roots", "done")
  BY DEF PruneRoots
<1>2. UNCHANGED <<recs, stale, ckpt, memory, ghosts>> /\ prune.phase = "roots"
  BY DEF PruneRoots
<1>3. Created' = Created /\ Committed' = Committed /\ Retained' = Retained
  BY <1>2 DEF Created, Committed, Retained, ghosts
<1>4. /\ prune'.before = prune.before
      /\ prune'.phase \in {"roots", "done"}
  BY <1>1 DEF After, CoreInv, TypeOK
<1>5. TypeOK'
  <2>1. DOMAIN roots' \subseteq Nat
    BY <1>1 DEF Restrict, CoreInv, TypeOK
  <2> QED
    BY <1>2, <1>3, <1>4, <2>1 DEF CoreInv, TypeOK, memory, ghosts
<1>6. EmptyUntilCreated' /\ CheckpointCurrent'
  BY <1>2, <1>3, <1>4 DEF CoreInv, EmptyUntilCreated, CheckpointCurrent, memory,
     ghosts
<1>7. RecordsPast' /\ StaleSafe' /\ RetainedIntact'
  BY <1>1, <1>2, <1>3 DEF CoreInv, RecordsPast, StaleSafe, RetainedIntact, Restrict, ghosts
<1> QED
  BY <1>5, <1>6, <1>7 DEF CoreInv

\* What a commit of a tree t1 needs to be true of it: its records are of the
\* new version or those of the current tree.
Succeeds(t1) ==
    /\ IsTree(t1, version + 1)
    /\ \A k \in Refs(t1) :
          k.ver # version + 1 =>
              /\ k \in Refs(lineage[version])
              /\ RecordOf(t1, k) = RecordOf(lineage[version], k)

\* A commit writes new records only, and marks only what its tree has dropped.
LEMMA CommitInv ==
    ASSUME CoreInv, Ready, NEW t1, Succeeds(t1),
           Commit(lineage[version], t1, version + 1),
           UNCHANGED <<up, pin, prune, horizon>>
    PROVE  CoreInv'
<1> DEFINE t  == lineage[version]
           v  == version + 1
           written == {k \in Refs(t1) : k.ver = v}
<1>1. /\ up
      /\ prune.phase \in {"idle", "done"}
      /\ recs' = [k \in DOMAIN recs \cup written |->
                    IF k \in written THEN RecordOf(t1, k) ELSE recs[k]]
      /\ stale' = stale \cup {<<v, k>> : k \in Refs(t) \ Refs(t1)}
      /\ roots' = [w \in DOMAIN roots \cup {v} |->
                    IF w = v THEN t1.val ELSE roots[w]]
      /\ ckpt' = Checkpoint(t1.val, v)
      /\ root' = t1.val
      /\ version' = v
      /\ lineage' = [w \in 0 .. v |-> IF w = v THEN t1 ELSE lineage[w]]
      /\ UNCHANGED <<up, pin, prune, horizon>>
  BY DEF Commit, Ready
<1>2. /\ version \in Nat /\ v \in Nat /\ version < v
      /\ Created /\ version = ckpt.version /\ Committed = 0 .. version
      /\ horizon =< version /\ horizon \in Nat
      /\ version \in Retained
  BY <1>1 DEF CoreInv, TypeOK, CheckpointCurrent, Committed, Retained
<1>3. /\ ckpt'.version = v /\ ckpt'.root = t1.val /\ ckpt'.chained = Chained
      /\ Created' /\ Committed' = 0 .. v
      /\ Retained' = Retained \cup {v}
  BY <1>1, <1>2 DEF Checkpoint, Created, NoCheckpoint, Committed, Retained
<1>5. /\ IsTree(t1, v)
      /\ \A k \in Refs(t1) :
            k.ver # v => k \in Refs(t) /\ RecordOf(t1, k) = RecordOf(t, k)
  BY DEF Succeeds
<1>6. /\ lineage'[v] = t1
      /\ \A w \in Committed : lineage'[w] = lineage[w] /\ w \in 0 .. v /\ w < v
      /\ DOMAIN lineage' = 0 .. v
      /\ Committed' = Committed \cup {v}
  BY <1>1, <1>2, <1>3
<1>7. \A k \in Refs(t1) : IsRef(k) /\ k.ver \in 0 .. v
  BY <1>2, <1>5, TreeRefs
<1>8. \A w \in Committed : \A k \in Refs(lineage[w]) :
          IsRef(k) /\ k.ver \in 0 .. version
  <2> SUFFICES ASSUME NEW w \in Committed, NEW k \in Refs(lineage[w])
               PROVE  IsRef(k) /\ k.ver \in 0 .. version
    OBVIOUS
  <2>1. w \in Nat /\ w =< version /\ IsTree(lineage[w], w)
    BY <1>2 DEF CoreInv, CheckpointCurrent
  <2>2. IsRef(k) /\ k.ver \in 0 .. w
    BY <2>1, TreeRefs
  <2> QED
    BY <1>2, <2>1, <2>2
<1>9. TypeOK'
  <2>1. \A k \in DOMAIN recs' : IsRef(k)
    BY <1>1, <1>7 DEF CoreInv, TypeOK
  <2>2. \A e \in stale' : e[1] \in Nat /\ IsRef(e[2])
    <3>1. version \in Committed
      BY <1>2
    <3>2. \A k \in Refs(t) : IsRef(k)
      BY <1>8, <3>1
    <3> QED
      BY <1>1, <1>2, <3>2 DEF CoreInv, TypeOK
  <2>3. DOMAIN roots' \subseteq Nat
    BY <1>1, <1>2 DEF CoreInv, TypeOK
  <2> QED
    BY <1>1, <1>2, <1>3, <2>1, <2>2, <2>3 DEF CoreInv, TypeOK
<1>10. EmptyUntilCreated' /\ CheckpointCurrent'
  <2>1. \A w \in Committed' : IsTree(lineage'[w], w)
    BY <1>2, <1>5, <1>6 DEF CoreInv, CheckpointCurrent
  <2>2. horizon' =< ckpt'.version
    BY <1>1, <1>2, <1>3
  <2>3. ckpt'.root = lineage'[ckpt'.version].val /\ DOMAIN lineage' = Committed'
    BY <1>3, <1>6
  <2>4. prune'.before =< horizon' /\ (prune'.phase # "idle" => up')
    BY <1>1 DEF CoreInv, CheckpointCurrent
  <2> QED
    BY <1>1, <1>3, <2>1, <2>2, <2>3, <2>4 DEF EmptyUntilCreated, CheckpointCurrent
<1>12. RecordsPast'
  BY <1>1, <1>2, <1>3, <1>6, <1>7 DEF CoreInv, RecordsPast
<1>13. StaleSafe'
  <2> SUFFICES ASSUME NEW e \in stale'
               PROVE  /\ e[1] \in Committed'
                      /\ e[2].ver < e[1]
                      /\ \A w \in Committed' :
                            w >= e[1] => e[2] \notin Refs(lineage'[w])
    BY DEF StaleSafe
  <2>1. CASE e \in stale
    <3>1. /\ e[1] \in Committed /\ e[2].ver < e[1]
          /\ \A w \in Committed : w >= e[1] => e[2] \notin Refs(lineage[w])
          /\ e[1] \in Nat /\ e[2].ver \in Nat
      BY <2>1 DEF CoreInv, StaleSafe, TypeOK, IsRef
    <3>2. e[2] \notin Refs(t)
      BY <1>2, <3>1
    <3>3. e[2].ver # v
      BY <1>2, <3>1
    <3>4. e[2] \notin Refs(t1)
      BY <1>5, <3>2, <3>3
    <3> QED
      BY <1>6, <3>1, <3>4
  <2>2. CASE e \notin stale
    <3>1. PICK k \in Refs(t) \ Refs(t1) : e = <<v, k>>
      BY <1>1, <2>2
    <3>2. k.ver \in 0 .. version
      BY <1>2, <1>8, <3>1
    <3>3. \A w \in Committed' : w >= v => w = v
      BY <1>2, <1>3
    <3> QED
      BY <1>2, <1>3, <1>6, <3>1, <3>2, <3>3
  <2> QED
    BY <2>1, <2>2
<1>14. RetainedIntact'
  <2> SUFFICES ASSUME NEW w \in Retained', NEW k \in Refs(lineage'[w])
               PROVE  k \in DOMAIN recs' /\ recs'[k] = RecordOf(lineage'[w], k)
    BY DEF RetainedIntact
  <2>1. CASE w = v
    <3>1. CASE k.ver = v
      BY <1>1, <1>6, <2>1, <3>1
    <3>2. CASE k.ver # v
      <4>1. k \in Refs(t) /\ RecordOf(t1, k) = RecordOf(t, k)
        BY <1>5, <1>6, <2>1, <3>2
      <4>2. k \in DOMAIN recs /\ recs[k] = RecordOf(t, k)
        BY <1>2, <4>1 DEF CoreInv, RetainedIntact
      <4> QED
        BY <1>1, <1>6, <2>1, <3>2, <4>1, <4>2
    <3> QED
      BY <3>1, <3>2
  <2>2. CASE w # v
    <3>1. w \in Retained /\ w \in Committed
      BY <1>3, <2>2 DEF Retained
    <3>2. k \in Refs(lineage[w]) /\ lineage'[w] = lineage[w]
      BY <1>6, <3>1
    <3>3. k.ver # v
      BY <1>2, <1>8, <3>1, <3>2
    <3>4. k \in DOMAIN recs /\ recs[k] = RecordOf(lineage[w], k)
      BY <3>1, <3>2 DEF CoreInv, RetainedIntact
    <3> QED
      BY <1>1, <3>2, <3>3, <3>4
  <2> QED
    BY <2>1, <2>2
<1> QED
  BY <1>9, <1>10, <1>12, <1>13, <1>14 DEF CoreInv

\* The tree that PutBatch commits succeeds the current one.
LEMMA BatchSucceeds ==
    ASSUME CoreInv, NEW upd \in Batches, up
    PROVE  Succeeds(WithLink(Apply(lineage[version], upd, version + 1), version + 1))
<1>1. /\ version \in Nat /\ version + 1 \in Nat /\ version =< version + 1
      /\ IsTree(lineage[version], version)
  BY DEF CoreInv, TypeOK, CheckpointCurrent, Committed
<1>2. DOMAIN upd \subseteq Path
  BY PathsAssumption DEF Batches
<1> QED
  BY <1>1, <1>2, CommitRefs DEF Succeeds

\* PutBatch commits the batch and, in a chained store, the link.
LEMMA PutBatchInv ==
    ASSUME CoreInv, NEW upd \in Batches, PutBatch(upd)
    PROVE  CoreInv'
<1> DEFINE t1 == WithLink(Apply(lineage[version], upd, version + 1), version + 1)
<1>1. /\ Ready /\ Commit(lineage[version], t1, version + 1)
      /\ UNCHANGED <<up, pin, prune, horizon>>
  BY DEF PutBatch
<1>2. Succeeds(t1)
  BY <1>1, BatchSucceeds DEF Ready
<1> HIDE DEF t1
<1> QED
  BY <1>1, <1>2, CommitInv

\* Every step of the store preserves the invariant.
LEMMA NextCore == CoreInv /\ [Next]_vars => CoreInv'
<1> SUFFICES ASSUME CoreInv, [Next]_vars PROVE CoreInv'
  OBVIOUS
<1>1. CASE Create
  BY <1>1, CreateInv
<1>2. CASE OpenLatest
  BY <1>2, OpenInv
<1>3. CASE Crash
  BY <1>3, CrashInv
<1>4. CASE \E upd \in Batches : PutBatch(upd)
  BY <1>4, PutBatchInv
<1>5. CASE \E v \in (0 .. version) \cup {None} : PinVersion(v)
  BY <1>5, PinInv
<1>6. CASE \E before \in 0 .. MaxVersion : PruneStart(before)
  BY <1>6, PruneStartInv
<1>7. CASE \E window \in 0 .. MaxVersion : RetainRecent(window)
  <2>1. PICK window \in 0 .. MaxVersion : RetainRecent(window)
    BY <1>7
  <2> DEFINE before == IF window > version THEN 0 ELSE version - window
  <2>2. before \in Nat
    BY DEF CoreInv, TypeOK
  <2>3. PruneStart(before)
    BY <2>1 DEF RetainRecent
  <2> QED
    BY <2>2, <2>3, PruneStartInv
<1>8. CASE PruneStale
  BY <1>8, PruneStaleInv
<1>9. CASE PruneRoots
  BY <1>9, PruneRootsInv
<1>10. CASE PruneFails
  BY <1>10, PruneFailsInv
<1>11. CASE UNCHANGED vars
  <2>1. UNCHANGED <<backend, lineage, memory, prune>> /\ horizon' = horizon
    BY <1>11 DEF vars, ghosts
  <2>2. Created' = Created /\ Committed' = Committed
    BY <2>1 DEF Created, Committed, backend
  <2>3. TypeOK' /\ EmptyUntilCreated' /\ CheckpointCurrent'
    BY <2>1, <2>2 DEF CoreInv, TypeOK, EmptyUntilCreated, CheckpointCurrent,
       backend, memory
  <2> QED
    BY <2>1, <2>3, MemoryInv DEF CoreInv, TypeOK
<1> QED
  BY <1>1, <1>2, <1>3, <1>4, <1>5, <1>6, <1>7, <1>8, <1>9, <1>10, <1>11 DEF Next

-----------------------------------------------------------------------------
(* Root records.                                                            *)

\* A commit writes the root record of its version and keeps the others.
LEMMA CommitRoots ==
    ASSUME CoreInv, up, NEW t1, Commit(lineage[version], t1, version + 1),
           NEW w, w \in Retained => HasRoot(w)
    PROVE  w \in 0 .. version' /\ w >= horizon => HasRoot(w)'
<1>1. /\ version \in Nat /\ Committed = 0 .. version
      /\ version' = version + 1
      /\ roots' = [u \in DOMAIN roots \cup {version + 1} |->
                    IF u = version + 1 THEN t1.val ELSE roots[u]]
      /\ lineage' = [u \in 0 .. version + 1 |-> IF u = version + 1 THEN t1 ELSE lineage[u]]
  BY DEF Commit, CoreInv, TypeOK, CheckpointCurrent, Committed
<1>2. CASE w = version + 1
  BY <1>1, <1>2 DEF HasRoot
<1>3. CASE w # version + 1
  BY <1>1, <1>3 DEF HasRoot, Retained
<1> QED
  BY <1>2, <1>3

\* A chunk of root records goes only from below the horizon.
LEMMA PruneRootsRoots ==
    ASSUME CoreInv, PruneRoots, NEW w, w \in Retained => HasRoot(w)
    PROVE  w \in Retained' => HasRoot(w)'
<1>1. PICK C : /\ C \subseteq {v \in DOMAIN roots : v < prune.before}
               /\ roots' = Restrict(roots, DOMAIN roots \ C)
  BY DEF PruneRoots
<1>2. UNCHANGED <<ckpt, ghosts>> /\ Retained' = Retained
  BY DEF PruneRoots, Committed, Retained, ghosts
<1>3. w \in Retained => w \notin C
  BY <1>1 DEF Retained, Committed, CoreInv, CheckpointCurrent, TypeOK
<1> QED
  BY <1>1, <1>2, <1>3 DEF HasRoot, Restrict, ghosts

\* Every other step leaves the root records alone.
LEMMA QuietRoots ==
    ASSUME CoreInv, UNCHANGED <<roots, ckpt, lineage>>, horizon' \in Nat, horizon' >= horizon,
           NEW w, w \in Retained => HasRoot(w)
    PROVE  w \in Retained' => HasRoot(w)'
BY DEF CoreInv, TypeOK, Retained, Committed, HasRoot

\* A Prune call does not lower the horizon.
LEMMA HorizonGrows ==
    ASSUME CoreInv, NEW before \in Nat, PruneStart(before)
    PROVE  horizon' \in Nat /\ horizon' >= horizon
BY NoneAssumption DEF PruneStart, Capped, CoreInv, TypeOK

\* Every step keeps the root records of the retained versions.
LEMMA NextRoots == CoreInv /\ RootsKept /\ [Next]_vars => RootsKept'
<1> SUFFICES ASSUME CoreInv, RootsKept, [Next]_vars, NEW w \in Retained' PROVE HasRoot(w)'
  BY DEF RootsKept
<1>1. w \in Retained => HasRoot(w)
  BY DEF RootsKept
<1>2. CASE Create
  BY <1>2 DEF Create, HasRoot, Retained, Committed, Checkpoint, EmptyTree
<1>3. CASE \E upd \in Batches : PutBatch(upd)
  <2>1. PICK upd \in Batches : PutBatch(upd)
    BY <1>3
  <2> DEFINE t1 == WithLink(Apply(lineage[version], upd, version + 1), version + 1)
  <2>2. /\ up /\ Commit(lineage[version], t1, version + 1)
        /\ ckpt'.version = version' /\ horizon' = horizon
    BY <2>1 DEF PutBatch, Ready, Commit, Checkpoint
  <2> HIDE DEF t1
  <2>3. w \in 0 .. version' /\ w >= horizon
    BY <2>2 DEF Retained, Committed
  <2> QED
    BY <1>1, <2>2, <2>3, CommitRoots
<1>4. CASE PruneRoots
  BY <1>1, <1>4, PruneRootsRoots
<1>5. ASSUME NEW before \in Nat, PruneStart(before) PROVE HasRoot(w)'
  BY <1>1, <1>5, HorizonGrows, QuietRoots DEF PruneStart, backend
<1>6. CASE \E before \in 0 .. MaxVersion : PruneStart(before)
  BY <1>5, <1>6
<1>7. CASE \E window \in 0 .. MaxVersion : RetainRecent(window)
  <2>1. PICK window \in 0 .. MaxVersion : RetainRecent(window)
    BY <1>7
  <2>2. (IF window > version THEN 0 ELSE version - window) \in Nat
    BY DEF CoreInv, TypeOK
  <2> QED
    BY <1>5, <2>1, <2>2 DEF RetainRecent
<1>8. CASE UNCHANGED <<roots, ckpt, lineage, horizon>>
  BY <1>1, <1>8, QuietRoots DEF CoreInv, TypeOK
<1>9. CASE \/ OpenLatest \/ Crash \/ PruneFails \/ PruneStale \/ UNCHANGED vars
           \/ \E v \in (0 .. version) \cup {None} : PinVersion(v)
  BY <1>8, <1>9 DEF OpenLatest, OpenAt, Crash, PruneFails, PruneStale, PinVersion, vars,
     backend, ghosts
<1> QED
  BY <1>2, <1>3, <1>4, <1>6, <1>7, <1>9 DEF Next

-----------------------------------------------------------------------------
(* The theorems.                                                            *)

\* The two invariants together.
LEMMA InitInv == Init => IndInv
  BY InitCore DEF IndInv, RootsKept, Retained, Committed, Init, NoCheckpoint

\* Every step of the store preserves both.
LEMMA NextInv == IndInv /\ [Next]_vars => IndInv'
  BY NextCore, NextRoots DEF IndInv

\* The inductive invariant holds in every reachable state.
THEOREM Invariance == Spec => []IndInv
BY InitInv, NextInv, PTL DEF Spec

\* Every variable keeps to its type in every reachable state.
THEOREM TypeCorrect == Spec => []TypeOK
<1>1. IndInv => TypeOK
  BY DEF IndInv, CoreInv
<1> QED
  BY <1>1, Invariance, PTL

\* For any keys, values, arity, depth, chunk size and number of versions, with
\* or without the history chain, and through any interleaving of commits,
\* crashes, reopenings and prunes cut short: no record of a retained version
\* is deleted or altered.  Pruning blindly by the stale index is safe.
THEOREM PruneSafe == Spec => []RetainedIntact
<1>1. IndInv => RetainedIntact
  BY DEF IndInv, CoreInv
<1> QED
  BY <1>1, Invariance, PTL

-----------------------------------------------------------------------------
(* Erasure.                                                                 *)

\* Nothing is stored, so there is nothing to erase.
LEMMA InitErase == Init => EraseInv
BY DEF Init, EraseInv, GarbageMarked, PruneProgress, Idle, Placeholder

\* Steps that write no record and no mark leave a record accounted for.
LEMMA QuietAccounts ==
    ASSUME UNCHANGED <<recs, stale, ckpt, lineage>>, NEW k, k \in DOMAIN recs => Accounted(k)
    PROVE  k \in DOMAIN recs' => Accounted(k)'
BY DEF Accounted, Committed

\* Steps that write nothing, in a phase that promises nothing.
LEMMA QuietProgress ==
    ASSUME PruneProgress, UNCHANGED <<stale, roots>>,
           prune' = prune \/ prune'.phase \in {"idle", "stale"}
    PROVE  PruneProgress'
BY DEF PruneProgress

\* Both for a whole store.
LEMMA QuietErase ==
    ASSUME EraseInv, UNCHANGED <<backend, lineage>>,
           prune' = prune \/ prune'.phase \in {"idle", "stale"}
    PROVE  EraseInv'
<1>1. GarbageMarked'
  BY QuietAccounts DEF EraseInv, GarbageMarked, backend
<1>2. PruneProgress'
  BY QuietProgress DEF EraseInv, backend
<1> QED
  BY <1>1, <1>2 DEF EraseInv

\* Create writes no node and no value record.
LEMMA CreateErase == CoreInv /\ Create => EraseInv' /\ DOMAIN recs' = {}
<1> SUFFICES ASSUME CoreInv, Create PROVE EraseInv' /\ DOMAIN recs' = {}
  OBVIOUS
<1>1. Committed = {}
  BY DEF CoreInv, EmptyUntilCreated, Create, Committed
<1>2. DOMAIN recs' = {} /\ stale' = {}
  BY <1>1 DEF CoreInv, RecordsPast, StaleSafe, Create
<1>3. prune'.phase = "idle"
  BY DEF CoreInv, CheckpointCurrent, Create
<1> QED
  BY <1>2, <1>3 DEF EraseInv, GarbageMarked, PruneProgress

\* What a commit drops, it marks.
LEMMA CommitAccounts ==
    ASSUME CoreInv, up, NEW t1, Commit(lineage[version], t1, version + 1),
           NEW k, k \in DOMAIN recs => Accounted(k)
    PROVE  k \in DOMAIN recs' => Accounted(k)'
<1> DEFINE t  == lineage[version]
           v  == version + 1
           written == {r \in Refs(t1) : r.ver = v}
<1>1. /\ DOMAIN recs' = DOMAIN recs \cup written
      /\ stale' = stale \cup {<<v, r>> : r \in Refs(t) \ Refs(t1)}
      /\ ckpt'.version = v
      /\ lineage' = [w \in 0 .. v |-> IF w = v THEN t1 ELSE lineage[w]]
  BY DEF Commit, Checkpoint
<1>2. /\ version \in Nat /\ v \in Nat /\ v > version
      /\ version = ckpt.version /\ Committed = 0 .. version
  BY DEF CoreInv, TypeOK, CheckpointCurrent, Committed
<1>3. Committed' = 0 .. v
  BY <1>1 DEF Committed
<1>4. lineage'[v] = t1 /\ \A w \in 0 .. version : lineage'[w] = lineage[w]
  BY <1>1, <1>2
<1> SUFFICES ASSUME k \in DOMAIN recs', k \notin Refs(t1)
             PROVE  \E s \in 0 .. v : /\ s > 0
                                      /\ <<s, k>> \in stale'
                                      /\ k \in Refs(lineage'[s - 1])
  BY <1>1, <1>3, <1>4 DEF Accounted
<1>5. k \in DOMAIN recs
  BY <1>1
<1>6. CASE k \in Refs(t)
  <2>1. <<v, k>> \in stale' /\ v - 1 = version /\ v > 0
    BY <1>1, <1>2, <1>6
  <2>2. lineage'[version] = t
    BY <1>2, <1>4
  <2>3. k \in Refs(lineage'[v - 1])
    BY <1>6, <2>1, <2>2
  <2> QED
    BY <1>2, <2>1, <2>3
<1>7. CASE k \notin Refs(t)
  <2>1. PICK s \in Committed : /\ s > 0
                               /\ <<s, k>> \in stale
                               /\ k \in Refs(lineage[s - 1])
    BY <1>2, <1>5, <1>7 DEF Accounted
  <2>2. s - 1 \in 0 .. version /\ s \in 0 .. v
    BY <1>2, <2>1
  <2> QED
    BY <1>1, <1>4, <2>1, <2>2
<1> QED
  BY <1>6, <1>7

\* The marks and the root record of a commit are above every horizon.
LEMMA CommitProgress ==
    ASSUME CoreInv, up, NEW t1, Commit(lineage[version], t1, version + 1),
           PruneProgress, prune' = prune
    PROVE  PruneProgress'
<1> DEFINE v == version + 1
<1>1. /\ DOMAIN roots' = DOMAIN roots \cup {v}
      /\ \A e \in stale' : e \in stale \/ e[1] = v
  BY DEF Commit
<1>2. v \in Nat /\ v > prune.before
  BY DEF CoreInv, TypeOK, CheckpointCurrent
<1> QED
  BY <1>1, <1>2 DEF PruneProgress, CoreInv, TypeOK

\* A commit of a batch preserves the erasure invariant.
LEMMA PutBatchErase ==
    ASSUME CoreInv, EraseInv, NEW upd \in Batches, PutBatch(upd)
    PROVE  EraseInv'
<1> DEFINE t1 == WithLink(Apply(lineage[version], upd, version + 1), version + 1)
<1>1. up /\ Commit(lineage[version], t1, version + 1) /\ prune' = prune
  BY DEF PutBatch, Ready
<1> HIDE DEF t1
<1>2. GarbageMarked'
  BY <1>1, CommitAccounts DEF EraseInv, GarbageMarked
<1>3. PruneProgress'
  BY <1>1, CommitProgress DEF EraseInv
<1> QED
  BY <1>2, <1>3 DEF EraseInv

\* A chunk of the stale index removes marks together with their records.
LEMMA PruneStaleAccounts ==
    ASSUME PruneStale, NEW k, k \in DOMAIN recs => Accounted(k)
    PROVE  k \in DOMAIN recs' => Accounted(k)'
<1>1. PICK C : /\ C \subseteq stale
               /\ recs' = Restrict(recs, DOMAIN recs \ {e[2] : e \in C})
               /\ stale' = stale \ C
  BY DEF PruneStale
<1>2. UNCHANGED <<ckpt, lineage>> /\ Committed' = Committed
  BY DEF PruneStale, ghosts, Committed
<1> SUFFICES ASSUME k \in DOMAIN recs', k \notin Refs(lineage[ckpt.version])
             PROVE  \E s \in Committed : /\ s > 0
                                         /\ <<s, k>> \in stale'
                                         /\ k \in Refs(lineage[s - 1])
  BY <1>2 DEF Accounted
<1>3. k \in DOMAIN recs /\ \A e \in C : e[2] # k
  BY <1>1 DEF Restrict
<1>4. PICK s \in Committed : /\ s > 0
                             /\ <<s, k>> \in stale
                             /\ k \in Refs(lineage[s - 1])
  BY <1>3 DEF Accounted
<1>5. <<s, k>> \notin C
  BY <1>3
<1> QED
  BY <1>1, <1>4, <1>5

\* The last, short chunk leaves no mark at or below the horizon.
LEMMA PruneStaleProgress ==
    ASSUME CoreInv, PruneStale
    PROVE  PruneProgress'
<1> DEFINE S == {e \in stale : e[1] =< prune.before}
<1>1. PICK C : /\ C \subseteq S
               /\ C # S => Cardinality(C) = PruneChunk
               /\ stale' = stale \ C
               /\ prune' = After(C, "stale", "roots")
  BY DEF PruneStale, IsChunk
<1>2. /\ prune'.before = prune.before
      /\ prune'.phase = "stale" \/ (prune'.phase = "roots" /\ C = S)
  BY <1>1 DEF After, CoreInv, TypeOK, PruneStale
<1>3. prune.before \in Nat /\ \A e \in stale : e[1] \in Nat
  BY DEF CoreInv, TypeOK
<1>4. CASE prune'.phase = "stale"
  BY <1>4 DEF PruneProgress
<1>5. CASE prune'.phase = "roots" /\ C = S
  <2>1. \A e \in stale' : e \in stale /\ ~(e[1] =< prune.before)
    BY <1>1, <1>5
  <2>2. \A e \in stale' : e[1] > prune.before
    BY <1>3, <2>1
  <2> QED
    BY <1>2, <1>5, <2>2 DEF PruneProgress
<1> QED
  BY <1>2, <1>4, <1>5

\* The last, short chunk of root records leaves none below the horizon.
LEMMA PruneRootsProgress ==
    ASSUME CoreInv, PruneProgress, PruneRoots
    PROVE  PruneProgress'
<1> DEFINE S == {v \in DOMAIN roots : v < prune.before}
<1>1. PICK C : /\ C \subseteq S
               /\ C # S => Cardinality(C) = PruneChunk
               /\ roots' = Restrict(roots, DOMAIN roots \ C)
               /\ prune' = After(C, "roots", "done")
  BY DEF PruneRoots, IsChunk
<1>2. stale' = stale /\ prune.phase = "roots"
  BY DEF PruneRoots
<1>3. /\ prune'.before = prune.before
      /\ prune'.phase = "roots" \/ (prune'.phase = "done" /\ C = S)
  BY <1>1, <1>2 DEF After, CoreInv, TypeOK
<1>4. \A e \in stale' : e[1] > prune'.before
  BY <1>2, <1>3 DEF PruneProgress
<1>5. (prune'.phase = "done") => \A v \in DOMAIN roots' : v >= prune'.before
  <2> SUFFICES ASSUME prune'.phase = "done", NEW v \in DOMAIN roots'
               PROVE  v >= prune.before
    BY <1>3
  <2>1. v \in DOMAIN roots /\ v \notin S
    BY <1>1, <1>3 DEF Restrict
  <2> QED
    BY <2>1 DEF CoreInv, TypeOK
<1> QED
  BY <1>4, <1>5 DEF PruneProgress

\* The chunks of a Prune call preserve the erasure invariant.
LEMMA PruneErase ==
    ASSUME CoreInv, EraseInv, PruneStale \/ PruneRoots
    PROVE  EraseInv'
<1>1. CASE PruneStale
  BY <1>1, PruneStaleAccounts, PruneStaleProgress DEF EraseInv, GarbageMarked
<1>2. CASE PruneRoots
  BY <1>2, QuietAccounts, PruneRootsProgress DEF EraseInv, GarbageMarked, PruneRoots, ghosts
<1> QED
  BY <1>1, <1>2

\* Every step preserves the erasure invariant.
LEMMA NextErase == IndInv /\ EraseInv /\ [Next]_vars => EraseInv'
<1> SUFFICES ASSUME CoreInv, EraseInv, [Next]_vars PROVE EraseInv'
  BY DEF IndInv
<1>1. CASE Create
  BY <1>1, CreateErase
<1>2. CASE OpenLatest
  BY <1>2, QuietErase DEF OpenLatest, OpenAt, ghosts
<1>3. CASE Crash
  BY <1>3, QuietErase DEF Crash, ghosts, Idle
<1>4. CASE \E upd \in Batches : PutBatch(upd)
  BY <1>4, PutBatchErase
<1>5. CASE \E v \in (0 .. version) \cup {None} : PinVersion(v)
  BY <1>5, QuietErase DEF PinVersion, ghosts
<1>6. CASE \E before \in 0 .. MaxVersion : PruneStart(before)
  BY <1>6, QuietErase DEF PruneStart
<1>7. CASE \E window \in 0 .. MaxVersion : RetainRecent(window)
  BY <1>7, QuietErase DEF RetainRecent, PruneStart
<1>8. CASE PruneStale
  BY <1>8, PruneErase
<1>9. CASE PruneRoots
  BY <1>9, PruneErase
<1>10. CASE PruneFails
  BY <1>10, QuietErase DEF PruneFails, ghosts, Idle
<1>11. CASE UNCHANGED vars
  BY <1>11, QuietErase DEF vars, ghosts
<1> QED
  BY <1>1, <1>2, <1>3, <1>4, <1>5, <1>6, <1>7, <1>8, <1>9, <1>10, <1>11 DEF Next

\* Every record the newest version does not use carries its mark, and a Prune
\* call leaves a phase only when that phase has no work left.
THEOREM EraseInvariance == Spec => []EraseInv
  BY InitErase, NextErase, InitInv, NextInv, PTL DEF Spec

\* A Prune call that returns leaves nothing that only pruned versions used,
\* whatever crashed or failed before it: the records are those of the retained
\* versions, and so are the root records.
THEOREM ErasureSound == Spec => []ErasureComplete
<1>1. IndInv /\ EraseInv => ErasureComplete
  <2> SUFFICES ASSUME IndInv, EraseInv, prune.phase = "done",
                      prune.before = horizon
               PROVE  /\ DOMAIN recs = UNION {Refs(lineage[w]) : w \in Retained}
                      /\ DOMAIN roots = Retained
    BY DEF ErasureComplete
  <2>1. /\ Created /\ ckpt.version \in Nat /\ horizon \in Nat
        /\ horizon =< ckpt.version /\ Committed = 0 .. ckpt.version
    BY DEF IndInv, CoreInv, TypeOK, CheckpointCurrent, Committed
  <2>2. \A w \in Retained : Refs(lineage[w]) \subseteq DOMAIN recs
    BY DEF IndInv, CoreInv, RetainedIntact
  <2>3. ASSUME NEW k \in DOMAIN recs
        PROVE  \E w \in Retained : k \in Refs(lineage[w])
    <3>1. CASE k \in Refs(lineage[ckpt.version])
      BY <2>1, <3>1 DEF Retained
    <3>2. CASE k \notin Refs(lineage[ckpt.version])
      <4>1. PICK s \in Committed : /\ s > 0
                                   /\ <<s, k>> \in stale
                                   /\ k \in Refs(lineage[s - 1])
        BY <3>2 DEF EraseInv, GarbageMarked, Accounted
      <4>2. s > horizon
        BY <4>1 DEF EraseInv, PruneProgress
      <4>3. s - 1 \in Retained
        BY <2>1, <4>1, <4>2 DEF Retained
      <4> QED
        BY <4>1, <4>3
    <3> QED
      BY <3>1, <3>2
  <2>4. DOMAIN roots = Retained
    BY <2>1 DEF IndInv, CoreInv, RootsKept, HasRoot, RecordsPast, EraseInv, PruneProgress, Retained
  <2> QED
    BY <2>2, <2>3, <2>4
<1> QED
  BY <1>1, InitErase, NextErase, InitInv, NextInv, PTL DEF Spec

-----------------------------------------------------------------------------
(* Steps.                                                                   *)

\* A record is written by one commit and never again.
THEOREM Immutability == Spec => RecordsImmutable
<1> DEFINE A == /\ \A k \in DOMAIN recs \cap DOMAIN recs' : recs'[k] = recs[k]
                /\ \A k \in DOMAIN recs' \ DOMAIN recs : k.ver = version + 1
<1>1. ASSUME IndInv, [Next]_vars PROVE A
  <2>1. ASSUME NEW upd \in Batches, PutBatch(upd) PROVE A
    <3> DEFINE v  == version + 1
               t1 == WithLink(Apply(lineage[version], upd, v), v)
               written == {k \in Refs(t1) : k.ver = v}
    <3>1. /\ up
          /\ recs' = [k \in DOMAIN recs \cup written |->
                        IF k \in written THEN RecordOf(t1, k) ELSE recs[k]]
      BY <2>1 DEF PutBatch, Commit, Ready
    <3>2. \A k \in DOMAIN recs : k \notin written
      BY <1>1, <3>1 DEF IndInv, CoreInv, RecordsPast, CheckpointCurrent, Committed, TypeOK
    <3> QED
      BY <3>1, <3>2
  <2>2. CASE PruneStale
    BY <2>2 DEF PruneStale, Restrict
  <2>3. CASE recs' = recs
    BY <2>3
  <2> QED
    BY <1>1, <2>1, <2>2, <2>3 DEF Next, vars, backend, Create, OpenLatest, OpenAt,
       Crash, PinVersion, PruneStart, RetainRecent, PruneRoots, PruneFails
<1> QED
  BY <1>1, Invariance, PTL DEF Spec, RecordsImmutable

\* A pinned version that is retained stays retained while the pin is held.
THEOREM PinSafe == Spec => PinHolds
<1> DEFINE A == (pin # None /\ pin' = pin /\ pin >= horizon) => pin >= horizon'
<1>1. ASSUME IndInv, [Next]_vars PROVE A
  <2>1. ASSUME NEW before \in Nat, PruneStart(before) PROVE A
    <3>1. pin # None => pin \in Nat /\ horizon \in Nat
      BY <1>1 DEF IndInv, CoreInv, TypeOK
    <3>2. pin # None => Capped(before) =< pin
      BY <3>1 DEF Capped
    <3> QED
      BY <2>1, <3>1, <3>2 DEF PruneStart
  <2>2. CASE \E window \in 0 .. MaxVersion : RetainRecent(window)
    <3>1. PICK window \in 0 .. MaxVersion : RetainRecent(window)
      BY <2>2
    <3>2. (IF window > version THEN 0 ELSE version - window) \in Nat
      BY <1>1 DEF IndInv, CoreInv, TypeOK
    <3> QED
      BY <2>1, <3>1, <3>2 DEF RetainRecent
  <2>3. CASE horizon' = horizon
    BY <2>3
  <2>4. CASE \E before \in 0 .. MaxVersion : PruneStart(before)
    BY <2>1, <2>4
  <2>5. CASE PruneStale \/ PruneRoots
    BY <2>3, <2>5 DEF PruneStale, PruneRoots, ghosts
  <2>6. CASE Create \/ OpenLatest \/ Crash \/ PruneFails \/ UNCHANGED vars
    BY <2>3, <2>6 DEF vars, ghosts, Create, OpenLatest, Crash, PruneFails
  <2>7. CASE \/ \E upd \in Batches : PutBatch(upd)
             \/ \E v \in (0 .. version) \cup {None} : PinVersion(v)
    BY <2>3, <2>7 DEF PutBatch, PinVersion, ghosts
  <2> QED
    BY <1>1, <2>2, <2>4, <2>5, <2>6, <2>7 DEF Next
<1> QED
  BY <1>1, Invariance, PTL DEF Spec, PinHolds
=============================================================================

------------------------------ MODULE TreeFold ------------------------------
(***************************************************************************)
(* The batch fold of ledger/store.go as the code computes it: applySubtree  *)
(* descends the stored nodes, threading an accumulator of pending nodes,    *)
(* value records and stale marks, and builds, re-homes and drops leaves as  *)
(* it goes.  The runs of this module compare it, from every reachable tree  *)
(* and for every batch, with the declarative Apply of SparseTree and the    *)
(* record sets of LedgerStore's Commit.                                     *)
(***************************************************************************)
EXTENDS LedgerStore

\* commitAcc of a commit that has done nothing yet.
NewAcc == [pending |-> Placeholder, values |-> {}, stale |-> {}]

\* What a fold returns: a child reference (None = empty) and the accumulator.
Result(c, acc) == [c |-> c, acc |-> acc]

Without(pending, k) == Restrict(pending, DOMAIN pending \ {k})

\* Mutant of StaleNode: a record of this very commit is marked as well.
StaleNodeAlways(acc, k, v) == [acc EXCEPT !.stale = @ \cup {k}]

\* A record of this very commit is dropped, a persisted one is marked.
StaleNode(acc, k, v) ==
    IF k.ver = v THEN [acc EXCEPT !.pending = Without(@, k)]
                 ELSE [acc EXCEPT !.stale = @ \cup {k}]

PutNode(acc, p, node, v) ==
    Result([ver |-> v, hash |-> NodeHash(node), isLeaf |-> node.isLeaf],
           [acc EXCEPT !.pending = (NodeKey(p, v) :> node) @@ @])

\* A leaf whose value was written this commit also emits its value record.
PutLeaf(acc, p, leaf, v) ==
    PutNode(IF leaf.vv = v
            THEN [acc EXCEPT !.values = @ \cup {ValueKey(leaf.path, leaf.val, v)}]
            ELSE acc,
            p, leaf, v)

\* The node a child reference points at.
NodeOf(acc, c, p, v) ==
    IF c.ver = v THEN acc.pending[NodeKey(p, v)]
                 ELSE LoadNode(NodeKey(p, c.ver), c.hash).out

\* The content of a leaf child that rises; its old record goes.
TakeLeaf(acc, c, p, v) ==
    [leaf |-> NodeOf(acc, c, p, v), acc |-> StaleNode(acc, NodeKey(p, c.ver), v)]

RECURSIVE BuildFromPairs(_, _, _, _), BuildKids(_, _, _, _, _, _)

\* A fresh subtree at p from a set of leaves.
BuildFromPairs(acc, p, leaves, v) ==
    CASE Cardinality(leaves) = 0 -> Result(None, acc)
      [] Cardinality(leaves) = 1 ->
            PutLeaf(acc, p, CHOOSE l \in leaves : TRUE, v)
      [] OTHER ->
            LET b == BuildKids(acc, p, leaves, v, 0, Placeholder)
            IN  PutNode(b.acc, p, InternalNode(b.kids), v)

\* Its children from nibble n on, added to kids.
BuildKids(acc, p, leaves, v, n, kids) ==
    IF n = Arity THEN [kids |-> kids, acc |-> acc]
    ELSE LET r == BuildFromPairs(acc, Append(p, n),
                    {l \in leaves : l.path[Len(p) + 1] = n}, v)
         IN  BuildKids(r.acc, p, leaves, v, n + 1,
                       IF r.c = None THEN kids ELSE (n :> r.c) @@ kids)

\* The leaves after merging a resident leaf with the batch.
Merged(leaf, upd, v) ==
    {LeafNode(x, upd[x],
              IF x = leaf.path /\ upd[x] = leaf.val THEN leaf.vv ELSE v) :
        x \in {y \in DOMAIN upd : upd[y] # Absent}}
      \cup (IF leaf.path \in DOMAIN upd THEN {} ELSE {leaf})

\* applySubtree on a resident leaf.
ApplyLeaf(acc, old, leaf, p, upd, v) ==
    LET merged == Merged(leaf, upd, v)
        kept   == \E l \in merged : l.path = leaf.path /\ l.val = leaf.val
        acc1   == StaleNode(acc, NodeKey(p, old.ver), v)
        valKey == ValueKey(leaf.path, leaf.val, leaf.vv)
        acc2   == IF kept THEN acc1
                  ELSE IF leaf.vv = v THEN [acc1 EXCEPT !.values = @ \ {valKey}]
                  ELSE [acc1 EXCEPT !.stale = @ \cup {valKey}]
    IN  IF merged = {leaf} THEN Result(old, acc)
                           ELSE BuildFromPairs(acc2, p, merged, v)

RECURSIVE ApplySubtree(_, _, _, _, _), ApplyKids(_, _, _, _, _, _)

ApplySubtree(acc, old, p, upd, v) ==
    IF DOMAIN upd = {} THEN Result(old, acc)
    ELSE IF old = None
    THEN BuildFromPairs(acc, p,
            {LeafNode(x, upd[x], v) : x \in {y \in DOMAIN upd : upd[y] # Absent}}, v)
    ELSE LET node == NodeOf(acc, old, p, v) IN
         IF node.isLeaf THEN ApplyLeaf(acc, old, node, p, upd, v)
         ELSE LET r    == ApplyKids(acc, node.kids, p, upd, v, 0)
                  acc1 == StaleNode(r.acc, NodeKey(p, old.ver), v)
                  only == CHOOSE n \in DOMAIN r.kids : TRUE
              IN  CASE r.kids = node.kids -> Result(old, acc)
                    [] DOMAIN r.kids = {} -> Result(None, acc1)
                    [] Cardinality(DOMAIN r.kids) = 1 /\ r.kids[only].isLeaf ->
                          LET t == TakeLeaf(acc1, r.kids[only], Append(p, only), v)
                          IN  PutLeaf(t.acc, p, t.leaf, v)
                    [] OTHER -> PutNode(acc1, p, InternalNode(r.kids), v)

\* The children from nibble n on, each with its part of the batch.
ApplyKids(acc, kids, p, upd, v, n) ==
    IF n = Arity THEN [kids |-> kids, acc |-> acc]
    ELSE LET r == ApplySubtree(acc, IF n \in DOMAIN kids THEN kids[n] ELSE None,
                    Append(p, n),
                    Restrict(upd, {x \in DOMAIN upd : x[Len(p) + 1] = n}), v)
             rest == Restrict(kids, DOMAIN kids \ {n})
         IN  ApplyKids(r.acc, IF r.c = None THEN rest ELSE (n :> r.c) @@ rest,
                       p, upd, v, n + 1)

\* computeBatch, with the history link folded in by a second pass.  No batch
\* that leaves the root child alone makes a commit (c = None, nothing to do).
ComputeBatch(upd, v) ==
    LET old == LoadRootChild(root, version).out
        r   == ApplySubtree(NewAcc, old, << >>, upd, v)
    IN  IF r.c = old THEN [noop |-> TRUE, res |-> Result(old, NewAcc)]
        ELSE [noop |-> FALSE,
              res |-> IF Chained THEN ApplySubtree(r.acc, r.c, << >>, Link(v), v)
                                 ELSE r]

-----------------------------------------------------------------------------
\* Commits alone reach every tree: crashes and prunes leave it as it is.
CommitNext == Create \/ \E upd \in Batches : PutBatch(upd)

CommitSpec == Init /\ [][CommitNext]_vars

\* From every reachable tree, for every batch, the fold does what Commit
\* says: the same batches are no-ops; the pending nodes and values are the
\* records of the new tree that carry the new version; the stale marks are the
\* records the new tree no longer uses, and never one it still uses; the root
\* child is the new tree's.
FoldAgrees ==
    (Ready /\ version < MaxVersion) =>
        \A upd \in Batches :
            LET t  == lineage[version]
                v  == version + 1
                t1 == Apply(t, upd, v)
                t2 == WithLink(t1, v)
                f  == ComputeBatch(upd, v)
                acc == f.res.acc
            IN  IF t1.val = t.val THEN f.noop
                ELSE /\ ~f.noop
                     /\ DOMAIN acc.pending \cup acc.values
                          = {k \in Refs(t2) : k.ver = v}
                     /\ \A k \in DOMAIN acc.pending :
                            acc.pending[k] = NodeAt(t2, k.at)
                     /\ acc.stale = Refs(t) \ Refs(t2)
                     /\ f.res.c = IF t2.val = Placeholder THEN None
                                  ELSE ChildRef(t2, << >>)
=============================================================================

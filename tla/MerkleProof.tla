---------------------------- MODULE MerkleProof ----------------------------
(***************************************************************************)
(* The binary hash of a node's slots (subtreeHash in ledger/node.go) and    *)
(* the proving walk of ledger/proof.go, over the records of LedgerStore.    *)
(* SparseTree takes the content below a position as its hash; here a hash   *)
(* is the term the code computes, and the runs compare it and the proofs    *)
(* with the ones of MerkleTree.                                             *)
(***************************************************************************)
EXTENDS MerkleTree

\* Slots start .. start + width - 1 of a node that hold a child.
Present(kids, start, width) == {i \in start .. start + width - 1 : i \in DOMAIN kids}

RECURSIVE HashTerm(_, _), SubtreeHash(_, _, _, _)

\* The hash of the node whose subtree at p has content c.
HashTerm(c, p) ==
    IF c = Placeholder THEN EmptyHash
    ELSE IF Crowded(c, p)
    THEN SubtreeHash([n \in Kids(c, p) |-> Sub(c, Append(p, n))], p, 0, Arity)
    ELSE LET x == CHOOSE y \in DOMAIN c : TRUE IN LeafHash(x, c[x])

\* subtreeHash over a range of slots, kids mapping slots to child contents: a
\* leaf that is alone in its range stands for the whole range.
SubtreeHash(kids, p, start, width) ==
    LET present == Present(kids, start, width)
        only    == CHOOSE i \in present : TRUE
        half    == width \div 2
    IN  IF present = {} THEN EmptyHash
        ELSE IF Cardinality(present) = 1
                /\ (width = 1 \/ ~Crowded(kids[only], Append(p, only)))
        THEN HashTerm(kids[only], Append(p, only))
        ELSE InternalHash(SubtreeHash(kids, p, start, half),
                          SubtreeHash(kids, p, start + half, half))

RootTerm(r) == HashTerm(r, << >>)

-----------------------------------------------------------------------------
(* Proving.                                                                 *)

\* The outcome of provePath: Missing or Corrupted from a load, or a proof.
Proved(leaf, topDown) == Found(Proof(leaf, Reverse(topDown)))

Hashes(kids) == [i \in DOMAIN kids |-> kids[i].hash]

RECURSIVE ProveFrom(_, _, _, _), Halve(_, _, _, _, _, _)

\* The walk loop of provePath: the node that c refers to at position p.
ProveFrom(c, x, p, siblings) ==
    LET n == LoadNode(NodeKey(p, c.ver), c.hash)
    IN  IF n.st # "found" THEN n
        ELSE IF n.out.isLeaf # c.isLeaf THEN Corrupted
        ELSE IF n.out.isLeaf
             THEN Proved({ProofLeaf(n.out.path, n.out.val)}, siblings)
        ELSE Halve(n.out.kids, x, p, 0, Arity, siblings)

\* Mutant of Halve: a lone leaf is descended to its own slot.
HalveToSlot(kids, x, p, start, width, siblings) ==
    LET slot  == x[Len(p) + 1]
        half  == width \div 2
        below == slot < start + half
        sib   == SubtreeHash(Hashes(kids), p, IF below THEN start + half ELSE start, half)
    IN  IF Present(kids, start, width) = {} THEN Proved({}, siblings)
        ELSE IF width = 1
        THEN ProveFrom(kids[slot], x, Append(p, slot), siblings)
        ELSE Halve(kids, x, p, IF below THEN start ELSE start + half, half,
                   Append(siblings, sib))

\* The binary descent inside a node towards the slot of x.
Halve(kids, x, p, start, width, siblings) ==
    LET present == Present(kids, start, width)
        only    == CHOOSE i \in present : TRUE
        slot    == x[Len(p) + 1]
        half    == width \div 2
        below   == slot < start + half
        sib     == SubtreeHash(Hashes(kids), p, IF below THEN start + half ELSE start, half)
    IN  IF present = {} THEN Proved({}, siblings)
        ELSE IF Cardinality(present) = 1 /\ kids[only].isLeaf
        THEN LET n == LoadNode(NodeKey(Append(p, only), kids[only].ver), kids[only].hash)
             IN  IF n.st # "found" THEN n
                 ELSE IF ~n.out.isLeaf THEN Corrupted
                 ELSE Proved({ProofLeaf(n.out.path, n.out.val)}, siblings)
        ELSE IF width = 1
        THEN ProveFrom(kids[only], x, Append(p, slot), siblings)
        ELSE Halve(kids, x, p, IF below THEN start ELSE start + half, half,
                   Append(siblings, sib))

\* ProveAt.
ProveAt(w, x) ==
    IF w \notin DOMAIN roots THEN Missing
    ELSE LET c == LoadRootChild(roots[w], w)
         IN  IF c.st # "found" THEN c
             ELSE IF c.out = None THEN Proved({}, << >>)
             ELSE ProveFrom(c.out, x, << >>, << >>)

-----------------------------------------------------------------------------
(* Row verification.                                                        *)

\* VerifiedGet of sqlledger/verify.go: a read and a proof of it.
VerifiedGet(x) ==
    [value |-> GetFrom(root, version, x), proof |-> ProveAt(version, x)]

\* Verify of sqlledger/verify.go: the evidence against a trusted root hash.
VerifyRow(r, x, vr) ==
    IF vr.value.st = "found"
    THEN VerifyValue(r, x, vr.value.out, vr.proof.out)
    ELSE VerifyAbsent(r, x, vr.proof.out)

-----------------------------------------------------------------------------
(* Properties.                                                              *)

\* The tree of nibbles hashes to the binary hash of its content.  For every
\* path, used or not, VerifiedGet yields evidence of what the version holds,
\* with the one proof there is of it.  It verifies under the root of that
\* version, and under the root of another version only if that version holds
\* the same for the path.
ProofsComplete ==
    Created =>
        /\ RootTerm(root) = RootHash(root)
        /\ \A x \in Path :
            \E vr \in {VerifiedGet(x)} :
                /\ vr.value = Truth(version, x)
                /\ vr.proof = Found(ProofOf(root, x))
                /\ VerifyRow(RootTerm(root), x, vr)
                /\ \A w \in DOMAIN lineage :
                      VerifyRow(RootTerm(lineage[w].val), x, vr) => Truth(w, x) = vr.value
=============================================================================

----------------------------- MODULE MerkleTree -----------------------------
(***************************************************************************)
(* What the hashes and proofs of a tree stand for.  Storage is a tree of    *)
(* nibbles, hashing is binary: a path of Depth nibbles is MaxDepth bits, a  *)
(* hash belongs to the range of paths that share their first bits, and a    *)
(* proof is the hashes beside the ranges around one path.  The verifier is  *)
(* Verify of ledger/proof.go.  MerkleProof has the hashing and proving that *)
(* the code does node by node.                                              *)
(***************************************************************************)
EXTENDS LedgerStore

Pow2[k \in 0 .. Arity] == IF k = 0 THEN 1 ELSE 2 * Pow2[k - 1]

\* Bits of a nibble (4 in the code).
Width == CHOOSE b \in 1 .. Arity : Pow2[b] = Arity

ASSUME WidthAssumption == \E b \in 1 .. Arity : Pow2[b] = Arity

MaxDepth == Depth * Width

\* Bit i of a path, the most significant one first.
BitAt(x, i) == (x[i \div Width + 1] \div Pow2[Width - 1 - (i % Width)]) % 2

-----------------------------------------------------------------------------
(* Hash terms: SHA-256 over a tag and the fields, collision free.           *)

EmptyHash == [tag |-> "empty"]

\* Mutant of LeafHash: the leaf does not commit to its path.
LeafHashNoPath(x, a) == [tag |-> "leaf", val |-> a]

LeafHash(x, a) == [tag |-> "leaf", path |-> x, val |-> a]

InternalHash(l, r) == [tag |-> "node", left |-> l, right |-> r]

\* The paths of K in the half of a range where bit i is s.
Half(K, i, s) == {x \in K : BitAt(x, i) = s}

Lone(K) == \E x \in K : K = {x}

\* The hash of a leaf of c in K, the only one there.
LoneHash(c, K) == LET x == CHOOSE y \in K : TRUE IN LeafHash(x, c[x])

\* The hash of a range of the content c: K are the paths of c in it, and they
\* share their first d bits.  A leaf alone in a range stands for all of it.
RangeHash(c, K, d) ==
    LET hash[n \in 0 .. MaxDepth] ==       \* n bits are left
            [R \in SUBSET DOMAIN c |->
                IF R = {} THEN EmptyHash
                ELSE IF n = 0 \/ Lone(R) THEN LoneHash(c, R)
                ELSE InternalHash(hash[n - 1][Half(R, MaxDepth - n, 0)],
                                  hash[n - 1][Half(R, MaxDepth - n, 1)])]
    IN  hash[MaxDepth - d][K]

RootHash(c) == RangeHash(c, DOMAIN c, 0)

-----------------------------------------------------------------------------
(* Proofs.                                                                  *)

ProofLeaf(x, a) == [path |-> x, val |-> a]

\* A proof: the terminal leaf (no element if the descent ended on an empty
\* range) and the sibling hashes, deepest first.
Proof(leaf, siblings) == [leaf |-> leaf, siblings |-> siblings]

\* The paths of c that share their first d bits with x.
Along(c, x, d) == {y \in DOMAIN c : \A i \in 0 .. d - 1 : BitAt(y, i) = BitAt(x, i)}

\* The first range around x with at most one leaf.
Stop(c, x) ==
    CHOOSE d \in 0 .. MaxDepth :
        /\ Along(c, x, d) = {} \/ Lone(Along(c, x, d))
        /\ \A e \in 0 .. d - 1 : Along(c, x, e) # {} /\ ~Lone(Along(c, x, e))

\* The hash beside the range around x of d + 1 bits.
Beside(c, x, d) == RangeHash(c, Half(Along(c, x, d), d, 1 - BitAt(x, d)), d + 1)

\* The proof of what c holds for x.
ProofOf(c, x) ==
    LET n == Stop(c, x)
    IN  Proof({ProofLeaf(y, c[y]) : y \in Along(c, x, n)},
              [i \in 1 .. n |-> Beside(c, x, n - i)])

-----------------------------------------------------------------------------
(* Verifying.                                                               *)

CommonPrefixBits(x, y) ==
    LET differ == {i \in 0 .. MaxDepth - 1 : BitAt(x, i) # BitAt(y, i)}
    IN  IF differ = {} THEN MaxDepth ELSE Min(differ)

Rejected     == [st |-> "rejected", val |-> Absent]
Includes(a)  == [st |-> "present",  val |-> a]
Excludes     == [st |-> "absent",   val |-> Absent]

\* The fold of the siblings into the hash acc, deepest first.
Folded(acc, x, siblings) ==
    LET n == Len(siblings)
        hash[i \in 0 .. n] ==
            IF i = 0 THEN acc
            ELSE IF BitAt(x, n - i) = 1
                 THEN InternalHash(siblings[i], hash[i - 1])
                 ELSE InternalHash(hash[i - 1], siblings[i])
    IN  hash[n]

\* The leaf a proof ends on, and the hash its fold starts from.
LeafIn(proof) == CHOOSE l \in proof.leaf : TRUE

Start(proof) ==
    IF proof.leaf = {} THEN EmptyHash ELSE LeafHash(LeafIn(proof).path, LeafIn(proof).val)

\* Mutant of Verify: the side of a sibling is chosen by the terminal leaf's
\* own bits, and a divergent leaf need not cover the path.
VerifyLeafBits(r, x, proof) ==
    LET n == Len(proof.siblings)
        has == proof.leaf # {}
        l == LeafIn(proof)
    IN  IF n > MaxDepth THEN Rejected
        ELSE IF Folded(Start(proof), IF has THEN l.path ELSE x, proof.siblings) # r
        THEN Rejected
        ELSE IF has /\ l.path = x THEN Includes(l.val) ELSE Excludes

\* Verify: what the proof establishes about x under the root hash r.
Verify(r, x, proof) ==
    LET n == Len(proof.siblings)
        has == proof.leaf # {}
        l == LeafIn(proof)
    IN  IF n > MaxDepth THEN Rejected
        ELSE IF has /\ l.path # x /\ CommonPrefixBits(l.path, x) < n THEN Rejected
        ELSE IF Folded(Start(proof), x, proof.siblings) # r THEN Rejected
        ELSE IF has /\ l.path = x THEN Includes(l.val) ELSE Excludes

VerifyValue(r, x, a, proof) == Verify(r, x, proof) = Includes(a)

VerifyAbsent(r, x, proof) == Verify(r, x, proof) = Excludes

-----------------------------------------------------------------------------
(* Properties.                                                              *)

\* What the content c says about x.
Statement(c, x) == IF x \in DOMAIN c THEN Includes(c[x]) ELSE Excludes

\* Contents next to the one of root: after any batch, and with one leaf moved
\* to any free path.
Neighbours ==
    {Updated(root, upd) : upd \in Batches}
      \cup {[z \in (DOMAIN root \ {x}) \cup {y} |-> root[IF z = y THEN x ELSE z]] :
              x \in DOMAIN root, y \in Path \ DOMAIN root}

\* A root hash commits to the content: no batch and no move of a leaf to
\* another path keeps it, although subtreeHash lets a lone leaf stand for the
\* whole range it sits in (the abstraction SparseTree rests on).
HashFaithful ==
    up => \A r \in {RootHash(root)}, c \in Neighbours \cup {Placeholder} :
        RootHash(c) = r <=> c = root

\* Proofs a verifier may be handed: one made for another path or version, with
\* siblings missing at either end, or with another terminal leaf.
Offered ==
    LET made   == {ProofOf(lineage[w].val, x) : w \in DOMAIN lineage, x \in AllPaths}
        leaves == {{}} \cup UNION {{{ProofLeaf(x, lineage[w].val[x])} :
                            x \in DOMAIN lineage[w].val} : w \in DOMAIN lineage}
        cuts   == UNION {UNION {{SubSeq(p.siblings, 1, i), SubSeq(p.siblings, i + 1, Len(p.siblings))} :
                            i \in 0 .. Len(p.siblings)} : p \in made}
    IN  {Proof(l, s) : l \in leaves, s \in cuts}

\* No offered proof makes Verify accept a statement that the version with that
\* root contradicts: presence, absence by an empty range and absence by a
\* divergent leaf are all sound.
ProofsSound ==
    up => \A r \in {RootHash(root)}, proof \in Offered, x \in AllPaths :
        Verify(r, x, proof) \in {Rejected, Statement(root, x)}
=============================================================================

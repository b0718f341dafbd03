----------------------------- MODULE SparseTree -----------------------------
(***************************************************************************)
(* The versioned sparse Merkle tree of ledger/node.go and the batch fold    *)
(* of ledger/store.go, as pure operators.                                   *)
(*                                                                         *)
(* A content is a function from a finite set of paths to values: the        *)
(* logical state of the store.  A path is a sequence of Depth nibbles (the  *)
(* code has 64 nibbles of 4 bits).  The hash of a subtree is modelled by    *)
(* the part of the content below it: node.hash commits to exactly that and  *)
(* to no version number, and HMAC-SHA256 / SHA-256 are taken to be          *)
(* collision free.  The empty content is the placeholder hash.              *)
(*                                                                         *)
(* A tree adds to the content what the records carry besides the hash: the  *)
(* version of every node record and of every value record.                  *)
(*                                                                         *)
(*   t.val : path     -> value       the content                            *)
(*   t.vv  : path     -> version     leafNode.valueVersion                  *)
(*   t.ver : position -> version     child.version / nodeKey.version        *)
(***************************************************************************)
EXTENDS Integers, Sequences, FiniteSets, SequencesExt

CONSTANTS
    Arity,      \* children of an internal node (16 in node.go)
    Depth,      \* nibbles of a path (64 in hash.go)
    Absent      \* "no value": a delete in a batch, a key with no leaf

ASSUME ArityAssumption == Arity \in Nat /\ Arity > 1
ASSUME DepthAssumption == Depth \in Nat /\ Depth > 0

Nibbles == 0 .. Arity - 1
Path    == [1 .. Depth -> Nibbles]
Prefix  == UNION {[1 .. n -> Nibbles] : n \in 0 .. Depth}

-----------------------------------------------------------------------------
(* Shape: which positions hold a node, and of which kind.                   *)

\* The path x lies below the position p.
Under(x, p) == \A i \in 1 .. Len(p) : x[i] = p[i]

Below(c, p) == {x \in DOMAIN c : Under(x, p)}

\* The hash of the subtree at p.
Sub(c, p) == Restrict(c, Below(c, p))

\* At least two leaves below p: the node at p is internal, otherwise a leaf
\* (applySubtree's collapse keeps a lone leaf as high as it can go).
Crowded(c, p) == \E x, y \in Below(c, p) : x # y

Positions(c) ==
    {p \in Prefix : Below(c, p) # {} /\ (p = << >> \/ Crowded(c, Front(p)))}

\* placeholderHash: the root of the empty tree.
Placeholder == [x \in {} |-> Absent]

EmptyTree == [val |-> Placeholder, vv |-> Placeholder, ver |-> Placeholder]

-----------------------------------------------------------------------------
(* Applying a batch.                                                        *)

\* The content after the batch upd (path -> value, Absent to delete).
Updated(c, upd) ==
    [x \in {y \in DOMAIN c \cup DOMAIN upd :
                IF y \in DOMAIN upd THEN upd[y] # Absent ELSE TRUE}
        |-> IF x \in DOMAIN upd THEN upd[x] ELSE c[x]]

\* applySubtree: fold the batch into t at version v.  A leaf keeps its value
\* record when its value did not change; a position keeps its node record
\* when the subtree below it did not change; everything else is new.
Apply(t, upd, v) ==
    LET c == Updated(t.val, upd)
    IN  [val |-> c,
         vv  |-> [x \in DOMAIN c |->
                    IF x \in DOMAIN t.val /\ c[x] = t.val[x]
                    THEN t.vv[x] ELSE v],
         ver |-> [p \in Positions(c) |->
                    IF p \in Positions(t.val) /\ Sub(c, p) = Sub(t.val, p)
                    THEN t.ver[p] ELSE v]]

-----------------------------------------------------------------------------
(* Records: the 'n' and 'v' entries of the backend.                         *)

NodeKey(p, v)     == [kind |-> "n", at |-> p, val |-> Absent, ver |-> v]
ValueKey(x, a, v) == [kind |-> "v", at |-> x, val |-> a,      ver |-> v]

Kids(c, p) == {n \in Nibbles : Below(c, Append(p, n)) # {}}

ChildRef(t, p) ==
    [ver |-> t.ver[p], hash |-> Sub(t.val, p), isLeaf |-> ~Crowded(t.val, p)]

LeafNode(x, a, v) == [isLeaf |-> TRUE, path |-> x, val |-> a, vv |-> v]

InternalNode(kids) == [isLeaf |-> FALSE, kids |-> kids]

\* The node at position p of t.
NodeAt(t, p) ==
    IF Crowded(t.val, p)
    THEN InternalNode([n \in Kids(t.val, p) |-> ChildRef(t, Append(p, n))])
    ELSE LET x == CHOOSE y \in Below(t.val, p) : TRUE
         IN  LeafNode(x, t.val[x], t.vv[x])

\* node.hash: a leaf commits to (path, value), an internal node to the
\* hashes of its children; versions are not covered.
NodeHash(n) ==
    IF n.isLeaf
    THEN [x \in {n.path} |-> n.val]
    ELSE [x \in UNION {DOMAIN n.kids[i].hash : i \in DOMAIN n.kids} |->
            n.kids[CHOOSE i \in DOMAIN n.kids : x \in DOMAIN n.kids[i].hash].hash[x]]

\* The keys of the records the tree consists of.
Refs(t) ==
    {NodeKey(p, t.ver[p]) : p \in Positions(t.val)}
        \cup {ValueKey(x, t.val[x], t.vv[x]) : x \in DOMAIN t.val}

\* What the record with key k holds in t.
RecordOf(t, k) == IF k.kind = "v" THEN k.val ELSE NodeAt(t, k.at)
=============================================================================

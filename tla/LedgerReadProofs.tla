-------------------------- MODULE LedgerReadProofs --------------------------
(***************************************************************************)
(* What verified reads return, proved about LedgerStore: the walk of        *)
(* ledger/store.go through hash-checked records ends with what the version  *)
(* committed.  The walk is a loop over the nibbles of a path; its           *)
(* invariant is carried along by induction on the iterations.               *)
(***************************************************************************)
EXTENDS LedgerStoreProofs, WellFoundedInduction

-----------------------------------------------------------------------------
(* Induction.                                                               *)

\* A set that holds 0 and the successor of each of its members holds every
\* natural number: otherwise it would miss a least one.
LEMMA SetInduction ==
    ASSUME NEW S, 0 \in S, \A n \in Nat : n \in S => n + 1 \in S
    PROVE  Nat \subseteq S
<1> DEFINE T == Nat \ S
           R == OpToRel(<, Nat)
<1> SUFFICES ASSUME T # {} PROVE FALSE
  OBVIOUS
<1>1. IsWellFoundedOn(R, Nat)
  BY NatLessThanWellFounded
<1>2. PICK x \in T : \A y \in T : ~(<<y, x>> \in R)
  <2>1. T \subseteq Nat
    OBVIOUS
  <2> HIDE DEF T, R
  <2> QED
    BY <1>1, <2>1, WFMin
<1>3. x \in Nat /\ x # 0 /\ x - 1 \in Nat /\ x - 1 < x
  OBVIOUS
<1>4. <<x - 1, x>> \in R
  BY <1>3 DEF OpToRel
<1>5. x - 1 \notin T
  BY <1>2, <1>4
<1>6. (x - 1) + 1 \in S
  BY <1>3, <1>5
<1> QED
  BY <1>3, <1>6

-----------------------------------------------------------------------------
(* Positions and paths.                                                     *)

\* The prefix of a path, one nibble at a time.
LEMMA PathPrefix ==
    ASSUME NEW x \in Path, NEW i \in 0 .. Depth
    PROVE  /\ SubSeq(x, 1, i) \in Prefix
           /\ Len(SubSeq(x, 1, i)) = i
           /\ Under(x, SubSeq(x, 1, i))
           /\ i < Depth => /\ x[i + 1] \in Nibbles
                           /\ SubSeq(x, 1, i + 1) = Append(SubSeq(x, 1, i), x[i + 1])
<1>1. x \in Seq(Nibbles) /\ Len(x) = Depth
  BY DepthAssumption DEF Path
<1>2. SubSeq(x, 1, i) = [j \in 1 .. i |-> x[j]]
  BY <1>1, DepthAssumption
<1>3. SubSeq(x, 1, i) \in [1 .. i -> Nibbles]
  <2>1. \A j \in 1 .. Depth : x[j] \in Nibbles
    BY DEF Path
  <2>2. \A j \in 1 .. i : x[j] \in Nibbles
    BY <2>1, DepthAssumption
  <2> QED
    BY <1>2, <2>2
<1>4. Len(SubSeq(x, 1, i)) = i
  BY <1>1, DepthAssumption
<1>5. ASSUME i < Depth
      PROVE  /\ x[i + 1] \in Nibbles
             /\ SubSeq(x, 1, i + 1) = Append(SubSeq(x, 1, i), x[i + 1])
  BY <1>1, <1>5, DepthAssumption
<1> QED
  BY <1>2, <1>3, <1>4, <1>5, DepthAssumption DEF Prefix, Under

\* A path below a position that is not at full depth is below one child.
LEMMA UnderKid ==
    ASSUME NEW x \in Path, NEW p \in Prefix, Len(p) < Depth, Under(x, p)
    PROVE  /\ x[Len(p) + 1] \in Nibbles
           /\ Under(x, Append(p, x[Len(p) + 1]))
           /\ \A n \in Nibbles : Under(x, Append(p, n)) => n = x[Len(p) + 1]
<1>1. p \in Seq(Nibbles) /\ Len(p) \in 0 .. Depth
  BY PrefixSeq
<1>2. x[Len(p) + 1] \in Nibbles
  BY <1>1, DepthAssumption DEF Path
<1> QED
  BY <1>1, <1>2 DEF Under

\* The children of an internal node are positions.
LEMMA KidPosition ==
    ASSUME NEW c, DOMAIN c \subseteq Path, NEW p \in Prefix, Crowded(c, p),
           NEW n \in Kids(c, p)
    PROVE  Append(p, n) \in Positions(c)
<1>1. Len(p) < Depth /\ p \in Seq(Nibbles) /\ Len(p) \in 0 .. Depth
  BY CrowdedShort, PrefixSeq
<1>2. n \in Nibbles /\ Below(c, Append(p, n)) # {}
  BY DEF Kids
<1>3. Append(p, n) \in [1 .. Len(p) + 1 -> Nibbles] /\ Len(p) + 1 \in 0 .. Depth
  <2>1. Append(p, n) \in Seq(Nibbles) /\ Len(Append(p, n)) = Len(p) + 1
    BY <1>1, <1>2
  <2>2. Append(p, n) \in [1 .. Len(p) + 1 -> Nibbles]
    BY <2>1, LenProperties
  <2> QED
    BY <1>1, <2>2, DepthAssumption
<1>4. Append(p, n) \in Prefix
  BY <1>3 DEF Prefix
<1> QED
  BY <1>2, <1>4, FrontAppend DEF Positions

\* The node at a position hashes to the subtree below it: the hash check of
\* loadNode accepts the record that the tree wrote.
LEMMA NodeHashes ==
    ASSUME NEW t, DOMAIN t.val \subseteq Path, NEW p \in Positions(t.val)
    PROVE  NodeHash(NodeAt(t, p)) = Sub(t.val, p)
<1> DEFINE c == t.val
<1>0. p \in Prefix /\ Below(c, p) # {}
  BY DEF Positions
<1>1. CASE ~Crowded(c, p)
  <2>1. PICK x : x = CHOOSE y \in Below(c, p) : TRUE
    OBVIOUS
  <2>2. Below(c, p) = {x}
    BY <1>0, <1>1, <2>1 DEF Crowded
  <2>3. NodeAt(t, p) = LeafNode(x, c[x], t.vv[x])
    BY <1>1, <2>1 DEF NodeAt
  <2>4. NodeHash(NodeAt(t, p)) = [y \in {x} |-> c[x]]
    BY <2>3 DEF NodeHash, LeafNode
  <2>5. Sub(c, p) = [y \in {x} |-> c[y]]
    BY <2>2 DEF Sub, Restrict
  <2> QED
    BY <2>4, <2>5
<1>2. CASE Crowded(c, p)
  <2> DEFINE kids == [n \in Kids(c, p) |-> ChildRef(t, Append(p, n))]
  <2>1. Len(p) < Depth
    BY <1>0, <1>2, CrowdedShort
  <2>2. NodeAt(t, p) = InternalNode(kids)
    BY <1>2 DEF NodeAt
  <2>3. \A n \in Kids(c, p) : /\ DOMAIN kids[n].hash = Below(c, Append(p, n))
                              /\ \A x \in Below(c, Append(p, n)) : kids[n].hash[x] = c[x]
    BY DEF ChildRef, Sub, Restrict
  <2>4. \A x \in Below(c, p) :
          /\ x[Len(p) + 1] \in Kids(c, p)
          /\ x \in Below(c, Append(p, x[Len(p) + 1]))
    BY <1>0, <2>1, UnderKid DEF Below, Kids
  <2>5. \A n \in Kids(c, p) : Below(c, Append(p, n)) \subseteq Below(c, p)
    BY <1>0, UnderAppend DEF Below, Kids
  <2>6. DOMAIN kids = Kids(c, p)
    OBVIOUS
  <2> HIDE DEF kids
  <2>7. UNION {DOMAIN kids[n].hash : n \in DOMAIN kids} = Below(c, p)
    BY <2>3, <2>4, <2>5, <2>6
  <2> DEFINE slot(x) == CHOOSE i \in DOMAIN kids : x \in DOMAIN kids[i].hash
  <2>8. ASSUME NEW x \in Below(c, p) PROVE kids[slot(x)].hash[x] = c[x]
    <3>1. \E i \in DOMAIN kids : x \in DOMAIN kids[i].hash
      BY <2>3, <2>4, <2>6
    <3>2. slot(x) \in DOMAIN kids /\ x \in DOMAIN kids[slot(x)].hash
      BY <3>1
    <3> QED
      BY <2>3, <2>6, <3>2
  <2>9. NodeHash(NodeAt(t, p)) =
          [x \in UNION {DOMAIN kids[n].hash : n \in DOMAIN kids} |-> kids[slot(x)].hash[x]]
    BY <2>2 DEF NodeHash, InternalNode
  <2>10. NodeHash(NodeAt(t, p)) = [x \in Below(c, p) |-> c[x]]
    BY <2>7, <2>8, <2>9
  <2> QED
    BY <2>10 DEF Sub, Restrict
<1> QED
  BY <1>1, <1>2

-----------------------------------------------------------------------------
(* The walk.                                                                *)

\* Every record of t is there.
Whole(t) == Refs(t) \subseteq DOMAIN recs

\* What t says about x.
Says(t, x) == IF x \in DOMAIN t.val THEN Found(t.val[x]) ELSE NotFound

\* A read of x in t ends with what t says, or misses a record that is gone.
Answers(t, x, r) == r = Says(t, x) \/ (r = Missing /\ ~Whole(t))

\* After i iterations the walk stands before the node at the first i nibbles.
OnWay(t, x, i, r) ==
    /\ r.st = "walk"
    /\ SubSeq(x, 1, i) \in Positions(t.val)
    /\ r.out = ChildRef(t, SubSeq(x, 1, i))

\* The node record of a position loads, unless it is gone.
LEMMA LoadAt ==
    ASSUME NEW t, DOMAIN t.val \subseteq Path, Truthful(t),
           NEW p \in Positions(t.val)
    PROVE  LET n == LoadNode(NodeKey(p, t.ver[p]), Sub(t.val, p))
           IN  n = Found(NodeAt(t, p)) \/ (n = Missing /\ ~Whole(t))
<1> DEFINE k == NodeKey(p, t.ver[p])
<1>1. k \in Refs(t)
  BY DEF Refs
<1>2. RecordOf(t, k) = NodeAt(t, p)
  BY DEF RecordOf, NodeKey
<1>3. CASE k \in DOMAIN recs
  <2>1. recs[k] = NodeAt(t, p)
    BY <1>1, <1>2, <1>3 DEF Truthful
  <2> HIDE DEF k
  <2>2. NodeHash(recs[k]) = Sub(t.val, p)
    BY <2>1, NodeHashes
  <2> QED
    BY <1>3, <2>1, <2>2 DEF LoadNode, k
<1>4. CASE k \notin DOMAIN recs
  BY <1>1, <1>4 DEF LoadNode, Whole
<1> QED
  BY <1>3, <1>4

\* ... and so does the value record of a leaf.
LEMMA ReadAt ==
    ASSUME NEW t, Truthful(t), NEW x \in DOMAIN t.val
    PROVE  Answers(t, x, ReadValue(x, t.val[x], t.vv[x]))
<1> DEFINE k == ValueKey(x, t.val[x], t.vv[x])
<1>1. k \in Refs(t)
  BY DEF Refs
<1>2. RecordOf(t, k) = t.val[x]
  BY DEF RecordOf, ValueKey
<1>3. CASE k \in DOMAIN recs
  <2>1. recs[k] = t.val[x]
    BY <1>1, <1>2, <1>3 DEF Truthful
  <2> QED
    BY <1>3, <2>1 DEF ReadValue, Answers, Says
<1>4. CASE k \notin DOMAIN recs
  BY <1>1, <1>4 DEF ReadValue, Whole, Answers
<1> QED
  BY <1>3, <1>4

\* One iteration: the walk ends with an answer or descends to the next nibble.
LEMMA StepAnswers ==
    ASSUME NEW t, DOMAIN t.val \subseteq Path, Truthful(t),
           NEW x \in Path, NEW i \in 0 .. Depth, NEW r, OnWay(t, x, i, r)
    PROVE  \/ Answers(t, x, WalkStep(r.out, x, i))
           \/ i < Depth /\ OnWay(t, x, i + 1, WalkStep(r.out, x, i))
<1> DEFINE p == SubSeq(x, 1, i)
           c == t.val
           n == LoadNode(NodeKey(p, t.ver[p]), Sub(c, p))
           s == WalkStep(r.out, x, i)
<1>1. /\ p \in Prefix /\ Len(p) = i /\ Under(x, p)
      /\ p \in Positions(c)
  BY PathPrefix DEF OnWay
<1>2. r.out = ChildRef(t, p)
  BY DEF OnWay
<1>3. r.out.ver = t.ver[p] /\ r.out.hash = Sub(c, p) /\ r.out.isLeaf = ~Crowded(c, p)
  BY <1>2 DEF ChildRef
<1>4. n = Found(NodeAt(t, p)) \/ (n = Missing /\ ~Whole(t))
  BY <1>1, LoadAt
<1>5. CASE n = Missing /\ ~Whole(t)
  <2>1. s = Missing
    BY <1>3, <1>5 DEF WalkStep, Missing
  <2> QED
    BY <1>5, <2>1 DEF Answers
<1>6. CASE n = Found(NodeAt(t, p)) /\ ~Crowded(c, p)
  <2>1. PICK y : y = CHOOSE z \in Below(c, p) : TRUE
    OBVIOUS
  <2>2. Below(c, p) = {y} /\ y \in DOMAIN c
    BY <1>1, <1>6, <2>1 DEF Crowded, Positions, Below
  <2>3. NodeAt(t, p) = LeafNode(y, c[y], t.vv[y])
    BY <1>6, <2>1 DEF NodeAt
  <2>4. /\ n.st = "found" /\ n.out.isLeaf = TRUE /\ n.out.path = y
        /\ n.out.val = c[y] /\ n.out.vv = t.vv[y]
    BY <1>6, <2>3 DEF Found, LeafNode
  <2>5. s = IF y = x THEN ReadValue(x, c[y], t.vv[y]) ELSE NotFound
    BY <1>3, <1>6, <2>4 DEF WalkStep
  <2>6. x \in DOMAIN c <=> x = y
    BY <1>1, <2>2 DEF Below
  <2>7. CASE x = y
    BY <2>5, <2>6, <2>7, ReadAt
  <2>8. CASE x # y
    BY <2>5, <2>6, <2>8 DEF Answers, Says
  <2> QED
    BY <2>7, <2>8
<1>7. CASE n = Found(NodeAt(t, p)) /\ Crowded(c, p)
  <2> DEFINE q == Append(p, x[i + 1])
  <2>1. i < Depth /\ x[i + 1] \in Nibbles /\ SubSeq(x, 1, i + 1) = q
    BY <1>1, <1>7, CrowdedShort, PathPrefix
  <2>2. NodeAt(t, p) = InternalNode([m \in Kids(c, p) |-> ChildRef(t, Append(p, m))])
    BY <1>7 DEF NodeAt
  <2>3. /\ n.st = "found" /\ n.out.isLeaf = FALSE
        /\ n.out.kids = [m \in Kids(c, p) |-> ChildRef(t, Append(p, m))]
    BY <1>7, <2>2 DEF Found, InternalNode
  <2>4. s = IF x[i + 1] \in Kids(c, p) THEN Descend(ChildRef(t, q)) ELSE NotFound
    BY <1>3, <1>7, <2>3 DEF WalkStep
  <2>5. CASE x[i + 1] \in Kids(c, p)
    <3>1. q \in Positions(c)
      BY <1>1, <1>7, <2>5, KidPosition
    <3>2. s.st = "walk" /\ s.out = ChildRef(t, q)
      BY <2>4, <2>5 DEF Descend
    <3> QED
      BY <2>1, <3>1, <3>2 DEF OnWay
  <2>6. CASE x[i + 1] \notin Kids(c, p)
    <3>1. x \notin DOMAIN c
      BY <1>1, <2>1, <2>6, UnderKid DEF Kids, Below
    <3> QED
      BY <2>4, <2>6, <3>1 DEF Answers, Says
  <2> QED
    BY <2>5, <2>6
<1> QED
  BY <1>4, <1>5, <1>6, <1>7

\* The loop of walk, unrolled: what is known after i iterations.
LEMMA WalkAnswers ==
    ASSUME NEW t, DOMAIN t.val \subseteq Path, Truthful(t),
           << >> \in Positions(t.val), NEW x \in Path
    PROVE  Answers(t, x, Walk(ChildRef(t, << >>), x))
<1> DEFINE c == ChildRef(t, << >>)
           Step(r, i) == IF r.st = "walk" THEN WalkStep(r.out, x, i - 1) ELSE r
           Loop(g, n) == g = [i \in 0 .. n |-> IF i = 0 THEN {Descend(c)}
                                ELSE {Step(r, i) : r \in g[i - 1]}]
           after == CHOOSE g : Loop(g, Depth + 1)
\* The recursive definition has a solution: any initial part can be extended.
<1>1. \E g : Loop(g, Depth + 1)
  <2> DEFINE S == {n \in Nat : \E g : Loop(g, n)}
  <2>1. 0 \in S
    <3> DEFINE g == [i \in 0 .. 0 |-> {Descend(c)}]
    <3>1. Loop(g, 0)
      OBVIOUS
    <3> QED
      BY <3>1
  <2>2. ASSUME NEW n \in Nat, n \in S PROVE n + 1 \in S
    <3>1. PICK g : Loop(g, n)
      BY <2>2
    <3> DEFINE last == {Step(r, n + 1) : r \in g[n]}
               h == [i \in 0 .. n + 1 |-> IF i = n + 1 THEN last ELSE g[i]]
    <3>2. \A i \in 0 .. n + 1 :
             h[i] = IF i = 0 THEN {Descend(c)} ELSE {Step(r, i) : r \in h[i - 1]}
      <4> SUFFICES ASSUME NEW i \in 0 .. n + 1
                   PROVE  h[i] = IF i = 0 THEN {Descend(c)}
                                 ELSE {Step(r, i) : r \in h[i - 1]}
        OBVIOUS
      <4> HIDE DEF Step, c
      <4>1. CASE i = n + 1
        <5>1. i - 1 = n /\ i # 0 /\ n # n + 1 /\ n \in 0 .. n + 1
          BY <4>1
        <5>2. h[n] = g[n]
          BY <5>1
        <5> QED
          BY <4>1, <5>1, <5>2
      <4>2. CASE i # n + 1
        <5>1. i \in 0 .. n /\ h[i] = g[i]
          BY <4>2
        <5>2. i # 0 => /\ i - 1 \in 0 .. n + 1 /\ i - 1 # n + 1
                       /\ h[i - 1] = g[i - 1]
          BY <5>1
        <5>3. g[i] = IF i = 0 THEN {Descend(c)} ELSE {Step(r, i) : r \in g[i - 1]}
          BY <3>1, <5>1
        <5> QED
          BY <5>1, <5>2, <5>3
      <4> QED
        BY <4>1, <4>2
    <3>3. Loop(h, n + 1)
      <4>1. h = [i \in 0 .. n + 1 |-> h[i]]
        OBVIOUS
      <4> HIDE DEF h, Step, c
      <4> QED
        BY <3>2, <4>1
    <3> QED
      <4> HIDE DEF Loop, h
      <4> QED
        BY <3>3
  <2>3. Nat \subseteq S
    <3> HIDE DEF S
    <3> QED
      BY <2>1, <2>2, SetInduction
  <2> HIDE DEF Loop
  <2>4. Depth + 1 \in S
    BY <2>3, DepthAssumption
  <2> QED
    BY <2>4
<1>2. Loop(after, Depth + 1)
  <2> HIDE DEF Loop
  <2> QED
    BY <1>1
<1>3. Walk(c, x) = CHOOSE r \in after[Depth + 1] : TRUE
  BY DEF Walk
<1> HIDE DEF after
<1> DEFINE Known(r, i) == Answers(t, x, r) \/ (i =< Depth /\ OnWay(t, x, i, r))
           S == {i \in Nat : i =< Depth + 1 => \E r : after[i] = {r} /\ Known(r, i)}
<1>4. 0 \in S
  <2>1. after[0] = {Descend(c)}
    <3> HIDE DEF Step, c
    <3> QED
      BY <1>2, DepthAssumption
  <2>2. SubSeq(x, 1, 0) = << >>
    BY DepthAssumption DEF Path
  <2>3. OnWay(t, x, 0, Descend(c))
    BY <2>2 DEF OnWay, Descend
  <2> QED
    BY <2>1, <2>3, DepthAssumption
<1>5. ASSUME NEW i \in Nat, i \in S PROVE i + 1 \in S
  <2> SUFFICES ASSUME i + 1 =< Depth + 1
               PROVE  \E r : after[i + 1] = {r} /\ Known(r, i + 1)
    OBVIOUS
  <2>1. i \in 0 .. Depth /\ i + 1 \in 0 .. Depth + 1 /\ (i + 1) - 1 = i /\ i + 1 # 0
    BY DepthAssumption
  <2>2. PICK r : after[i] = {r} /\ Known(r, i)
    BY <1>5, <2>1, DepthAssumption
  <2>3. after[i + 1] = {Step(q, i + 1) : q \in after[i]}
    <3> HIDE DEF Step, c
    <3> QED
      BY <1>2, <2>1
  <2>4. after[i + 1] = {Step(r, i + 1)}
    BY <2>2, <2>3
  <2>5. CASE Answers(t, x, r)
    <3>1. r.st # "walk"
      BY <2>5 DEF Answers, Says, Found, NotFound, Missing
    <3>2. Step(r, i + 1) = r
      BY <3>1
    <3> QED
      BY <2>4, <2>5, <3>2
  <2>6. CASE OnWay(t, x, i, r)
    <3>1. Step(r, i + 1) = WalkStep(r.out, x, i)
      BY <2>1, <2>6 DEF OnWay
    <3>2. \/ Answers(t, x, WalkStep(r.out, x, i))
          \/ i < Depth /\ OnWay(t, x, i + 1, WalkStep(r.out, x, i))
      BY <2>1, <2>6, StepAnswers
    <3>3. Known(WalkStep(r.out, x, i), i + 1)
      BY <2>1, <3>2, DepthAssumption
    <3> QED
      BY <2>4, <3>1, <3>3
  <2> QED
    BY <2>2, <2>5, <2>6
<1>6. Nat \subseteq S
  <2> HIDE DEF S
  <2> QED
    BY <1>4, <1>5, SetInduction
<1>7. Depth + 1 \in S /\ ~(Depth + 1 =< Depth)
  BY <1>6, DepthAssumption
<1>8. PICK r : after[Depth + 1] = {r} /\ Answers(t, x, r)
  BY <1>7
<1>9. Walk(c, x) = r
  BY <1>3, <1>8
<1> QED
  BY <1>8, <1>9

\* A non-empty tree has a root node, and its hash is the whole content.
LEMMA RootPosition ==
    ASSUME NEW t, NEW w, IsVersion(t, w), t.val # Placeholder
    PROVE  << >> \in Positions(t.val) /\ Sub(t.val, << >>) = t.val
<1> DEFINE c == t.val
<1>1. c = [x \in DOMAIN c |-> c[x]]
  BY DEF IsVersion
<1>2. \A x : Under(x, << >>)
  BY DEF Under
<1>3. Below(c, << >>) = DOMAIN c
  BY <1>2 DEF Below
<1>4. DOMAIN c # {}
  BY <1>1 DEF Placeholder
<1>5. << >> \in Prefix
  <2>1. << >> \in [1 .. 0 -> Nibbles] /\ 0 \in 0 .. Depth
    BY DepthAssumption
  <2> QED
    BY <2>1 DEF Prefix
<1>6. Sub(c, << >>) = c
  BY <1>1, <1>3 DEF Sub, Restrict
<1> QED
  BY <1>3, <1>4, <1>5, <1>6 DEF Positions

\* A read through the root record of a version answers for that version, and
\* the root node loads unless records are gone.
LEMMA GetAnswers ==
    ASSUME NEW t, NEW w, IsTree(t, w), IsVersion(t, w), Truthful(t), NEW x \in Path
    PROVE  /\ Answers(t, x, GetFrom(t.val, w, x))
           /\ LoadRootChild(t.val, w).st = "found" \/ ~Whole(t)
<1>1. CASE t.val = Placeholder
  <2>1. x \notin DOMAIN t.val
    BY <1>1 DEF Placeholder
  <2>2. LoadRootChild(t.val, w).st = "found"
    BY <1>1 DEF LoadRootChild, Found
  <2>3. GetFrom(t.val, w, x) = NotFound
    BY <1>1, <2>2 DEF GetFrom
  <2> QED
    BY <2>1, <2>2, <2>3 DEF Answers, Says
<1>2. CASE t.val # Placeholder
  <2> DEFINE n == LoadNode(NodeKey(<< >>, w), t.val)
  <2>1. << >> \in Positions(t.val) /\ Sub(t.val, << >>) = t.val /\ t.ver[<< >>] = w
    BY <1>2, RootPosition DEF IsVersion
  <2>2. DOMAIN t.val \subseteq Path
    BY DEF IsTree
  <2>3. n = Found(NodeAt(t, << >>)) \/ (n = Missing /\ ~Whole(t))
    BY <2>1, <2>2, LoadAt
  <2>4. CASE n = Missing /\ ~Whole(t)
    <3>1. LoadRootChild(t.val, w) = Missing
      BY <1>2, <2>4 DEF LoadRootChild, Missing
    <3>2. GetFrom(t.val, w, x) = Missing
      BY <3>1 DEF GetFrom, Missing
    <3> QED
      BY <2>4, <3>2 DEF Answers
  <2>5. CASE n = Found(NodeAt(t, << >>))
    <3>1. NodeAt(t, << >>).isLeaf = ~Crowded(t.val, << >>)
      BY DEF NodeAt, LeafNode, InternalNode
    <3>2. ChildRef(t, << >>) = [ver |-> w, hash |-> t.val, isLeaf |-> NodeAt(t, << >>).isLeaf]
      BY <2>1, <3>1 DEF ChildRef
    <3>3. LoadRootChild(t.val, w) = Found(ChildRef(t, << >>))
      BY <1>2, <2>5, <3>2 DEF LoadRootChild, Found
    <3>4. GetFrom(t.val, w, x) = Walk(ChildRef(t, << >>), x)
      BY <1>2, <3>3 DEF GetFrom, Found
    <3> QED
      BY <2>1, <2>2, <3>3, <3>4, WalkAnswers DEF Found
  <2> QED
    BY <2>3, <2>4, <2>5
<1> QED
  BY <1>1, <1>2

-----------------------------------------------------------------------------
(* The invariant behind reads.                                              *)

\* Applying a batch of the user's gives the next version's tree.
LEMMA ApplyVersion ==
    ASSUME NEW t, NEW w, NEW v, IsVersion(t, w),
           NEW upd, DOMAIN upd \subseteq AllPaths,
           \A x \in DOMAIN upd \cap Paths : upd[x] \in Values \cup {Absent},
           Updated(t.val, upd) # t.val \/ w = v
    PROVE  IsVersion(Apply(t, upd, v), v)
<1> DEFINE c == Updated(t.val, upd)
           t1 == Apply(t, upd, v)
<1>1. t1.val = c
  BY DEF Apply
<1>2. /\ c = [x \in DOMAIN c |-> c[x]]
      /\ DOMAIN c \subseteq AllPaths
      /\ \A x \in DOMAIN c \cap Paths : c[x] \in Values
  BY DEF Updated, IsVersion
<1>3. ASSUME c # Placeholder PROVE t1.ver[<< >>] = v
  <2>1. << >> \in Positions(c)
    <3>1. DOMAIN c # {}
      BY <1>2, <1>3 DEF Placeholder
    <3>2. Below(c, << >>) = DOMAIN c
      BY DEF Below, Under
    <3>3. << >> \in Prefix
      <4>1. << >> \in [1 .. 0 -> Nibbles] /\ 0 \in 0 .. Depth
        BY DepthAssumption
      <4> QED
        BY <4>1 DEF Prefix
    <3> QED
      BY <3>1, <3>2, <3>3 DEF Positions
  <2>2. t1.ver[<< >>] = IF << >> \in Positions(t.val) /\ Sub(c, << >>) = Sub(t.val, << >>)
                        THEN t.ver[<< >>] ELSE v
    BY <2>1 DEF Apply
  <2>3. ASSUME << >> \in Positions(t.val), Sub(c, << >>) = Sub(t.val, << >>)
        PROVE  t.ver[<< >>] = v
    <3>1. Sub(c, << >>) = c /\ Sub(t.val, << >>) = t.val
      <4>1. Below(c, << >>) = DOMAIN c /\ Below(t.val, << >>) = DOMAIN t.val
        BY DEF Below, Under
      <4> QED
        BY <1>2, <4>1 DEF Sub, Restrict, IsVersion
    <3>2. c = t.val /\ w = v
      BY <2>3, <3>1
    <3> QED
      BY <1>3, <3>2 DEF IsVersion
  <2> QED
    BY <2>2, <2>3
<1> QED
  BY <1>1, <1>2, <1>3 DEF IsVersion

\* Nothing is committed, nothing can be read.
LEMMA InitRead == Init => ReadInv
BY DEF Init, ReadInv, Committed, NoCheckpoint, Placeholder

\* The empty tree of version 0.
LEMMA CreateRead == CoreInv /\ Create => ReadInv'
<1> SUFFICES ASSUME CoreInv, Create PROVE ReadInv'
  OBVIOUS
<1>1. /\ Committed' = 0 .. 0
      /\ lineage'[0] = EmptyTree
      /\ roots' = [v \in {0} |-> Placeholder]
  BY DEF Create, Committed, Checkpoint
<1>2. DOMAIN Placeholder = {} /\ Placeholder = [x \in DOMAIN Placeholder |-> Placeholder[x]]
  BY DEF Placeholder
<1>3. Refs(EmptyTree) = {}
  BY <1>2 DEF Refs, EmptyTree, Positions, Below
<1>4. IsVersion(EmptyTree, 0)
  BY <1>2 DEF IsVersion, EmptyTree
<1>5. \A w \in Committed' : lineage'[w] = EmptyTree /\ w = 0
  BY <1>1
<1>6. \A w \in Committed' : Truthful(lineage[w])' /\ IsVersion(lineage'[w], w)
  BY <1>3, <1>4, <1>5 DEF Truthful
<1>7. \A w \in DOMAIN roots' : roots'[w] = lineage'[w].val
  BY <1>1 DEF EmptyTree
<1> QED
  BY <1>6, <1>7 DEF ReadInv

\* Steps that commit nothing and delete at most.
LEMMA QuietRead ==
    ASSUME ReadInv, UNCHANGED <<ckpt, lineage>>,
           DOMAIN recs' \subseteq DOMAIN recs,
           \A k \in DOMAIN recs' : recs'[k] = recs[k],
           DOMAIN roots' \subseteq DOMAIN roots,
           \A w \in DOMAIN roots' : roots'[w] = roots[w]
    PROVE  ReadInv'
<1>1. Committed' = Committed
  BY DEF Committed
<1>2. \A w \in Committed : Truthful(lineage[w])'
  BY DEF ReadInv, Truthful
<1> QED
  BY <1>1, <1>2 DEF ReadInv

\* A commit writes records of its own version only.
LEMMA CommitRead ==
    ASSUME CoreInv, ReadInv, up, NEW t1, Succeeds(t1), IsVersion(t1, version + 1),
           Commit(lineage[version], t1, version + 1)
    PROVE  ReadInv'
<1> DEFINE t  == lineage[version]
           v  == version + 1
           written == {k \in Refs(t1) : k.ver = v}
<1>1. /\ recs' = [k \in DOMAIN recs \cup written |->
                    IF k \in written THEN RecordOf(t1, k) ELSE recs[k]]
      /\ roots' = [w \in DOMAIN roots \cup {v} |->
                    IF w = v THEN t1.val ELSE roots[w]]
      /\ ckpt'.version = v
      /\ lineage' = [w \in 0 .. v |-> IF w = v THEN t1 ELSE lineage[w]]
  BY DEF Commit, Checkpoint
<1>2. /\ version \in Nat /\ v \in Nat /\ version < v
      /\ version = ckpt.version /\ Committed = 0 .. version
      /\ version \in Retained /\ version \in Committed
      /\ DOMAIN roots \subseteq Committed
  BY DEF CoreInv, TypeOK, CheckpointCurrent, Committed, Retained, RecordsPast
<1>3. /\ Committed' = Committed \cup {v} /\ v \notin Committed
      /\ lineage'[v] = t1
      /\ \A w \in Committed : lineage'[w] = lineage[w]
  BY <1>1, <1>2 DEF Committed
<1>4. \A k \in Refs(t1) : k.ver # v => k \in Refs(t) /\ RecordOf(t1, k) = RecordOf(t, k)
  BY DEF Succeeds
<1>5. ASSUME NEW w \in Committed PROVE Truthful(lineage[w])'
  <2>1. w \in Nat /\ w =< version /\ IsTree(lineage[w], w)
    BY <1>2 DEF CoreInv, CheckpointCurrent, EmptyUntilCreated
  <2>2. \A k \in Refs(lineage[w]) : k.ver # v
    BY <1>2, <2>1, TreeRefs
  <2>3. \A k \in Refs(lineage[w]) : k \in DOMAIN recs' => k \in DOMAIN recs /\ recs'[k] = recs[k]
    BY <1>1, <2>2
  <2> QED
    BY <1>3, <2>3 DEF ReadInv, Truthful
<1>6. ASSUME NEW w, w = v PROVE Truthful(lineage[w])'
  <2> SUFFICES ASSUME NEW k \in Refs(t1), k \in DOMAIN recs'
               PROVE  recs'[k] = RecordOf(t1, k)
    BY <1>3, <1>6 DEF Truthful
  <2>1. CASE k.ver = v
    BY <1>1, <2>1
  <2>2. CASE k.ver # v
    <3>1. k \in Refs(t) /\ RecordOf(t1, k) = RecordOf(t, k)
      BY <1>4, <2>2
    <3>2. k \in DOMAIN recs /\ recs[k] = RecordOf(t, k)
      BY <1>2, <3>1 DEF CoreInv, RetainedIntact
    <3> QED
      BY <1>1, <2>2, <3>1, <3>2
  <2> QED
    BY <2>1, <2>2
<1>7. \A w \in DOMAIN roots' : roots'[w] = lineage'[w].val
  BY <1>1, <1>2, <1>3 DEF ReadInv
<1>8. \A w \in Committed' : Truthful(lineage[w])' /\ IsVersion(lineage'[w], w)
  BY <1>3, <1>5, <1>6 DEF ReadInv
<1> QED
  BY <1>7, <1>8 DEF ReadInv

\* The tree of a PutBatch: its batch and link are the user's keys and the head
\* leaf.
LEMMA BatchVersion ==
    ASSUME CoreInv, ReadInv, NEW upd \in Batches, PutBatch(upd)
    PROVE  IsVersion(WithLink(Apply(lineage[version], upd, version + 1), version + 1),
                     version + 1)
<1> DEFINE t  == lineage[version]
           v  == version + 1
           ta == Apply(t, upd, v)
           t1 == WithLink(ta, v)
<1>1. up /\ ta.val # t.val /\ Commit(t, t1, v)
  BY DEF PutBatch, Ready
<1>2. version \in Committed
  BY <1>1 DEF CoreInv, TypeOK, CheckpointCurrent, Committed
<1>3. /\ DOMAIN upd \subseteq Paths
      /\ \A x \in DOMAIN upd : upd[x] \in Values \cup {Absent}
  BY DEF Batches
<1>4. IsVersion(t, version) /\ ta.val = Updated(t.val, upd)
  BY <1>2 DEF ReadInv, Apply
<1>5. IsVersion(ta, v)
  BY <1>1, <1>3, <1>4, ApplyVersion DEF AllPaths
<1>6. ASSUME Chained PROVE IsVersion(Apply(ta, Link(v), v), v)
  <2>1. DOMAIN Link(v) = {HistoryPath} /\ DOMAIN Link(v) \cap Paths = {}
    BY PathsAssumption DEF Link
  <2> QED
    BY <1>5, <2>1, ApplyVersion DEF AllPaths
<1> QED
  BY <1>5, <1>6 DEF WithLink

\* So PutBatch preserves the invariant.
LEMMA PutBatchRead ==
    ASSUME CoreInv, ReadInv, NEW upd \in Batches, PutBatch(upd)
    PROVE  ReadInv'
<1> DEFINE t1 == WithLink(Apply(lineage[version], upd, version + 1), version + 1)
<1>1. up /\ Commit(lineage[version], t1, version + 1)
  BY DEF PutBatch, Ready
<1>2. Succeeds(t1)
  BY <1>1, BatchSucceeds
<1>3. IsVersion(t1, version + 1)
  BY BatchVersion
<1> HIDE DEF t1
<1> QED
  BY <1>1, <1>2, <1>3, CommitRead

\* Every step preserves the invariant behind reads.
LEMMA NextRead == IndInv /\ ReadInv /\ [Next]_vars => ReadInv'
<1> SUFFICES ASSUME CoreInv, ReadInv, [Next]_vars PROVE ReadInv'
  BY DEF IndInv
<1>1. CASE Create
  BY <1>1, CreateRead
<1>2. CASE \E upd \in Batches : PutBatch(upd)
  BY <1>2, PutBatchRead
<1>3. CASE PruneStale
  BY <1>3, QuietRead DEF PruneStale, Restrict, ghosts
<1>4. CASE PruneRoots
  BY <1>4, QuietRead DEF PruneRoots, Restrict, ghosts
<1>5. CASE UNCHANGED <<backend, lineage>>
  BY <1>5, QuietRead DEF backend
<1>6. CASE \/ OpenLatest \/ Crash \/ PruneFails \/ UNCHANGED vars
           \/ \E v \in (0 .. version) \cup {None} : PinVersion(v)
           \/ \E before \in 0 .. MaxVersion : PruneStart(before)
           \/ \E window \in 0 .. MaxVersion : RetainRecent(window)
  BY <1>5, <1>6 DEF OpenLatest, OpenAt, Crash, PruneFails, PinVersion, PruneStart,
     RetainRecent, vars, ghosts
<1> QED
  BY <1>1, <1>2, <1>3, <1>4, <1>6 DEF Next

\* For every committed version the records that are still there are the ones
\* it wrote, and its root node is where loadRootChild looks for it.
THEOREM ReadInvariance == Spec => []ReadInv
  BY InitRead, NextRead, InitInv, NextInv, PTL DEF Spec

\* What the invariants say of a read at a committed version.
LEMMA ReadsAnswer ==
    ASSUME CoreInv, ReadInv, NEW w \in Committed, NEW x \in AllPaths
    PROVE  /\ Answers(lineage[w], x, GetFrom(lineage[w].val, w, x))
           /\ w \in Retained => /\ GetFrom(lineage[w].val, w, x) = Truth(w, x)
                                /\ LoadRootChild(lineage[w].val, w).st = "found"
<1>1. Created /\ x \in Path
  BY PathsAssumption DEF CoreInv, EmptyUntilCreated, Committed, AllPaths
<1>2. IsTree(lineage[w], w) /\ IsVersion(lineage[w], w) /\ Truthful(lineage[w])
  BY <1>1 DEF CoreInv, CheckpointCurrent, ReadInv
<1>3. /\ Answers(lineage[w], x, GetFrom(lineage[w].val, w, x))
      /\ LoadRootChild(lineage[w].val, w).st = "found" \/ ~Whole(lineage[w])
  BY <1>1, <1>2, GetAnswers
<1>4. w \in Retained => Whole(lineage[w])
  BY DEF CoreInv, RetainedIntact, Whole
<1>5. Says(lineage[w], x) = Truth(w, x)
  BY DEF Says, Truth
<1> QED
  BY <1>3, <1>4, <1>5 DEF Answers

\* A read is exact, through any interleaving of commits, crashes, reopenings
\* and prunes cut short, for any tree and any chunk size: at a retained version
\* it returns what that version committed, below the horizon the same or
\* KindMissing, and once a Prune has returned, KindMissing.
THEOREM ReadsSafe == Spec => []ReadsExact
<1>1. ASSUME IndInv, EraseInv, ReadInv PROVE ReadsExact
  <2> SUFFICES ASSUME NEW w \in Committed, NEW x \in AllPaths
               PROVE  /\ w \in Retained => GetAt(w, x) = Truth(w, x)
                      /\ GetAt(w, x) \in {Truth(w, x), Missing}
                      /\ (prune.phase = "done" /\ w < prune.before) => GetAt(w, x) = Missing
                      /\ (up /\ w = version) => GetFrom(root, version, x) = Truth(w, x)
    BY DEF ReadsExact
  <2>1. /\ Answers(lineage[w], x, GetFrom(lineage[w].val, w, x))
        /\ w \in Retained => GetFrom(lineage[w].val, w, x) = Truth(w, x)
    BY <1>1, ReadsAnswer DEF IndInv
  <2>2. Says(lineage[w], x) = Truth(w, x)
    BY DEF Says, Truth
  <2>3. w \in DOMAIN roots => GetAt(w, x) = GetFrom(lineage[w].val, w, x)
    BY <1>1 DEF GetAt, ReadInv
  <2>4. w \notin DOMAIN roots => GetAt(w, x) = Missing
    BY DEF GetAt
  <2>5. w \in Retained => w \in DOMAIN roots
    BY <1>1 DEF IndInv, CoreInv, RootsKept, HasRoot
  <2>6. (prune.phase = "done" /\ w < prune.before) => w \notin DOMAIN roots
    BY <1>1 DEF EraseInv, PruneProgress, IndInv, CoreInv, TypeOK, Committed
  <2>7. ASSUME up, w = version PROVE GetFrom(root, version, x) = Truth(w, x)
    <3>1. w \in Retained /\ root = lineage[w].val
      BY <1>1, <2>7 DEF IndInv, CoreInv, CheckpointCurrent, Retained
    <3> QED
      BY <2>1, <2>7, <3>1
  <2> QED
    BY <2>1, <2>2, <2>3, <2>4, <2>5, <2>6, <2>7 DEF Answers
<1> QED
  BY <1>1, InitRead, NextRead, InitErase, NextErase, InitInv, NextInv, PTL DEF Spec

-----------------------------------------------------------------------------
(* The refinement of VersionedMap.                                          *)

\* What a version holds under the user's keys.
UserPart(t) == [x \in Paths \cap DOMAIN t.val |-> t.val[x]]

\* The history of the lineage, as the abstract map sees it.
UserHistory == [w \in Retained |-> UserPart(lineage[w])]

\* What is read through the records is what was committed.
LEMMA ReadableIs == IndInv /\ ReadInv => Readable = UserHistory
<1> SUFFICES ASSUME IndInv, ReadInv, NEW w \in Retained
             PROVE  LET got == {r \in {[key |-> x, res |-> GetAt(w, x)] : x \in Paths} :
                                   r.res.st = "found"}
                    IN  [x \in {r.key : r \in got} |->
                            (CHOOSE r \in got : r.key = x).res.out] = UserPart(lineage[w])
  BY DEF Readable, UserHistory
<1> DEFINE got == {r \in {[key |-> x, res |-> GetAt(w, x)] : x \in Paths} :
                      r.res.st = "found"}
           c == lineage[w].val
           D == Paths \cap DOMAIN c
<1>1. w \in Committed /\ w \in DOMAIN roots /\ roots[w] = c
  BY DEF Retained, IndInv, CoreInv, RootsKept, HasRoot
<1>2. \A x \in Paths : GetAt(w, x) = Truth(w, x)
  BY <1>1, ReadsAnswer DEF IndInv, GetAt, AllPaths
<1>3. \A x \in Paths : /\ GetAt(w, x).st = "found" <=> x \in DOMAIN c
                       /\ x \in DOMAIN c => GetAt(w, x).out = c[x]
  BY <1>2 DEF Truth, Found, NotFound
<1> DEFINE pair(x) == [key |-> x, res |-> GetAt(w, x)]
<1>4. got = {pair(x) : x \in D}
  BY <1>3
<1>5. \A x \in D : pair(x).key = x /\ pair(x).res.out = c[x]
  BY <1>3
<1> HIDE DEF got, pair, D
<1>6. {r.key : r \in got} = D
  BY <1>4, <1>5
<1>7. ASSUME NEW x \in D PROVE (CHOOSE r \in got : r.key = x).res.out = c[x]
  <2> DEFINE r == CHOOSE q \in got : q.key = x
  <2>1. \E q \in got : q.key = x
    BY <1>4, <1>5
  <2>2. r \in got /\ r.key = x
    BY <2>1
  <2> HIDE DEF r
  <2>3. r = pair(x)
    BY <1>4, <1>5, <2>2
  <2>4. r.res.out = c[x]
    BY <1>5, <2>3
  <2> QED
    BY <2>4 DEF r
<1>8. [x \in {r.key : r \in got} |-> (CHOOSE r \in got : r.key = x).res.out] = [x \in D |-> c[x]]
  BY <1>6, <1>7
<1> QED
  BY <1>8 DEF got, D, UserPart

\* The user's part of a content after a batch, with and without the link.
LEMMA UserPartApply ==
    ASSUME NEW t, NEW w, IsVersion(t, w), NEW upd \in Batches, NEW v, IsVersion(Apply(t, upd, v), v),
           Updated(t.val, upd) # t.val
    PROVE  /\ UserPart(WithLink(Apply(t, upd, v), v)) = UserPart(Apply(t, upd, v))
           /\ UserPart(Apply(t, upd, v)) # UserPart(t)
           /\ UserPart(Apply(t, upd, v)) \in VM!Content
<1> DEFINE c == t.val
           d == Updated(c, upd)
           ta == Apply(t, upd, v)
<1>1. ta.val = d
  BY DEF Apply
<1>2. DOMAIN upd \subseteq Paths /\ HistoryPath \notin DOMAIN upd
  BY PathsAssumption DEF Batches
<1>3. UserPart(WithLink(ta, v)) = UserPart(ta)
  <2>1. CASE Chained
    <3> DEFINE e == Updated(d, Link(v))
    <3>1. WithLink(ta, v).val = e
      BY <1>1, <2>1 DEF WithLink, Apply
    <3>2. DOMAIN Link(v) \cap Paths = {}
      BY PathsAssumption DEF Link
    <3>3. /\ Paths \cap DOMAIN e = Paths \cap DOMAIN d
          /\ \A x \in Paths \cap DOMAIN d : e[x] = d[x]
      BY <3>2 DEF Updated
    <3> QED
      BY <1>1, <3>1, <3>3 DEF UserPart
  <2>2. CASE ~Chained
    BY <2>2 DEF WithLink
  <2> QED
    BY <2>1, <2>2
<1>4. UserPart(ta) # UserPart(t)
  <2> SUFFICES ASSUME UserPart(ta) = UserPart(t) PROVE FALSE
    OBVIOUS
  <2>1. /\ Paths \cap DOMAIN d = Paths \cap DOMAIN c
        /\ \A x \in Paths \cap DOMAIN c : d[x] = c[x]
    BY <1>1 DEF UserPart
  <2>2. /\ HistoryPath \in DOMAIN d <=> HistoryPath \in DOMAIN c
        /\ HistoryPath \in DOMAIN c => d[HistoryPath] = c[HistoryPath]
    BY <1>2 DEF Updated
  <2>3. DOMAIN d \subseteq Paths \cup {HistoryPath} /\ DOMAIN c \subseteq Paths \cup {HistoryPath}
    BY <1>1 DEF IsVersion, AllPaths
  <2>4. DOMAIN d = DOMAIN c /\ \A x \in DOMAIN c : d[x] = c[x]
    BY <2>1, <2>2, <2>3
  <2>5. c = [x \in DOMAIN c |-> c[x]] /\ d = [x \in DOMAIN d |-> d[x]]
    BY <1>1 DEF IsVersion
  <2> QED
    BY <2>4, <2>5
<1>5. UserPart(ta) \in VM!Content
  <2>1. \A x \in Paths \cap DOMAIN d : d[x] \in Values
    BY <1>1 DEF IsVersion
  <2>2. UserPart(ta) \in [Paths \cap DOMAIN d -> Values]
    BY <1>1, <2>1 DEF UserPart
  <2> QED
    BY <2>2 DEF VM!Content
<1> QED
  BY <1>3, <1>4, <1>5

\* Every step of the store is a step of the abstract map, or none.
LEMMA StepRefines ==
    IndInv /\ ReadInv /\ IndInv' /\ ReadInv' /\ [Next]_vars
        => VM!Next \/ UNCHANGED Readable
<1>0. (IndInv /\ ReadInv)' => (Readable = UserHistory)'
  BY ReadableIs, PTL
<1> SUFFICES ASSUME IndInv, ReadInv, IndInv', ReadInv', [Next]_vars
             PROVE  VM!Next \/ UNCHANGED Readable
  OBVIOUS
<1>1. Readable = UserHistory
  BY ReadableIs
<1>2. Readable' = UserHistory'
  BY <1>0
<1> DEFINE h == UserHistory
           g == UserHistory'
<1>3. VM!Create(h, g) \/ VM!Commit(h, g) \/ VM!Forget(h, g) => VM!Next
  BY <1>1, <1>2 DEF VM!Next
<1>4. CASE Create
  <2>1. Retained = {}
    BY <1>4 DEF IndInv, CoreInv, EmptyUntilCreated, Create, Committed, Retained
  <2>2. Retained' = {0}
    <3>1. ckpt'.version = 0 /\ horizon' = horizon
      BY <1>4 DEF Create, Checkpoint
    <3>2. horizon = 0
      BY <1>4 DEF IndInv, CoreInv, EmptyUntilCreated, Create
    <3> QED
      BY <3>1, <3>2 DEF Retained, Committed
  <2>3. lineage'[0] = EmptyTree
    BY <1>4 DEF Create
  <2>4. UserPart(EmptyTree) = [k \in {} |-> {}]
    BY DEF UserPart, EmptyTree, Placeholder
  <2>5. g = [w \in {0} |-> [k \in {} |-> {}]]
    BY <2>2, <2>3, <2>4 DEF UserHistory
  <2>6. DOMAIN h = {}
    BY <2>1 DEF UserHistory
  <2> QED
    BY <1>3, <2>5, <2>6 DEF VM!Create
<1>5. ASSUME NEW upd \in Batches, PutBatch(upd) PROVE VM!Next
  <2> DEFINE t  == lineage[version]
             v  == version + 1
             ta == Apply(t, upd, v)
             t1 == WithLink(ta, v)
  <2>1. /\ up
        /\ ta.val # t.val
        /\ ckpt'.version = v
        /\ lineage' = [w \in 0 .. v |-> IF w = v THEN t1 ELSE lineage[w]]
        /\ horizon' = horizon
    BY <1>5 DEF PutBatch, Commit, Ready, Checkpoint
  <2>2. /\ version \in Nat /\ horizon \in Nat /\ horizon =< version
        /\ version = ckpt.version /\ Committed = 0 .. version /\ Committed' = 0 .. v
    BY <2>1 DEF IndInv, CoreInv, TypeOK, CheckpointCurrent, Committed
  <2>3. /\ Retained = horizon .. version /\ Retained' = Retained \cup {version + 1}
        /\ version \in Retained /\ version \in Committed
    BY <2>1, <2>2 DEF Retained
  <2>4. \A w \in Retained : lineage'[w] = lineage[w]
    BY <2>1, <2>2, <2>3
  <2>5. lineage'[version + 1] = t1
    BY <2>1, <2>2
  <2>6. IsVersion(t, version) /\ ta.val = Updated(t.val, upd)
    BY <2>3 DEF ReadInv, Apply
  <2>7. IsVersion(ta, v)
    <3>1. DOMAIN upd \subseteq AllPaths /\ \A x \in DOMAIN upd : upd[x] \in Values \cup {Absent}
      BY DEF Batches, AllPaths
    <3> QED
      BY <2>1, <2>6, <3>1, ApplyVersion
  <2>8. UserPart(t1) \in VM!Content \ {UserPart(t)}
    BY <2>1, <2>6, <2>7, UserPartApply
  <2>9. /\ DOMAIN h = Retained /\ DOMAIN g = Retained'
        /\ \A w \in Retained : h[w] = UserPart(lineage[w])
        /\ \A w \in Retained' : g[w] = UserPart(lineage'[w])
    BY DEF UserHistory
  <2>10. /\ version \in DOMAIN h
         /\ \A w \in DOMAIN h : w =< version
         /\ DOMAIN g = DOMAIN h \cup {version + 1}
         /\ \A w \in DOMAIN h : g[w] = h[w]
         /\ g[version + 1] \in VM!Content \ {h[version]}
    <3> HIDE DEF h, g
    <3> QED
      BY <2>2, <2>3, <2>4, <2>5, <2>8, <2>9
  <2>11. VM!Commit(h, g)
    <3> HIDE DEF h, g
    <3> QED
      BY <2>10 DEF VM!Commit
  <2> QED
    BY <1>3, <2>11
<1>6. ASSUME NEW before \in Nat, PruneStart(before) PROVE VM!Next
  <2>1. UNCHANGED <<ckpt, lineage>> /\ version \in Nat /\ up
    BY <1>6 DEF PruneStart, Ready, backend, memory, IndInv, CoreInv, TypeOK
  <2>2. horizon' \in Nat /\ horizon' >= horizon /\ horizon \in Nat
    BY <1>6, NoneAssumption DEF PruneStart, Capped, IndInv, CoreInv, TypeOK
  <2>3. horizon' =< ckpt'.version /\ ckpt'.version \in Nat /\ Committed' = Committed
    BY <2>1 DEF IndInv, CoreInv, TypeOK, CheckpointCurrent, Created, Committed
  <2>4. horizon' \in Retained /\ Retained' = {w \in Retained : w >= horizon'}
    BY <2>1, <2>2, <2>3 DEF Retained, Committed
  <2>5. DOMAIN h = Retained /\ \A w \in Retained : h[w] = UserPart(lineage[w])
    BY DEF UserHistory
  <2>6. g = [w \in Retained' |-> UserPart(lineage[w])]
    BY <2>1 DEF UserHistory
  <2>7. g = [w \in {u \in DOMAIN h : u >= horizon'} |-> h[w]]
    BY <2>4, <2>5, <2>6
  <2> QED
    BY <1>3, <2>4, <2>5, <2>7 DEF VM!Forget
<1>7. CASE \E window \in 0 .. MaxVersion : RetainRecent(window)
  <2>1. PICK window \in 0 .. MaxVersion : RetainRecent(window)
    BY <1>7
  <2>2. (IF window > version THEN 0 ELSE version - window) \in Nat
    BY DEF IndInv, CoreInv, TypeOK
  <2> QED
    BY <1>6, <2>1, <2>2 DEF RetainRecent
<1>8. CASE UNCHANGED <<ckpt, lineage, horizon>>
  <2>1. h = g
    BY <1>8 DEF UserHistory, Retained, Committed
  <2> QED
    BY <1>1, <1>2, <2>1
<1>9. CASE \/ OpenLatest \/ Crash \/ PruneFails \/ PruneStale \/ PruneRoots
           \/ UNCHANGED vars
           \/ \E v \in (0 .. version) \cup {None} : PinVersion(v)
  BY <1>8, <1>9 DEF OpenLatest, OpenAt, Crash, PruneFails, PruneStale, PruneRoots,
     PinVersion, vars, ghosts, backend
<1>10. CASE \E before \in 0 .. MaxVersion : PruneStart(before)
  BY <1>6, <1>10
<1> QED
  BY <1>4, <1>5, <1>7, <1>9, <1>10 DEF Next

\* Seen through verified reads of its records, the store is a map with
\* history: its specification implements VersionedMap.
THEOREM Refinement == Spec => ImplementsVersionedMap
<1>1. Init => VM!Init
  <2> SUFFICES ASSUME Init PROVE VM!Init
    OBVIOUS
  <2>1. Retained = {}
    BY DEF Init, Retained, Committed, NoCheckpoint
  <2> QED
    BY <2>1 DEF VM!Init, Readable
<1>2. IndInv /\ ReadInv /\ IndInv' /\ ReadInv' /\ [Next]_vars => [VM!Next]_Readable
  BY StepRefines
<1> QED
  BY <1>1, <1>2, InitRead, NextRead, InitInv, NextInv, PTL
     DEF Spec, ImplementsVersionedMap, VM!Spec

-----------------------------------------------------------------------------
(* The history chain.                                                       *)

\* Absent is no history link: a link is a hash that the store
\* puts into the tree, never a deletion.  (Absent is a parameter of the model,
\* and nothing in TLA+ keeps a parameter from being a record.)
LinksPresent == \A h, r, v : HistoryLink(h, r, v) # Absent

\* No version, no link.
LEMMA InitChain == Init => ChainInv
BY DEF Init, ChainInv, Committed, NoCheckpoint

\* Version 0 holds no link; the cached head is the all-zero one.
LEMMA CreateChain == IndInv /\ Create => ChainInv'
<1> SUFFICES ASSUME IndInv, Create PROVE ChainInv'
  OBVIOUS
<1>1. /\ Committed' = 0 .. 0 /\ lineage'[0] = EmptyTree
      /\ version' = 0 /\ head' = NoHead
  BY DEF Create, Committed, Checkpoint
<1>2. DOMAIN EmptyTree.val = {}
  BY DEF EmptyTree, Placeholder
<1>3. \A w \in Committed' : w = 0 /\ HistoryPath \notin DOMAIN lineage'[w].val
  BY <1>1, <1>2
<1>4. HeadOf(version)' = NoHead
  BY <1>1 DEF HeadOf
<1> QED
  BY <1>1, <1>3, <1>4 DEF ChainInv

\* Steps that commit nothing and keep the cached head, or drop the memory.
LEMMA QuietChain ==
    ASSUME ChainInv, UNCHANGED <<ckpt, lineage>>,
           ~up' \/ UNCHANGED <<up, version, head>>
    PROVE  ChainInv'
<1>1. Committed' = Committed
  BY DEF Committed
<1>2. \A w : HeadOf(w)' = HeadOf(w)
  BY DEF HeadOf
<1> QED
  BY <1>1, <1>2 DEF ChainInv, HeadOf

\* initHistory reads the head of the newest version back from its leaf.
LEMMA OpenChain ==
    ASSUME IndInv, ReadInv, ChainInv, OpenLatest
    PROVE  ChainInv'
<1> DEFINE w == ckpt.version
           leaf == GetFrom(ckpt.root, w, HistoryPath)
<1>1. /\ UNCHANGED <<ckpt, lineage>> /\ Created
      /\ version' = w
      /\ head' = IF leaf.st = "found" THEN leaf.out ELSE NoHead
  BY DEF OpenLatest, OpenAt, backend, ghosts
<1>2. /\ w \in Nat /\ w \in Retained /\ w \in Committed
      /\ ckpt.root = lineage[w].val
  BY <1>1 DEF IndInv, CoreInv, TypeOK, CheckpointCurrent, Retained, Committed
<1>3. leaf = Truth(w, HistoryPath)
  BY <1>2, ReadsAnswer DEF IndInv, AllPaths
<1>4. HistoryPath \in DOMAIN lineage[w].val <=> Chained /\ w > 0
  BY <1>2 DEF ChainInv
<1>5. head' = IF Chained THEN HeadOf(w) ELSE NoHead
  <2>1. CASE Chained /\ w > 0
    BY <1>1, <1>2, <1>3, <1>4, <2>1 DEF Truth, Found, HeadOf
  <2>2. CASE ~(Chained /\ w > 0)
    <3>1. head' = NoHead
      BY <1>1, <1>3, <1>4, <2>2 DEF Truth, NotFound
    <3> QED
      BY <1>2, <2>2, <3>1 DEF HeadOf
  <2> QED
    BY <2>1, <2>2
<1>6. Committed' = Committed
  BY <1>1 DEF Committed
<1>7. \A u : HeadOf(u)' = HeadOf(u)
  BY <1>1 DEF HeadOf
<1>8. HeadOf(version)' = HeadOf(w)
  BY <1>1 DEF HeadOf
<1>9. \A u \in Committed :
        /\ HistoryPath \in DOMAIN lineage'[u].val <=> Chained /\ u > 0
        /\ (Chained /\ u > 0) =>
              HeadOf(u)' = HistoryLink(HeadOf(u - 1)', lineage'[u - 1].val, u)
  BY <1>1, <1>7 DEF ChainInv
<1> QED
  BY <1>5, <1>6, <1>8, <1>9 DEF ChainInv

\* A chained commit adds the link of the version it replaces.
LEMMA PutBatchChain ==
    ASSUME LinksPresent, IndInv, ReadInv, ChainInv, NEW upd \in Batches, PutBatch(upd)
    PROVE  ChainInv'
<1> DEFINE t  == lineage[version]
           v  == version + 1
           ta == Apply(t, upd, v)
           t1 == WithLink(ta, v)
<1>1. /\ up
      /\ ckpt'.version = v
      /\ version' = v
      /\ lineage' = [w \in 0 .. v |-> IF w = v THEN t1 ELSE lineage[w]]
      /\ head' = IF Chained THEN HistoryLink(head, root, v) ELSE head
  BY DEF PutBatch, Commit, Ready, Checkpoint
<1>2. /\ version \in Nat /\ v \in Nat /\ v > 0 /\ v - 1 = version
      /\ version = ckpt.version /\ Committed = 0 .. version
      /\ version \in Committed /\ root = t.val
  BY <1>1 DEF IndInv, CoreInv, TypeOK, CheckpointCurrent, Committed
<1>3. /\ Committed' = Committed \cup {v}
      /\ lineage'[v] = t1
      /\ \A w \in Committed : w \in Nat /\ w # v /\ lineage'[w] = lineage[w]
  BY <1>1, <1>2 DEF Committed
<1>4. HistoryPath \notin DOMAIN upd
  BY PathsAssumption DEF Batches
<1>5. Chained => /\ HistoryPath \in DOMAIN t1.val
                 /\ t1.val[HistoryPath] = HistoryLink(head, root, v)
  <2> SUFFICES ASSUME Chained
               PROVE  /\ HistoryPath \in DOMAIN t1.val
                      /\ t1.val[HistoryPath] = HistoryLink(head, root, v)
    OBVIOUS
  <2>1. t1.val = Updated(ta.val, Link(v))
    BY DEF WithLink, Apply
  <2>2. DOMAIN Link(v) = {HistoryPath} /\ Link(v)[HistoryPath] = HistoryLink(head, root, v)
    BY DEF Link
  <2>3. Link(v)[HistoryPath] # Absent
    BY <2>2 DEF LinksPresent
  <2> QED
    BY <2>1, <2>2, <2>3 DEF Updated
<1>6. ~Chained => HistoryPath \notin DOMAIN t1.val
  <2> SUFFICES ASSUME ~Chained PROVE HistoryPath \notin DOMAIN t1.val
    OBVIOUS
  <2>1. t1.val = Updated(t.val, upd)
    BY DEF WithLink, Apply
  <2>2. HistoryPath \notin DOMAIN t.val
    BY <1>2 DEF ChainInv
  <2> QED
    BY <1>4, <2>1, <2>2 DEF Updated
<1>7. \A w \in Committed : HeadOf(w)' = HeadOf(w)
  BY <1>3 DEF HeadOf
<1>8. \A w : w = v => HeadOf(w)' = t1.val[HistoryPath]
  BY <1>2, <1>3 DEF HeadOf
<1>9. head = IF Chained THEN HeadOf(version) ELSE NoHead
  BY <1>1 DEF ChainInv
<1>10. ASSUME NEW w \in Committed'
       PROVE  /\ HistoryPath \in DOMAIN lineage'[w].val <=> Chained /\ w > 0
              /\ (Chained /\ w > 0) =>
                    HeadOf(w)' = HistoryLink(HeadOf(w - 1)', lineage'[w - 1].val, w)
  <2>1. CASE w = v
    <3>1. w - 1 = version /\ HeadOf(w - 1)' = HeadOf(version) /\ lineage'[w - 1] = t
      BY <1>2, <1>3, <1>7, <2>1
    <3> QED
      BY <1>2, <1>3, <1>5, <1>6, <1>8, <1>9, <2>1, <3>1
  <2>2. CASE w # v
    <3>1. w \in Committed /\ (w > 0 => w - 1 \in Committed)
      BY <1>2, <1>3, <2>2
    <3>2. lineage'[w] = lineage[w] /\ (w > 0 => lineage'[w - 1] = lineage[w - 1])
      BY <1>3, <3>1
    <3>3. HeadOf(w)' = HeadOf(w) /\ (w > 0 => HeadOf(w - 1)' = HeadOf(w - 1))
      BY <1>7, <3>1
    <3> QED
      BY <3>1, <3>2, <3>3 DEF ChainInv
  <2> QED
    BY <2>1, <2>2
<1>11. head' = IF Chained THEN HeadOf(version)' ELSE NoHead
  <2>1. HeadOf(version)' = t1.val[HistoryPath]
    BY <1>1, <1>2, <1>3 DEF HeadOf
  <2> QED
    BY <1>1, <1>5, <1>9, <2>1
<1> QED
  BY <1>10, <1>11 DEF ChainInv

\* Every step preserves the chain.
LEMMA NextChain ==
    ASSUME LinksPresent, IndInv, ReadInv, ChainInv, [Next]_vars
    PROVE  ChainInv'
<1>1. CASE Create
  BY <1>1, CreateChain
<1>2. CASE \E upd \in Batches : PutBatch(upd)
  BY <1>2, PutBatchChain
<1>3. CASE OpenLatest
  BY <1>3, OpenChain
<1>4. CASE Crash
  BY <1>4, QuietChain DEF Crash, backend, ghosts
<1>5. CASE UNCHANGED <<ckpt, lineage, up, version, head>>
  BY <1>5, QuietChain
<1>6. CASE \/ PruneFails \/ PruneStale \/ PruneRoots \/ UNCHANGED vars
           \/ \E v \in (0 .. version) \cup {None} : PinVersion(v)
           \/ \E before \in 0 .. MaxVersion : PruneStart(before)
           \/ \E window \in 0 .. MaxVersion : RetainRecent(window)
  BY <1>5, <1>6 DEF PruneFails, PruneStale, PruneRoots, PinVersion, PruneStart,
     RetainRecent, vars, ghosts, backend, memory
<1> QED
  BY <1>1, <1>2, <1>3, <1>4, <1>6 DEF Next

\* Every version but the first carries the link of its predecessor, and a
\* running store caches the newest one, also after it was reopened.
THEOREM ChainInvariance == LinksPresent => (Spec => []ChainInv)
<1> SUFFICES ASSUME LinksPresent PROVE Spec => []ChainInv
  OBVIOUS
<1>1. IndInv /\ ReadInv /\ ChainInv /\ [Next]_vars => ChainInv'
  BY NextChain
<1> QED
  BY <1>1, InitChain, InitRead, NextRead, InitInv, NextInv, PTL DEF Spec

\* A process that died, wherever it died, finds a store that OpenLatest
\* accepts at the last durable version: its root node loads, and the chain
\* flag agrees with the head leaf.
THEOREM ReopenSafe == LinksPresent => (Spec => []Reopenable)
<1> SUFFICES ASSUME LinksPresent PROVE Spec => []Reopenable
  OBVIOUS
<1>1. ASSUME IndInv, ReadInv, ChainInv PROVE Reopenable
  <2> SUFFICES ASSUME Created
               PROVE  /\ DOMAIN lineage = 0 .. ckpt.version
                      /\ ckpt.root = lineage[ckpt.version].val
                      /\ Opens(ckpt.root, ckpt.version)
    BY DEF Reopenable
  <2> DEFINE w == ckpt.version
  <2>1. /\ w \in Nat /\ ckpt.chained = Chained
        /\ w \in Committed /\ w \in Retained
        /\ DOMAIN lineage = 0 .. w /\ ckpt.root = lineage[w].val
    BY <1>1 DEF IndInv, CoreInv, TypeOK, CheckpointCurrent, Committed, Retained
  <2>2. /\ GetFrom(ckpt.root, w, HistoryPath) = Truth(w, HistoryPath)
        /\ LoadRootChild(ckpt.root, w).st = "found"
    BY <1>1, <2>1, ReadsAnswer DEF IndInv, AllPaths
  <2>3. HistoryPath \in DOMAIN lineage[w].val <=> Chained /\ w > 0
    BY <1>1, <2>1 DEF ChainInv
  <2>4. HistoryAgrees(Chained, w, Truth(w, HistoryPath))
    BY <2>1, <2>3 DEF HistoryAgrees, Truth, Found, NotFound
  <2> QED
    BY <2>1, <2>2, <2>4 DEF Opens
<1>2. IndInv /\ ReadInv /\ ChainInv /\ [Next]_vars => ChainInv'
  BY NextChain
<1> QED
  BY <1>1, <1>2, InitChain, InitRead, NextRead, InitInv, NextInv, PTL DEF Spec

\* Recomputing the chain over root records that the heads link gives the head
\* of the newest version.
LEMMA ChainFrom ==
    ASSUME version \in Nat, NEW w \in 0 .. version,
           \A v \in w + 1 .. version :
               HeadOf(v) = HistoryLink(HeadOf(v - 1), roots[v - 1], v)
    PROVE  Rechained(w, HeadOf(w)) = HeadOf(version)
<1> DEFINE Loop(g) == g = [v \in w .. version |->
                              IF v = w THEN HeadOf(w)
                              ELSE HistoryLink(g[v - 1], roots[v - 1], v)]
           chain == CHOOSE g : Loop(g)
           heads == [v \in w .. version |-> HeadOf(v)]
<1>1. w \in Nat /\ w =< version
  OBVIOUS
<1>2. \A v \in w .. version : v # w =>
          /\ v - 1 \in w .. version
          /\ HeadOf(v) = HistoryLink(HeadOf(v - 1), roots[v - 1], v)
  <2> SUFFICES ASSUME NEW v \in w .. version, v # w
               PROVE  /\ v - 1 \in w .. version
                      /\ HeadOf(v) = HistoryLink(HeadOf(v - 1), roots[v - 1], v)
    OBVIOUS
  <2>1. v \in w + 1 .. version /\ v - 1 \in w .. version
    BY <1>1
  <2> QED
    BY <2>1
<1>3. Loop(heads)
  <2>1. \A v \in w .. version :
           heads[v] = IF v = w THEN HeadOf(w) ELSE HistoryLink(heads[v - 1], roots[v - 1], v)
    BY <1>2
  <2>2. heads = [v \in w .. version |-> heads[v]]
    OBVIOUS
  <2> HIDE DEF heads
  <2> QED
    BY <2>1, <2>2
<1>4. Loop(chain)
  <2> HIDE DEF Loop, heads
  <2> QED
    BY <1>3
<1>5. Rechained(w, HeadOf(w)) = chain[version]
  BY DEF Rechained
<1> HIDE DEF chain, heads
<1> DEFINE S == {n \in Nat : w + n =< version => chain[w + n] = HeadOf(w + n)}
<1>6. 0 \in S
  <2>1. w \in w .. version /\ w + 0 = w
    BY <1>1
  <2>2. chain[w] = HeadOf(w)
    BY <1>4, <2>1
  <2> QED
    BY <2>1, <2>2
<1>7. ASSUME NEW n \in Nat, n \in S PROVE n + 1 \in S
  <2> SUFFICES ASSUME w + (n + 1) =< version
               PROVE  chain[w + (n + 1)] = HeadOf(w + (n + 1))
    OBVIOUS
  <2> DEFINE v == w + (n + 1)
  <2>1. v \in w .. version /\ v # w /\ v - 1 = w + n /\ w + n =< version
    BY <1>1
  <2>2. chain[w + n] = HeadOf(w + n)
    BY <1>7, <2>1
  <2> HIDE DEF v
  <2>3. chain[v] = HistoryLink(chain[v - 1], roots[v - 1], v)
    BY <1>4, <2>1
  <2>4. chain[v] = HeadOf(v)
    BY <1>2, <2>1, <2>2, <2>3
  <2> QED
    BY <2>4 DEF v
<1>8. Nat \subseteq S
  <2> HIDE DEF S
  <2> QED
    BY <1>6, <1>7, SetInduction
<1>9. version - w \in Nat /\ w + (version - w) = version
  BY <1>1
<1>10. version - w \in S
  BY <1>8, <1>9
<1>11. chain[version] = HeadOf(version)
  BY <1>1, <1>9, <1>10
<1> QED
  BY <1>5, <1>11

\* The chain from a retained version on.
LEMMA ChainRecomputes ==
    ASSUME IndInv, ReadInv, ChainInv, up, Chained, NEW w \in Retained
    PROVE  Rechained(w, HeadOf(w)) = HeadOf(version)
<1>1. /\ version \in Nat /\ w \in Nat /\ w =< version /\ horizon \in Nat /\ w >= horizon
      /\ Committed = 0 .. version
  BY DEF IndInv, CoreInv, TypeOK, CheckpointCurrent, Retained, Committed
<1>2. ASSUME NEW v \in w + 1 .. version
      PROVE  HeadOf(v) = HistoryLink(HeadOf(v - 1), roots[v - 1], v)
  <2>1. v \in Committed /\ v > 0 /\ v - 1 \in Retained
    BY <1>1 DEF Retained
  <2>2. roots[v - 1] = lineage[v - 1].val
    BY <2>1 DEF IndInv, RootsKept, HasRoot
  <2> QED
    BY <2>1, <2>2 DEF ChainInv
<1> QED
  BY <1>1, <1>2, ChainFrom

\* VerifyHistory accepts from every retained version, whatever crashes,
\* reopenings and prunes came between: the cached head, the head leaves and
\* the root records are one chain.
THEOREM ChainSafe == LinksPresent => (Spec => []ChainVerifies)
<1> SUFFICES ASSUME LinksPresent PROVE Spec => []ChainVerifies
  OBVIOUS
<1>1. ASSUME IndInv, ReadInv, ChainInv PROVE ChainVerifies
  <2> SUFFICES ASSUME up, Chained, NEW w \in Retained
               PROVE  Rechained(w, HistoryHeadAt(w).out) = head
    BY DEF ChainVerifies
  <2>1. /\ head = HeadOf(version)
        /\ Rechained(w, HeadOf(w)) = HeadOf(version)
    BY <1>1, ChainRecomputes DEF ChainInv
  <2>2. w \in Committed /\ w \in Nat /\ w \in DOMAIN roots /\ roots[w] = lineage[w].val
    BY <1>1 DEF Retained, Committed, IndInv, CoreInv, RootsKept, HasRoot, TypeOK, CheckpointCurrent
  <2>3. HistoryHeadAt(w).out = HeadOf(w)
    <3>1. CASE w = 0
      BY <3>1 DEF HistoryHeadAt, HeadOf, Found
    <3>2. CASE w # 0
      <4>1. GetAt(w, HistoryPath) = Truth(w, HistoryPath)
        BY <1>1, <2>2, ReadsAnswer DEF IndInv, GetAt, AllPaths
      <4>2. HistoryPath \in DOMAIN lineage[w].val
        BY <1>1, <2>2, <3>2 DEF ChainInv
      <4> QED
        BY <3>2, <4>1, <4>2 DEF HistoryHeadAt, HeadOf, Truth, Found
    <3> QED
      BY <3>1, <3>2
  <2> QED
    BY <2>1, <2>3
<1>2. IndInv /\ ReadInv /\ ChainInv /\ [Next]_vars => ChainInv'
  BY NextChain
<1> QED
  BY <1>1, <1>2, InitChain, InitRead, NextRead, InitInv, NextInv, PTL DEF Spec
=============================================================================

------------------------- MODULE LedgerExportProofs -------------------------
(***************************************************************************)
(* Proofs about what a store hands out of its tree: the snapshots of        *)
(* LedgerSnapshot, the change reports of TreeDiff, and the root hashes and  *)
(* proofs of MerkleTree.                                                    *)
(*                                                                         *)
(* Snapshots: whatever commits, prunes, pins and crashes happen between two *)
(* chunks, a stream has a prefix of the leaves of its version, all of them  *)
(* when it is told so, and the pin serves it to its end.  The calls that     *)
(* reach a leaf or a missing record partition the leaves that follow the    *)
(* resume path (Ends), a chunk is closed under going back among them        *)
(* (CollectsNext), and the leaves of a stream are the first ones of the     *)
(* content (StreamInv).                                                     *)
(*                                                                         *)
(* Change reports: the two trees are walked in lockstep into exactly the    *)
(* positions where they differ (Walked), so a changed key is met on each    *)
(* side that holds it (ChangedMet) and a leaf that only moved is met on     *)
(* both sides or on neither (MovedMet).                                     *)
(*                                                                         *)
(* Root hashes and proofs: a fold that arrives at the root hash retraces    *)
(* the ranges around the path (FoldDown), so it has started from the hash   *)
(* of what is there (VerifySound); the fold of the hashes beside them       *)
(* arrives (FoldUp, VerifyComplete); so a root hash has one content.        *)
(***************************************************************************)
EXTENDS LedgerSnapshot, TreeDiff, MerkleTree, LedgerReadProofs, FiniteSetTheorems

-----------------------------------------------------------------------------
(* Path order.                                                              *)

\* Whether one position follows another is transitive and never mutual.
LEMMA GreaterOrder ==
    ASSUME NEW x \in Prefix, NEW y \in Prefix, NEW z \in Prefix, PathGreater(x, y)
    PROVE  /\ x # y
           /\ ~PathGreater(y, x)
           /\ PathGreater(y, z) => PathGreater(x, z)
<1>1. /\ x \in Seq(Nibbles) /\ y \in Seq(Nibbles) /\ z \in Seq(Nibbles)
      /\ Nibbles \subseteq Int
  BY PrefixSeq, ArityAssumption DEF Nibbles
<1>2. /\ DOMAIN x = 1 .. Len(x) /\ DOMAIN y = 1 .. Len(y) /\ DOMAIN z = 1 .. Len(z)
      /\ Len(x) \in Nat /\ Len(y) \in Nat /\ Len(z) \in Nat
      /\ \A i \in DOMAIN x : x[i] \in Int
      /\ \A i \in DOMAIN y : y[i] \in Int
      /\ \A i \in DOMAIN z : z[i] \in Int
  <2>1. ASSUME NEW u \in Seq(Nibbles), NEW i \in 1 .. Len(u) PROVE u[i] \in Int
    BY <1>1, <2>1, ElementOfSeq
  <2> QED
    BY <1>1, <2>1
<1>3. PICK i \in DOMAIN x \cap DOMAIN y : x[i] > y[i] /\ \A j \in 1 .. i - 1 : x[j] = y[j]
  BY DEF PathGreater
<1>4. x # y
  BY <1>2, <1>3
<1>5. ASSUME PathGreater(y, x) PROVE FALSE
  <2>1. PICK k \in DOMAIN y \cap DOMAIN x : y[k] > x[k] /\ \A j \in 1 .. k - 1 : y[j] = x[j]
    BY <1>5 DEF PathGreater
  <2>2. CASE i < k
    BY <1>2, <1>3, <2>1, <2>2
  <2>3. CASE k < i
    BY <1>2, <1>3, <2>1, <2>3
  <2>4. CASE k = i
    BY <1>2, <1>3, <2>1, <2>4
  <2> QED
    BY <1>2, <2>2, <2>3, <2>4
<1>6. ASSUME PathGreater(y, z) PROVE PathGreater(x, z)
  <2>1. PICK k \in DOMAIN y \cap DOMAIN z : y[k] > z[k] /\ \A j \in 1 .. k - 1 : y[j] = z[j]
    BY <1>6 DEF PathGreater
  <2>2. CASE i =< k
    <3>1. i \in DOMAIN x /\ i \in DOMAIN y /\ i \in DOMAIN z
      BY <1>2, <1>3, <2>1, <2>2
    <3>2. y[i] >= z[i]
      <4>1. CASE i = k
        BY <1>2, <2>1, <4>1
      <4>2. CASE i # k
        BY <1>2, <1>3, <2>1, <2>2, <4>2
      <4> QED
        BY <4>1, <4>2
    <3>3. x[i] > z[i]
      BY <1>2, <1>3, <3>1, <3>2
    <3>4. \A j \in 1 .. i - 1 : x[j] = z[j]
      BY <1>2, <1>3, <2>1, <2>2
    <3> QED
      BY <3>1, <3>3, <3>4 DEF PathGreater
  <2>3. CASE k < i
    <3>1. k \in DOMAIN x /\ k \in DOMAIN z /\ k \in 1 .. i - 1
      BY <1>2, <1>3, <2>1, <2>3
    <3>2. x[k] > z[k]
      BY <1>3, <2>1, <3>1
    <3>3. \A j \in 1 .. k - 1 : x[j] = z[j]
      BY <1>2, <1>3, <2>1, <2>3
    <3> QED
      BY <3>1, <3>2, <3>3 DEF PathGreater
  <2> QED
    BY <1>2, <2>2, <2>3
<1> QED
  BY <1>4, <1>5, <1>6

\* A path is a position.
LEMMA PathIsPrefix == Path \subseteq Prefix
BY DepthAssumption DEF Path, Prefix

\* Of two paths, one follows the other: they differ at a first nibble.
LEMMA GreaterTotal ==
    ASSUME NEW x \in Path, NEW y \in Path
    PROVE  x = y \/ PathGreater(x, y) \/ PathGreater(y, x)
<1> SUFFICES ASSUME ~PathGreater(x, y), ~PathGreater(y, x) PROVE x = y
  OBVIOUS
<1>1. /\ DOMAIN x = 1 .. Depth /\ DOMAIN y = 1 .. Depth
      /\ \A i \in 1 .. Depth : x[i] \in Int /\ y[i] \in Int
  BY ArityAssumption DEF Path, Nibbles
<1> DEFINE S == {i \in Nat : \A j \in 1 .. Depth : j =< i => x[j] = y[j]}
<1>2. 0 \in S
  BY DepthAssumption
<1>3. ASSUME NEW n \in Nat, n \in S PROVE n + 1 \in S
  <2>1. \A j \in 1 .. Depth : j =< n => x[j] = y[j]
    BY <1>3
  <2>2. n + 1 \in 1 .. Depth => x[n + 1] = y[n + 1]
    <3> SUFFICES ASSUME n + 1 \in 1 .. Depth, x[n + 1] # y[n + 1] PROVE FALSE
      OBVIOUS
    <3>1. \A j \in 1 .. (n + 1) - 1 : x[j] = y[j]
      BY <2>1, DepthAssumption
    <3>2. x[n + 1] > y[n + 1] \/ y[n + 1] > x[n + 1]
      BY <1>1
    <3> QED
      BY <1>1, <3>1, <3>2 DEF PathGreater
  <2>3. ASSUME NEW j \in 1 .. Depth, j =< n + 1 PROVE x[j] = y[j]
    <3>1. j =< n \/ j = n + 1
      BY <2>3, DepthAssumption
    <3> QED
      BY <2>1, <2>2, <3>1
  <2> QED
    BY <2>3
<1>4. Depth \in S
  <2> HIDE DEF S
  <2> QED
    BY <1>2, <1>3, SetInduction, DepthAssumption
<1>5. \A j \in 1 .. Depth : x[j] = y[j]
  BY <1>4, DepthAssumption
<1>6. x = [j \in 1 .. Depth |-> x[j]] /\ y = [j \in 1 .. Depth |-> y[j]]
  BY DEF Path
<1> QED
  BY <1>5, <1>6

\* The position p is q or lies above it.
Above(p, q) == Len(p) =< Len(q) /\ Under(q, p)

\* Two positions, neither above the other, are in the order of what lies below
\* them.
LEMMA GreaterBelow ==
    ASSUME NEW p \in Prefix, NEW q \in Prefix, ~Above(p, q), ~Above(q, p),
           NEW x \in Path, Under(x, p), NEW y \in Path, Under(y, q)
    PROVE  PathGreater(p, q) <=> PathGreater(x, y)
<1>1. /\ DOMAIN p = 1 .. Len(p) /\ Len(p) \in 0 .. Depth
      /\ DOMAIN q = 1 .. Len(q) /\ Len(q) \in 0 .. Depth
      /\ DOMAIN x = 1 .. Depth /\ DOMAIN y = 1 .. Depth
  BY PrefixSeq DEF Path
<1>2. /\ \A i \in 1 .. Len(p) : x[i] = p[i]
      /\ \A i \in 1 .. Len(q) : y[i] = q[i]
  BY DEF Under
<1>3. ASSUME PathGreater(p, q) PROVE PathGreater(x, y)
  <2>1. PICK i \in DOMAIN p \cap DOMAIN q : p[i] > q[i] /\ \A j \in 1 .. i - 1 : p[j] = q[j]
    BY <1>3 DEF PathGreater
  <2>2. /\ i \in DOMAIN x \cap DOMAIN y /\ x[i] > y[i]
        /\ \A j \in 1 .. i - 1 : x[j] = y[j]
    BY <1>1, <1>2, <2>1, DepthAssumption
  <2> QED
    BY <2>2 DEF PathGreater
<1>4. ASSUME PathGreater(x, y) PROVE PathGreater(p, q)
  <2>1. PICK i \in DOMAIN x \cap DOMAIN y : x[i] > y[i] /\ \A j \in 1 .. i - 1 : x[j] = y[j]
    BY <1>4 DEF PathGreater
  <2>2. CASE i =< Len(p) /\ i =< Len(q)
    <3>1. /\ i \in DOMAIN p \cap DOMAIN q /\ p[i] > q[i]
          /\ \A j \in 1 .. i - 1 : p[j] = q[j]
      BY <1>1, <1>2, <2>1, <2>2, DepthAssumption
    <3> QED
      BY <3>1 DEF PathGreater
  <2>3. CASE ~(i =< Len(p)) /\ Len(p) =< Len(q)
    <3>1. \A j \in 1 .. Len(p) : q[j] = p[j]
      BY <1>1, <1>2, <2>1, <2>3, DepthAssumption
    <3> QED
      BY <2>3, <3>1 DEF Under, Above
  <2>4. CASE ~(i =< Len(q)) /\ Len(q) =< Len(p)
    <3>1. \A j \in 1 .. Len(q) : p[j] = q[j]
      BY <1>1, <1>2, <2>1, <2>4, DepthAssumption
    <3> QED
      BY <2>4, <3>1 DEF Under, Above
  <2> QED
    BY <1>1, <2>1, <2>2, <2>3, <2>4, DepthAssumption
<1> QED
  BY <1>3, <1>4

\* There are finitely many positions.
LEMMA PrefixFinite == IsFiniteSet(Prefix) /\ IsFiniteSet(Path)
<1> DEFINE F(n) == [1 .. n -> Nibbles]
           S == {n \in Nat : IsFiniteSet(F(n))}
<1>1. IsFiniteSet(Nibbles)
  BY FS_Interval, ArityAssumption DEF Nibbles
<1>2. 0 \in S
  <2>1. \A g \in F(0) : g = << >>
    <3> SUFFICES ASSUME NEW g \in F(0) PROVE g = << >>
      OBVIOUS
    <3>1. g \in Seq(Nibbles) /\ Len(g) = 0
      OBVIOUS
    <3> QED
      BY <3>1
  <2>2. << >> \in F(0)
    OBVIOUS
  <2>3. F(0) = {<< >>}
    <3> HIDE DEF F
    <3> QED
      BY <2>1, <2>2
  <2> QED
    BY <2>3, FS_Singleton
<1>3. ASSUME NEW n \in Nat, n \in S PROVE n + 1 \in S
  <2> DEFINE ext(u) == [i \in 1 .. n + 1 |-> IF i = n + 1 THEN u[2] ELSE u[1][i]]
             f == [u \in F(n) \X Nibbles |-> ext(u)]
  <2>1. IsFiniteSet(F(n) \X Nibbles)
    BY <1>1, <1>3, FS_Product
  <2>2. f \in [F(n) \X Nibbles -> F(n + 1)]
    <3>1. ASSUME NEW a \in F(n), NEW b \in Nibbles PROVE ext(<<a, b>>) \in F(n + 1)
      OBVIOUS
    <3> HIDE DEF F, ext
    <3> QED
      BY <3>1
  <2>3. ASSUME NEW g \in F(n + 1) PROVE \E u \in F(n) \X Nibbles : f[u] = g
    <3> DEFINE a == [i \in 1 .. n |-> g[i]]
               u == <<a, g[n + 1]>>
    <3>1. a \in F(n) /\ g[n + 1] \in Nibbles
      OBVIOUS
    <3>2. \A i \in 1 .. n + 1 : ext(u)[i] = g[i]
      OBVIOUS
    <3>3. g = [i \in 1 .. n + 1 |-> g[i]]
      OBVIOUS
    <3>4. ext(u) = g
      BY <3>2, <3>3
    <3>5. u \in F(n) \X Nibbles
      BY <3>1
    <3> HIDE DEF u, ext, F
    <3> QED
      BY <3>4, <3>5
  <2> HIDE DEF f, F
  <2>4. f \in Surjection(F(n) \X Nibbles, F(n + 1))
    BY <2>2, <2>3 DEF Surjection
  <2> QED
    BY <2>1, <2>4, FS_Surjection
<1>4. \A n \in Nat : IsFiniteSet(F(n))
  <2>1. Nat \subseteq S
    <3> HIDE DEF S
    <3> QED
      BY <1>2, <1>3, SetInduction
  <2> QED
    BY <2>1
<1> DEFINE U == {F(n) : n \in 0 .. Depth}
<1>5. IsFiniteSet(U)
  <2> DEFINE f == [n \in 0 .. Depth |-> F(n)]
  <2>1. f \in Surjection(0 .. Depth, U)
    BY DEF Surjection
  <2>2. IsFiniteSet(0 .. Depth)
    BY FS_Interval, DepthAssumption
  <2> HIDE DEF f, U
  <2> QED
    BY <2>1, <2>2, FS_Surjection
<1>6. \A T \in U : IsFiniteSet(T)
  <2> HIDE DEF F
  <2> QED
    BY <1>4, DepthAssumption
<1>7. IsFiniteSet(UNION U)
  <2> HIDE DEF U
  <2> QED
    BY <1>5, <1>6, FS_UNION
<1>8. Prefix = UNION U
  BY DEF Prefix
<1> QED
  BY <1>4, <1>7, <1>8, DepthAssumption DEF Path

-----------------------------------------------------------------------------
(* Listing leaves in path order.                                            *)

Rank(S, y) == Cardinality({z \in S : PathGreater(y, z)})

\* Any set of paths is finite, and a path of it has fewer paths before it than
\* there are.
LEMMA RankBound ==
    ASSUME NEW S \in SUBSET Path
    PROVE  /\ IsFiniteSet(S) /\ Cardinality(S) \in Nat
           /\ \A y \in S : Rank(S, y) \in Nat /\ Rank(S, y) < Cardinality(S)
<1>1. IsFiniteSet(S) /\ Cardinality(S) \in Nat
  BY PrefixFinite, FS_Subset, FS_CardinalityType
<1> SUFFICES ASSUME NEW y \in S
             PROVE  Rank(S, y) \in Nat /\ Rank(S, y) < Cardinality(S)
  BY <1>1
<1> DEFINE D == {z \in S : PathGreater(y, z)}
<1>2. ~PathGreater(y, y)
  BY GreaterOrder, PathIsPrefix
<1>3. D \in SUBSET S /\ D # S
  BY <1>2
<1> HIDE DEF D
<1>4. IsFiniteSet(D) /\ Cardinality(D) =< Cardinality(S) /\ Cardinality(D) # Cardinality(S)
  BY <1>1, <1>3, FS_Subset
<1>5. Cardinality(D) \in Nat
  BY <1>4, FS_CardinalityType
<1> QED
  BY <1>1, <1>4, <1>5 DEF Rank, D

\* A later path has a higher rank.
LEMMA RankGreater ==
    ASSUME NEW S \in SUBSET Path, NEW x \in S, NEW y \in S, PathGreater(y, x)
    PROVE  Rank(S, x) < Rank(S, y)
<1> DEFINE C == {z \in S : PathGreater(x, z)}
           D == {z \in S : PathGreater(y, z)}
<1>1. C \in SUBSET D /\ x \in D /\ x \notin C /\ D \in SUBSET S
  BY GreaterOrder, PathIsPrefix
<1> HIDE DEF C, D
<1>2. IsFiniteSet(D)
  BY <1>1, RankBound, FS_Subset
<1>3. IsFiniteSet(C) /\ Cardinality(C) =< Cardinality(D) /\ Cardinality(C) # Cardinality(D)
  BY <1>1, <1>2, FS_Subset
<1>4. Cardinality(C) \in Nat /\ Cardinality(D) \in Nat
  BY <1>2, <1>3, FS_CardinalityType
<1> QED
  BY <1>3, <1>4 DEF Rank, C, D

\* Different paths have different ranks.
LEMMA RankUnique ==
    ASSUME NEW S \in SUBSET Path, NEW x \in S, NEW y \in S, Rank(S, x) = Rank(S, y)
    PROVE  x = y
<1>1. Rank(S, x) \in Nat /\ Rank(S, y) \in Nat
  BY RankBound
<1> QED
  BY <1>1, RankGreater, GreaterTotal

\* Every number below the size of a set of paths is the rank of one of them.
LEMMA RankOnto ==
    ASSUME NEW S \in SUBSET Path, NEW n \in 1 .. Cardinality(S)
    PROVE  \E y \in S : Rank(S, y) = n - 1
<1> DEFINE m == Cardinality(S)
           f == [y \in S |-> Rank(S, y) + 1]
<1>1. m \in Nat
  BY RankBound
<1>2. f \in [S -> 1 .. m]
  BY <1>1, RankBound
<1>3. ASSUME NEW x \in S, NEW y \in S, f[x] = f[y] PROVE x = y
  <2>1. Rank(S, x) \in Nat /\ Rank(S, y) \in Nat /\ Rank(S, x) = Rank(S, y)
    BY <1>3, RankBound
  <2> QED
    BY <2>1, RankUnique
<1>4. IsFiniteSet(1 .. m) /\ Cardinality(1 .. m) = m
  BY <1>1, FS_Interval
<1> HIDE DEF f
<1>5. f \in Injection(S, 1 .. m)
  BY <1>2, <1>3 DEF Injection, IsInjective
<1>6. f \in Surjection(S, 1 .. m)
  BY <1>4, <1>5, FS_Injection
<1>7. PICK y \in S : f[y] = n
  BY <1>6 DEF Surjection
<1>8. Rank(S, y) \in Nat
  BY RankBound
<1> QED
  BY <1>7, <1>8 DEF f

\* The path at a place of a listing.
Nth(S, n) == CHOOSE y \in S : Rank(S, y) = n - 1

Leaf(c, x) == [path |-> x, val |-> c[x]]

\* It is there, and its rank determines it.
LEMMA NthIs ==
    ASSUME NEW S \in SUBSET Path, NEW n \in 1 .. Cardinality(S)
    PROVE  /\ Nth(S, n) \in S
           /\ Rank(S, Nth(S, n)) = n - 1
           /\ \A y \in S : Rank(S, y) = n - 1 => y = Nth(S, n)
<1>1. \E y \in S : Rank(S, y) = n - 1
  BY RankOnto
<1>2. Nth(S, n) \in S /\ Rank(S, Nth(S, n)) = n - 1
  BY <1>1 DEF Nth
<1> QED
  BY <1>2, RankUnique

\* G holds every path of S that one of its paths follows.
Closed(G, S) == \A y \in G, z \in S : PathGreater(y, z) => z \in G

\* A part that is closed is listed first.
LEMMA NthClosed ==
    ASSUME NEW S \in SUBSET Path, NEW G \in SUBSET S, Closed(G, S)
    PROVE  /\ Cardinality(G) =< Cardinality(S)
           /\ \A n \in 1 .. Cardinality(G) : Nth(G, n) = Nth(S, n)
<1>1. /\ Cardinality(G) =< Cardinality(S)
      /\ Cardinality(G) \in Nat /\ Cardinality(S) \in Nat
  BY RankBound, FS_Subset
<1>2. ASSUME NEW n \in 1 .. Cardinality(G) PROVE Nth(G, n) = Nth(S, n)
  <2>1. PICK y \in G : y = Nth(G, n) /\ Rank(G, y) = n - 1
    BY NthIs
  <2>2. {z \in G : PathGreater(y, z)} = {z \in S : PathGreater(y, z)}
    BY DEF Closed
  <2>3. Rank(S, y) = n - 1 /\ n \in 1 .. Cardinality(S)
    BY <1>1, <2>1, <2>2 DEF Rank
  <2> QED
    BY <2>1, <2>3, NthIs
<1> QED
  BY <1>1, <1>2

\* Every path of X follows every path of G.
Follows(X, G) == \A x \in X, y \in G : PathGreater(x, y)

\* What follows is listed behind it.
LEMMA NthFollows ==
    ASSUME NEW G \in SUBSET Path, NEW X \in SUBSET Path, Follows(X, G)
    PROVE  /\ Cardinality(G \cup X) = Cardinality(G) + Cardinality(X)
           /\ \A n \in 1 .. Cardinality(X) : Nth(X, n) = Nth(G \cup X, Cardinality(G) + n)
<1>1. /\ Cardinality(G) \in Nat /\ Cardinality(X) \in Nat
      /\ IsFiniteSet(G) /\ IsFiniteSet(X)
  BY RankBound
<1>2. G \cap X = {}
  BY GreaterOrder, PathIsPrefix DEF Follows
<1>3. Cardinality(G \cup X) = Cardinality(G) + Cardinality(X)
  BY <1>1, <1>2, FS_Union, FS_EmptySet
<1>4. ASSUME NEW n \in 1 .. Cardinality(X)
      PROVE  Nth(X, n) = Nth(G \cup X, Cardinality(G) + n)
  <2>1. PICK x \in X : x = Nth(X, n) /\ Rank(X, x) = n - 1
    BY NthIs
  <2> DEFINE D == {z \in X : PathGreater(x, z)}
  <2>2. {z \in G \cup X : PathGreater(x, z)} = G \cup D /\ D \in SUBSET X /\ G \cap D = {}
    BY <1>2 DEF Follows
  <2>3. Cardinality(D) = n - 1
    BY <2>1 DEF Rank
  <2> HIDE DEF D
  <2>4. IsFiniteSet(D)
    BY <1>1, <2>2, FS_Subset
  <2>5. Cardinality(G \cup D) = Cardinality(G) + (n - 1)
    <3>1. Cardinality(G \cup D) = Cardinality(G) + Cardinality(D) - Cardinality(G \cap D)
      BY <1>1, <2>4, FS_Union
    <3>2. Cardinality(G \cap D) = 0 /\ Cardinality(D) \in Nat
      BY <2>2, <2>4, FS_EmptySet, FS_CardinalityType
    <3> QED
      BY <1>1, <2>3, <3>1, <3>2
  <2>6. Rank(G \cup X, x) = (Cardinality(G) + n) - 1
    <3>1. Rank(G \cup X, x) = Cardinality(G \cup D)
      BY <2>2 DEF Rank
    <3> QED
      BY <1>1, <2>5, <3>1
  <2>7. G \cup X \in SUBSET Path /\ Cardinality(G) + n \in 1 .. Cardinality(G \cup X)
    BY <1>1, <1>3
  <2> QED
    BY <2>1, <2>6, <2>7, NthIs
<1> QED
  BY <1>3, <1>4

\* The last path listed follows all the others.
LEMMA NthLast ==
    ASSUME NEW G \in SUBSET Path, G # {}
    PROVE  /\ Cardinality(G) \in 1 .. Cardinality(G)
           /\ Nth(G, Cardinality(G)) \in G
           /\ \A z \in G : z = Nth(G, Cardinality(G)) \/ PathGreater(Nth(G, Cardinality(G)), z)
<1>1. Cardinality(G) \in Nat /\ IsFiniteSet(G) /\ Cardinality(G) \in 1 .. Cardinality(G)
  BY RankBound, FS_EmptySet
<1>2. PICK y \in G : y = Nth(G, Cardinality(G)) /\ Rank(G, y) = Cardinality(G) - 1
  BY <1>1, NthIs
<1> DEFINE D == {z \in G : PathGreater(y, z)}
<1>3. D \in SUBSET (G \ {y})
  BY GreaterOrder, PathIsPrefix
<1>4. Cardinality(D) = Cardinality(G) - 1
  BY <1>2 DEF Rank
<1> HIDE DEF D
<1>5. IsFiniteSet(G \ {y}) /\ Cardinality(G \ {y}) = Cardinality(G) - 1
  BY <1>1, FS_RemoveElement
<1>6. D = G \ {y}
  BY <1>3, <1>4, <1>5, FS_Subset
<1> QED
  BY <1>1, <1>2, <1>6 DEF D

\* InPathOrder lists the leaves of a content in the order of their paths.
LEMMA Listed ==
    ASSUME NEW c, DOMAIN c \subseteq Path
    PROVE  /\ InPathOrder(c) \in Seq({Leaf(c, x) : x \in DOMAIN c})
           /\ Len(InPathOrder(c)) = Cardinality(DOMAIN c)
           /\ Cardinality(DOMAIN c) \in Nat
           /\ \A n \in 1 .. Cardinality(DOMAIN c) :
                 InPathOrder(c)[n] = Leaf(c, Nth(DOMAIN c, n))
<1> DEFINE S == DOMAIN c
           m == Cardinality(S)
           L == {Leaf(c, x) : x \in S}
<1>1. S \in SUBSET Path /\ m \in Nat
  BY RankBound
<1>2. InPathOrder(c) = [n \in 1 .. m |-> Leaf(c, Nth(S, n))]
  BY DEF InPathOrder, Nth, Rank, Leaf
<1> HIDE DEF S
<1>3. \A n \in 1 .. m : Nth(S, n) \in S
  BY <1>1, NthIs
<1> HIDE DEF m
<1>4. \A n \in 1 .. m : Leaf(c, Nth(S, n)) \in L
  BY <1>3
<1>5. InPathOrder(c) \in [1 .. m -> L]
  BY <1>2, <1>4
<1>6. InPathOrder(c) \in Seq(L) /\ Len(InPathOrder(c)) = m
  <2> HIDE DEF L
  <2> QED
    BY <1>1, <1>5
<1> QED
  BY <1>1, <1>2, <1>6 DEF S, m

\* The leaves on a closed part of the paths are a prefix of the leaves.
LEMMA PrefixListed ==
    ASSUME NEW c, DOMAIN c \subseteq Path, NEW G \in SUBSET DOMAIN c,
           Closed(G, DOMAIN c)
    PROVE  IsPrefix(InPathOrder(Restrict(c, G)), InPathOrder(c))
<1> DEFINE s == InPathOrder(Restrict(c, G))
           all == InPathOrder(c)
           k == Cardinality(G)
           S == DOMAIN c
           L == {Leaf(c, x) : x \in S}
<1>1. DOMAIN Restrict(c, G) = G /\ \A x \in G : Leaf(Restrict(c, G), x) = Leaf(c, x)
  BY DEF Restrict, Leaf
<1>2. k =< Cardinality(S) /\ \A n \in 1 .. k : Nth(G, n) = Nth(S, n)
  BY NthClosed
<1>3. /\ s \in Seq({Leaf(Restrict(c, G), x) : x \in G}) /\ Len(s) = k /\ k \in Nat
      /\ \A n \in 1 .. k : s[n] = Leaf(Restrict(c, G), Nth(G, n))
  BY <1>1, Listed
<1>4. /\ all \in Seq(L) /\ Len(all) = Cardinality(S) /\ Cardinality(S) \in Nat
      /\ \A n \in 1 .. Cardinality(S) : all[n] = Leaf(c, Nth(S, n))
  BY Listed
<1>5. \A n \in 1 .. k : Nth(G, n) \in G
  BY NthIs
<1> HIDE DEF s, all, k, S, L
<1>6. \A n \in 1 .. k : s[n] = all[n]
  BY <1>1, <1>2, <1>3, <1>4, <1>5
<1>7. SubSeq(s, 1, k) = [n \in 1 .. k |-> s[n]] /\ SubSeq(all, 1, k) = [n \in 1 .. k |-> all[n]]
  BY <1>2, <1>3, <1>4
<1>8. SubSeq(s, 1, Len(s)) = SubSeq(all, 1, Len(s)) /\ Len(s) =< Len(all)
  BY <1>2, <1>3, <1>4, <1>6, <1>7
<1> QED
  BY <1>8 DEF IsPrefix, s, all

\* The leaves that follow, appended, are the leaves on both parts.
LEMMA ConcatListed ==
    ASSUME NEW c, DOMAIN c \subseteq Path, NEW G \in SUBSET DOMAIN c,
           NEW X \in SUBSET DOMAIN c, Follows(X, G)
    PROVE  InPathOrder(Restrict(c, G)) \o InPathOrder(Restrict(c, X))
             = InPathOrder(Restrict(c, G \cup X))
<1> DEFINE s == InPathOrder(Restrict(c, G))
           u == InPathOrder(Restrict(c, X))
           both == InPathOrder(Restrict(c, G \cup X))
           k == Cardinality(G)
           m == Cardinality(X)
           H == G \cup X
           L == {Leaf(c, x) : x \in DOMAIN c}
<1>1. ASSUME NEW T \in SUBSET DOMAIN c
      PROVE  /\ InPathOrder(Restrict(c, T)) \in Seq(L)
             /\ Len(InPathOrder(Restrict(c, T))) = Cardinality(T)
             /\ Cardinality(T) \in Nat
             /\ \A n \in 1 .. Cardinality(T) :
                   InPathOrder(Restrict(c, T))[n] = Leaf(c, Nth(T, n))
  <2>1. DOMAIN Restrict(c, T) = T /\ \A x \in T : Leaf(Restrict(c, T), x) = Leaf(c, x)
    BY DEF Restrict, Leaf
  <2>2. {Leaf(Restrict(c, T), x) : x \in T} \subseteq L
    BY <2>1
  <2>3. /\ InPathOrder(Restrict(c, T)) \in Seq({Leaf(Restrict(c, T), x) : x \in T})
        /\ Len(InPathOrder(Restrict(c, T))) = Cardinality(T)
        /\ Cardinality(T) \in Nat
        /\ \A n \in 1 .. Cardinality(T) :
              InPathOrder(Restrict(c, T))[n] = Leaf(Restrict(c, T), Nth(T, n))
    BY <2>1, Listed
  <2>4. \A n \in 1 .. Cardinality(T) : Nth(T, n) \in T
    BY NthIs
  <2> HIDE DEF L
  <2> QED
    BY <2>1, <2>2, <2>3, <2>4
<1>2. Closed(G, H)
  BY GreaterOrder, PathIsPrefix DEF Closed, Follows
<1>3. /\ Cardinality(H) = k + m
      /\ \A n \in 1 .. k : Nth(G, n) = Nth(H, n)
      /\ \A n \in 1 .. m : Nth(X, n) = Nth(H, k + n)
  BY <1>2, NthClosed, NthFollows
<1>4. /\ s \in Seq(L) /\ Len(s) = k /\ k \in Nat
      /\ \A n \in 1 .. k : s[n] = Leaf(c, Nth(G, n))
  BY <1>1
<1>5. /\ u \in Seq(L) /\ Len(u) = m /\ m \in Nat
      /\ \A n \in 1 .. m : u[n] = Leaf(c, Nth(X, n))
  BY <1>1
<1>6. /\ both \in Seq(L) /\ Len(both) = Cardinality(H)
      /\ \A n \in 1 .. Cardinality(H) : both[n] = Leaf(c, Nth(H, n))
  <2>1. H \in SUBSET DOMAIN c
    OBVIOUS
  <2> QED
    BY <1>1, <2>1
<1> HIDE DEF s, u, both, k, m, H, L
<1>7. s \o u \in Seq(L) /\ Len(s \o u) = k + m
  BY <1>4, <1>5
<1>8. ASSUME NEW n \in 1 .. k + m PROVE (s \o u)[n] = both[n]
  <2>1. CASE n =< k
    <3>1. (s \o u)[n] = s[n] /\ n \in 1 .. k
      BY <1>4, <1>5, <2>1
    <3> QED
      BY <1>3, <1>4, <1>6, <3>1
  <2>2. CASE ~(n =< k)
    <3> DEFINE j == n - k
    <3>1. (s \o u)[n] = u[j] /\ j \in 1 .. m /\ k + j = n
      BY <1>4, <1>5, <2>2
    <3> HIDE DEF j
    <3> QED
      BY <1>3, <1>5, <1>6, <3>1
  <2> QED
    BY <2>1, <2>2
<1>9. s \o u = both
  BY <1>3, <1>6, <1>7, <1>8, SeqEqual
<1> QED
  BY <1>9 DEF s, u, both, H

-----------------------------------------------------------------------------
(* The calls of collectLeaves.                                              *)

\* The bound is kept by the calls on the way to the path to resume after.
Bounded(after, p) == after # None /\ Under(after, p)

CallAt(t, after, p) == Visit(p, ChildRef(t, p), Bounded(after, p))

\* A call at depth i: it is for a node of t, nothing that was streamed lies
\* below it unless it still has the bound, and it was reached through nodes.
Sound(t, after, i, v) ==
    /\ v.at \in Positions(t.val) /\ Len(v.at) = i
    /\ v = CallAt(t, after, v.at)
    /\ after # None /\ ~Under(after, v.at) =>
         \A x \in Path : Under(x, v.at) => PathGreater(x, after)
    /\ \A j \in 0 .. i - 1 : Internal(CallAt(t, after, SubSeq(v.at, 1, j)))

\* The leaves that are still to be streamed.
Wanted(c, after) == {x \in DOMAIN c : after = None \/ PathGreater(x, after)}

\* What a call loads: nothing, an internal node, or the one leaf below it.
LEMMA CallLoads ==
    ASSUME NEW t, DOMAIN t.val \subseteq Path, Truthful(t), NEW after, NEW i,
           NEW v, Sound(t, after, i, v)
    PROVE  \/ Visited(v) = Missing /\ ~Whole(t) /\ ~Internal(v)
           \/ /\ Internal(v) /\ Crowded(t.val, v.at)
              /\ Visited(v).out.kids =
                    [n \in Kids(t.val, v.at) |-> ChildRef(t, Append(v.at, n))]
           \/ /\ ~Internal(v)
              /\ \E y \in DOMAIN t.val :
                    /\ Below(t.val, v.at) = {y}
                    /\ Visited(v) = Found(LeafNode(y, t.val[y], t.vv[y]))
<1> DEFINE p == v.at
           c == t.val
           n == LoadNode(NodeKey(p, t.ver[p]), Sub(c, p))
<1>1. p \in Positions(c) /\ v = CallAt(t, after, p)
  BY DEF Sound
<1>2. v.child.ver = t.ver[p] /\ v.child.hash = Sub(c, p)
  BY <1>1 DEF CallAt, Visit, ChildRef
<1>3. Visited(v) = n
  BY <1>2 DEF Visited
<1>4. n = Found(NodeAt(t, p)) \/ (n = Missing /\ ~Whole(t))
  BY <1>1, LoadAt
<1>5. CASE n = Missing /\ ~Whole(t)
  BY <1>3, <1>5 DEF Internal, Missing
<1>6. CASE n = Found(NodeAt(t, p)) /\ Crowded(c, p)
  <2>1. NodeAt(t, p) = InternalNode([m \in Kids(c, p) |-> ChildRef(t, Append(p, m))])
    BY <1>6 DEF NodeAt
  <2>2. /\ n.st = "found" /\ ~n.out.isLeaf
        /\ n.out.kids = [m \in Kids(c, p) |-> ChildRef(t, Append(p, m))]
    BY <1>6, <2>1 DEF Found, InternalNode
  <2> QED
    BY <1>3, <1>6, <2>2 DEF Internal
<1>7. CASE n = Found(NodeAt(t, p)) /\ ~Crowded(c, p)
  <2>1. PICK y : y = CHOOSE z \in Below(c, p) : TRUE
    OBVIOUS
  <2>2. Below(c, p) = {y} /\ y \in DOMAIN c
    BY <1>1, <1>7, <2>1 DEF Crowded, Positions, Below
  <2>3. n = Found(LeafNode(y, c[y], t.vv[y]))
    BY <1>7, <2>1 DEF NodeAt
  <2>4. n.out.isLeaf = TRUE
    BY <2>3 DEF Found, LeafNode
  <2> QED
    BY <1>3, <2>2, <2>3, <2>4 DEF Internal
<1> QED
  BY <1>4, <1>5, <1>6, <1>7

\* The calls for the children of a node are sound as well.
LEMMA CallSound ==
    ASSUME NEW t, DOMAIN t.val \subseteq Path, Truthful(t),
           NEW after \in Path \cup {None}, NEW i \in 0 .. Depth,
           NEW v, Sound(t, after, i, v), Internal(v), NEW u \in Descents(v, after)
    PROVE  Sound(t, after, i + 1, u)
<1> DEFINE p == v.at
           c == t.val
           kids == [n \in Kids(c, p) |-> ChildRef(t, Append(p, n))]
<1>1. /\ p \in Positions(c) /\ Len(p) = i /\ v = CallAt(t, after, p)
      /\ p \in Prefix /\ p \in Seq(Nibbles)
  BY PrefixSeq DEF Sound, Positions
<1>2. Crowded(c, p) /\ Visited(v).out.kids = kids
  BY CallLoads
<1>3. v.bounded = Bounded(after, p) /\ i < Depth
  BY <1>1, <1>2, CrowdedShort DEF CallAt, Visit
<1>4. PICK n \in Kids(c, p) :
        /\ v.bounded => n >= after[i + 1]
        /\ u = Visit(Append(p, n), kids[n], v.bounded /\ n = after[i + 1])
  <2>1. DOMAIN kids = Kids(c, p)
    OBVIOUS
  <2> HIDE DEF kids
  <2> QED
    BY <1>1, <1>2, <2>1 DEF Descents
<1> DEFINE q == Append(p, n)
<1>5. /\ q \in Positions(c) /\ Len(q) = i + 1 /\ n \in Nibbles
      /\ q[i + 1] = n /\ \A j \in 1 .. i : q[j] = p[j]
  BY <1>1, <1>2, KidPosition DEF Kids
<1>6. \A x : Under(x, q) <=> Under(x, p) /\ x[i + 1] = n
  <2>1. \A j : j \in 1 .. i + 1 <=> j \in 1 .. i \/ j = i + 1
    OBVIOUS
  <2> HIDE DEF q, p
  <2> QED
    BY <1>1, <1>5, <2>1 DEF Under
<1>7. u = CallAt(t, after, q) /\ u.at = q
  <2>1. (v.bounded /\ n = after[i + 1]) = Bounded(after, q)
    BY <1>3, <1>6 DEF Bounded
  <2>2. kids[n] = ChildRef(t, q)
    OBVIOUS
  <2>3. u = Visit(q, kids[n], v.bounded /\ n = after[i + 1])
    BY <1>4
  <2> HIDE DEF kids, q
  <2>4. u = CallAt(t, after, q)
    BY <2>1, <2>2, <2>3 DEF CallAt
  <2> QED
    BY <2>3, <2>4 DEF Visit
<1>8. ASSUME after # None, ~Under(after, q), NEW x \in Path, Under(x, q)
      PROVE  PathGreater(x, after)
  <2>1. Under(x, p) /\ x[i + 1] = n
    BY <1>6, <1>8
  <2>2. CASE ~Under(after, p)
    BY <1>8, <2>1, <2>2 DEF Sound
  <2>3. CASE Under(after, p)
    <3>1. n >= after[i + 1] /\ n # after[i + 1]
      BY <1>3, <1>4, <1>6, <1>8, <2>3 DEF Bounded
    <3>2. after \in Path /\ i + 1 \in 1 .. Depth
      BY <1>3, <1>8, DepthAssumption
    <3>3. after[i + 1] \in Int /\ n \in Int /\ i + 1 \in DOMAIN x \cap DOMAIN after
      BY <1>5, <3>2, ArityAssumption DEF Path, Nibbles
    <3>4. x[i + 1] > after[i + 1]
      BY <2>1, <3>1, <3>3
    <3>5. \A j \in 1 .. (i + 1) - 1 : x[j] = after[j]
      BY <1>1, <2>1, <2>3 DEF Under
    <3> QED
      BY <3>3, <3>4, <3>5 DEF PathGreater
  <2> QED
    BY <2>2, <2>3
<1>9. ASSUME NEW j \in 0 .. (i + 1) - 1 PROVE Internal(CallAt(t, after, SubSeq(q, 1, j)))
  <2>1. j \in 0 .. i
    BY <1>9
  <2>2. SubSeq(q, 1, j) = SubSeq(p, 1, j)
    <3>1. /\ SubSeq(q, 1, j) = [k \in 1 .. j |-> q[k]]
          /\ SubSeq(p, 1, j) = [k \in 1 .. j |-> p[k]]
      BY <1>1, <1>5, <2>1, PrefixSeq DEF Positions
    <3>2. \A k \in 1 .. j : q[k] = p[k]
      BY <1>5, <2>1
    <3> HIDE DEF q, p
    <3> QED
      BY <3>1, <3>2
  <2>3. CASE j = i
    <3>1. SubSeq(p, 1, j) = p
      BY <1>1, <2>3
    <3> QED
      BY <1>1, <2>2, <3>1
  <2>4. CASE j # i
    <3>1. j \in 0 .. i - 1
      BY <2>1, <2>4
    <3> QED
      BY <2>2, <3>1 DEF Sound
  <2> QED
    BY <2>3, <2>4
<1> HIDE DEF q
<1> QED
  BY <1>5, <1>7, <1>8, <1>9 DEF Sound

\* A leaf that is wanted below a node is below one of the calls for its children.
LEMMA CallCovers ==
    ASSUME NEW t, DOMAIN t.val \subseteq Path, Truthful(t),
           NEW after \in Path \cup {None}, NEW i \in 0 .. Depth,
           NEW v, Sound(t, after, i, v), Internal(v),
           NEW x \in Wanted(t.val, after), Under(x, v.at)
    PROVE  \E u \in Descents(v, after) : Under(x, u.at)
<1> DEFINE p == v.at
           c == t.val
           n == x[i + 1]
           kids == [m \in Kids(c, p) |-> ChildRef(t, Append(p, m))]
           from == {m \in DOMAIN kids : v.bounded => m >= after[i + 1]}
<1>1. /\ p \in Positions(c) /\ Len(p) = i /\ v = CallAt(t, after, p) /\ p \in Prefix
      /\ x \in DOMAIN c /\ x \in Path
  BY DEF Sound, Positions, Wanted
<1>2. Crowded(c, p) /\ Visited(v).out.kids = kids
  BY CallLoads
<1>3. v.bounded = Bounded(after, p) /\ i < Depth
  BY <1>1, <1>2, CrowdedShort DEF CallAt, Visit
<1>4. n \in Nibbles /\ Under(x, Append(p, n))
  BY <1>1, <1>3, UnderKid
<1>5. n \in Kids(c, p)
  BY <1>1, <1>4 DEF Kids, Below
<1>6. ASSUME v.bounded PROVE n >= after[i + 1]
  <2>1. after \in Path /\ after # None /\ Under(after, p) /\ PathGreater(x, after)
    BY <1>3, <1>6 DEF Bounded, Wanted
  <2>2. PICK k \in DOMAIN x \cap DOMAIN after :
           x[k] > after[k] /\ \A j \in 1 .. k - 1 : x[j] = after[j]
    BY <2>1 DEF PathGreater
  <2>3. /\ DOMAIN x = 1 .. Depth /\ DOMAIN after = 1 .. Depth
        /\ \A j \in 1 .. Depth : x[j] \in Int /\ after[j] \in Int
    BY <1>1, <2>1, ArityAssumption DEF Path, Nibbles
  <2>4. \A j \in 1 .. i : x[j] = after[j]
    BY <1>1, <2>1 DEF Under
  <2>5. ~(k =< i)
    BY <2>2, <2>3, <2>4
  <2>6. CASE k = i + 1
    BY <2>2, <2>3, <2>6
  <2>7. CASE k > i + 1
    <3>1. i + 1 \in 1 .. k - 1 /\ i + 1 \in 1 .. Depth
      BY <1>3, <2>2, <2>3, <2>7, DepthAssumption
    <3>2. x[i + 1] = after[i + 1] /\ x[i + 1] \in Int
      BY <2>2, <2>3, <3>1
    <3> QED
      BY <3>2
  <2> QED
    BY <2>2, <2>3, <2>5, <2>6, <2>7
<1>7. n \in from
  BY <1>5, <1>6
<1> DEFINE u == Visit(Append(p, n), kids[n], v.bounded /\ n = after[i + 1])
<1>8. u \in Descents(v, after)
  <2> HIDE DEF n
  <2> QED
    BY <1>1, <1>2, <1>7 DEF Descents
<1>9. u.at = Append(p, n)
  BY DEF Visit
<1> QED
  BY <1>4, <1>8, <1>9

\* The calls of one level, from those of the level above.
NextLevel(L, after) == UNION {Descents(v, after) : v \in {u \in L : Internal(u)}}

\* The recursive definition of the levels has a solution: any initial part can
\* be extended.
LEMMA LevelsExist ==
    ASSUME NEW c, NEW after
    PROVE  \E g : /\ g[0] = {Visit(<< >>, c, after # None)}
                  /\ \A i \in 1 .. Depth : g[i] = NextLevel(g[i - 1], after)
                  /\ Ends(c, after) = {v \in UNION {g[i] : i \in 0 .. Depth} : ~Internal(v)}
<1> DEFINE R == {Visit(<< >>, c, after # None)}
           Loop(g, n) == g = [i \in 0 .. n |-> IF i = 0 THEN R ELSE NextLevel(g[i - 1], after)]
           level == CHOOSE g : Loop(g, Depth)
<1>1. \E g : Loop(g, Depth)
  <2> DEFINE S == {n \in Nat : \E g : Loop(g, n)}
  <2>1. 0 \in S
    <3> DEFINE g == [i \in 0 .. 0 |-> R]
    <3>1. Loop(g, 0)
      OBVIOUS
    <3> QED
      BY <3>1
  <2>2. ASSUME NEW n \in Nat, n \in S PROVE n + 1 \in S
    <3>1. PICK g : Loop(g, n)
      BY <2>2
    <3> DEFINE h == [i \in 0 .. n + 1 |-> IF i = n + 1 THEN NextLevel(g[n], after) ELSE g[i]]
    <3>2. ASSUME NEW i \in 0 .. n + 1
          PROVE  h[i] = IF i = 0 THEN R ELSE NextLevel(h[i - 1], after)
      <4> HIDE DEF R
      <4>1. CASE i = n + 1
        <5>1. i - 1 = n /\ i # 0 /\ n # n + 1 /\ n \in 0 .. n + 1
          BY <4>1
        <5>2. h[n] = g[n]
          BY <5>1
        <5> QED
          BY <4>1, <5>1, <5>2
      <4>2. CASE i # n + 1
        <5>1. i \in 0 .. n /\ h[i] = g[i]
          BY <4>2
        <5>2. i # 0 => /\ i - 1 \in 0 .. n + 1 /\ i - 1 # n + 1
                       /\ h[i - 1] = g[i - 1]
          BY <5>1
        <5>3. g[i] = IF i = 0 THEN R ELSE NextLevel(g[i - 1], after)
          BY <3>1, <5>1
        <5> QED
          BY <5>1, <5>2, <5>3
      <4> QED
        BY <4>1, <4>2
    <3>3. Loop(h, n + 1)
      <4>1. h = [i \in 0 .. n + 1 |-> h[i]]
        OBVIOUS
      <4> HIDE DEF h, R
      <4> QED
        BY <3>2, <4>1
    <3> QED
      <4> HIDE DEF Loop, h
      <4> QED
        BY <3>3
  <2>3. Nat \subseteq S
    <3> HIDE DEF S
    <3> QED
      BY <2>1, <2>2, SetInduction
  <2> HIDE DEF Loop
  <2>4. Depth \in S
    BY <2>3, DepthAssumption
  <2> QED
    BY <2>4
<1>2. Loop(level, Depth)
  <2> HIDE DEF Loop
  <2> QED
    BY <1>1
<1>3. Ends(c, after) = {v \in UNION {level[i] : i \in 0 .. Depth} : ~Internal(v)}
  BY DEF Ends, NextLevel
<1> HIDE DEF level
<1>4. level[0] = R
  <2> HIDE DEF R
  <2> QED
    BY <1>2, DepthAssumption
<1>5. ASSUME NEW i \in 1 .. Depth PROVE level[i] = NextLevel(level[i - 1], after)
  <2>1. i \in 0 .. Depth /\ i # 0
    BY DepthAssumption
  <2> HIDE DEF R
  <2> QED
    BY <1>2, <2>1
<1> QED
  BY <1>3, <1>4, <1>5

\* The calls that end at a leaf or an error are sound, and between them they
\* cover every leaf that is wanted.
LEMMA EndsCover ==
    ASSUME NEW t, DOMAIN t.val \subseteq Path, Truthful(t), << >> \in Positions(t.val),
           NEW after \in Path \cup {None}
    PROVE  /\ \A v \in Ends(ChildRef(t, << >>), after) :
                 ~Internal(v) /\ Sound(t, after, Len(v.at), v)
           /\ \A x \in Wanted(t.val, after) :
                 \E v \in Ends(ChildRef(t, << >>), after) : Under(x, v.at)
<1> DEFINE c == t.val
           r == ChildRef(t, << >>)
           E == Ends(r, after)
           root0 == Visit(<< >>, r, after # None)
<1>1. PICK g : /\ g[0] = {root0}
               /\ \A i \in 1 .. Depth : g[i] = NextLevel(g[i - 1], after)
               /\ E = {v \in UNION {g[i] : i \in 0 .. Depth} : ~Internal(v)}
  <2> HIDE DEF r
  <2> QED
    BY LevelsExist
<1> HIDE DEF E
\* Every call is sound.
<1> DEFINE S == {i \in Nat : i =< Depth => \A v \in g[i] : Sound(t, after, i, v)}
<1>2. 0 \in S
  <2>1. root0.at = << >> /\ Len(<< >>) = 0 /\ \A x : Under(x, << >>)
    BY DEF Visit, Under
  <2>2. root0 = CallAt(t, after, << >>)
    BY <2>1 DEF CallAt, Bounded
  <2>3. Sound(t, after, 0, root0)
    <3> HIDE DEF root0
    <3> QED
      BY <2>1, <2>2 DEF Sound
  <2> HIDE DEF root0
  <2> QED
    BY <1>1, <2>3
<1>3. ASSUME NEW i \in Nat, i \in S PROVE i + 1 \in S
  <2> SUFFICES ASSUME i + 1 =< Depth, NEW u \in g[i + 1] PROVE Sound(t, after, i + 1, u)
    OBVIOUS
  <2>1. i \in 0 .. Depth /\ i + 1 \in 1 .. Depth /\ (i + 1) - 1 = i
    BY DepthAssumption
  <2>2. g[i + 1] = NextLevel(g[i], after)
    BY <1>1, <2>1
  <2>3. PICK v \in g[i] : Internal(v) /\ u \in Descents(v, after)
    BY <2>2 DEF NextLevel
  <2>4. Sound(t, after, i, v)
    BY <1>3, <2>1, <2>3, DepthAssumption
  <2> QED
    BY <2>1, <2>3, <2>4, CallSound
<1>4. \A i \in 0 .. Depth : \A v \in g[i] : Sound(t, after, i, v)
  <2>1. Nat \subseteq S
    <3> HIDE DEF S
    <3> QED
      BY <1>2, <1>3, SetInduction
  <2> QED
    BY <2>1, DepthAssumption
<1>5. ASSUME NEW v \in E PROVE ~Internal(v) /\ Sound(t, after, Len(v.at), v)
  <2>1. PICK i \in 0 .. Depth : v \in g[i] /\ ~Internal(v)
    BY <1>1
  <2>2. Sound(t, after, i, v)
    BY <1>4, <2>1
  <2>3. Len(v.at) = i
    BY <2>2 DEF Sound
  <2> QED
    BY <2>1, <2>2, <2>3
\* At every level, a leaf is below a call of that level or below an end.
<1>6. ASSUME NEW x \in Wanted(c, after) PROVE \E v \in E : Under(x, v.at)
  <2> DEFINE P == {i \in Nat : i =< Depth => \/ \E v \in E : Under(x, v.at)
                                             \/ \E v \in g[i] : Under(x, v.at)}
  <2>1. 0 \in P
    <3>1. root0 \in g[0] /\ Under(x, root0.at)
      BY <1>1 DEF Visit, Under
    <3> HIDE DEF root0
    <3> QED
      BY <3>1
  <2>2. ASSUME NEW i \in Nat, i \in P PROVE i + 1 \in P
    <3> SUFFICES ASSUME i + 1 =< Depth, ~(\E v \in E : Under(x, v.at))
                 PROVE  \E v \in g[i + 1] : Under(x, v.at)
      OBVIOUS
    <3>1. i \in 0 .. Depth /\ i + 1 \in 1 .. Depth /\ (i + 1) - 1 = i /\ i =< Depth
      BY DepthAssumption
    <3>2. PICK v \in g[i] : Under(x, v.at)
      BY <2>2, <3>1
    <3>3. Internal(v)
      BY <1>1, <3>1, <3>2
    <3>4. PICK u \in Descents(v, after) : Under(x, u.at)
      BY <1>4, <1>6, <3>1, <3>2, <3>3, CallCovers
    <3>5. g[i + 1] = NextLevel(g[i], after)
      BY <1>1, <3>1
    <3>6. u \in g[i + 1]
      BY <3>2, <3>3, <3>4, <3>5 DEF NextLevel
    <3> QED
      BY <3>4, <3>6
  <2>3. Depth \in P
    <3> HIDE DEF P
    <3> QED
      BY <2>1, <2>2, SetInduction, DepthAssumption
  <2> SUFFICES ASSUME ~(\E v \in E : Under(x, v.at)) PROVE FALSE
    OBVIOUS
  <2>4. PICK v \in g[Depth] : Under(x, v.at)
    BY <2>3, DepthAssumption
  <2>5. Depth \in 0 .. Depth
    BY DepthAssumption
  <2>6. Sound(t, after, Depth, v)
    BY <1>4, <2>4, <2>5
  <2>7. Internal(v)
    BY <1>1, <2>4, <2>5
  <2>8. Crowded(c, v.at)
    BY <2>6, <2>7, CallLoads
  <2>9. v.at \in Prefix /\ Len(v.at) = Depth
    BY <2>6 DEF Sound, Positions
  <2> QED
    BY <2>8, <2>9, CrowdedShort, DepthAssumption
<1> QED
  BY <1>5, <1>6 DEF E

\* Of two ends, neither lies above the other.
LEMMA EndsApart ==
    ASSUME NEW t, NEW after, NEW u, NEW v, u.at # v.at, ~Internal(u),
           Sound(t, after, Len(u.at), u), Sound(t, after, Len(v.at), v)
    PROVE  ~Above(u.at, v.at)
<1> SUFFICES ASSUME Under(v.at, u.at), Len(u.at) =< Len(v.at) PROVE FALSE
  BY DEF Above
<1> DEFINE p == u.at
           q == v.at
           k == Len(p)
<1>1. /\ p \in Seq(Nibbles) /\ q \in Seq(Nibbles)
      /\ k \in Nat /\ Len(q) \in Nat /\ k =< Len(q)
  BY PrefixSeq DEF Sound, Positions
<1>2. p = SubSeq(q, 1, k)
  <2>1. p = [j \in 1 .. k |-> p[j]] /\ SubSeq(q, 1, k) = [j \in 1 .. k |-> q[j]]
    BY <1>1
  <2>2. \A j \in 1 .. k : q[j] = p[j]
    BY DEF Under
  <2> HIDE DEF p, q, k
  <2> QED
    BY <2>1, <2>2
<1>3. k # Len(q)
  BY <1>1, <1>2
<1>4. k \in 0 .. Len(q) - 1
  BY <1>1, <1>3
<1>5. Internal(CallAt(t, after, p))
  BY <1>2, <1>4 DEF Sound
<1>6. u = CallAt(t, after, p)
  BY DEF Sound
<1> QED
  BY <1>5, <1>6

-----------------------------------------------------------------------------
(* A chunk.                                                                 *)

\* What an end finds: a record is gone, or the one leaf below it, which is
\* streamed exactly if it is wanted.
LEMMA EndReads ==
    ASSUME NEW t, DOMAIN t.val \subseteq Path, Truthful(t),
           NEW after \in Path \cup {None}, NEW i,
           NEW v, Sound(t, after, i, v), ~Internal(v)
    PROVE  \/ EndOf(v, after) = Missing /\ ~Whole(t)
           \/ \E y \in DOMAIN t.val :
                 /\ Below(t.val, v.at) = {y}
                 /\ Visited(v).out.path = y
                 /\ EndOf(v, after) = IF y \in Wanted(t.val, after) THEN Found(t.val[y])
                                                                    ELSE NotFound
<1> DEFINE c == t.val
<1>1. CASE Visited(v) = Missing /\ ~Whole(t)
  BY <1>1 DEF EndOf, Missing
<1>2. CASE \E y \in DOMAIN c : /\ Below(c, v.at) = {y}
                               /\ Visited(v) = Found(LeafNode(y, c[y], t.vv[y]))
  <2>1. PICK y \in DOMAIN c : /\ Below(c, v.at) = {y}
                              /\ Visited(v) = Found(LeafNode(y, c[y], t.vv[y]))
    BY <1>2
  <2>2. /\ Visited(v).st = "found" /\ Visited(v).out.path = y
        /\ Visited(v).out.val = c[y] /\ Visited(v).out.vv = t.vv[y]
    BY <2>1 DEF Found, LeafNode
  <2>3. v.bounded = Bounded(after, v.at)
    <3>1. v = CallAt(t, after, v.at)
      BY DEF Sound
    <3> QED
      BY <3>1 DEF CallAt, Visit
  <2>4. EndOf(v, after) = IF v.bounded /\ ~PathGreater(y, after) THEN NotFound
                          ELSE ReadValue(y, c[y], t.vv[y])
    BY <2>2 DEF EndOf
  <2>5. Under(y, v.at) /\ y \in Path
    BY <2>1 DEF Below
  <2>6. y \in Wanted(c, after) <=> ~(v.bounded /\ ~PathGreater(y, after))
    <3>1. after # None /\ ~Under(after, v.at) => PathGreater(y, after)
      BY <2>5 DEF Sound
    <3> QED
      BY <2>3, <3>1 DEF Wanted, Bounded
  <2>7. ReadValue(y, c[y], t.vv[y]) = Found(c[y])
          \/ (ReadValue(y, c[y], t.vv[y]) = Missing /\ ~Whole(t))
    BY ReadAt DEF Answers, Says
  <2> QED
    BY <2>1, <2>2, <2>4, <2>6, <2>7
<1> QED
  BY <1>1, <1>2, CallLoads

\* A chunk ends with a missing record, or has leaves that are wanted, closed
\* under going back; it is done only when it has them all.
Collects(t, after, r) ==
    \/ r.st # "found" /\ r.out = << >> /\ ~r.done /\ ~Whole(t)
    \/ /\ r.st = "found"
       /\ \E X \in SUBSET Wanted(t.val, after) :
             /\ Closed(X, Wanted(t.val, after))
             /\ r.out = InPathOrder(Restrict(t.val, X))
             /\ r.done => X = Wanted(t.val, after)

\* Of some of the ends, one is the first that the traversal comes to.
LEMMA FirstEnd ==
    ASSUME NEW t, DOMAIN t.val \subseteq Path, NEW after, NEW B, B # {},
           \A v \in B : ~Internal(v) /\ Sound(t, after, Len(v.at), v)
    PROVE  \E v \in B : \A u \in B : ~PathGreater(v.at, u.at)
<1> DEFINE c == t.val
           some(v) == CHOOSE x \in Below(c, v.at) : TRUE
           S == {some(v) : v \in B}
<1>1. ASSUME NEW v \in B
      PROVE  some(v) \in Path /\ Under(some(v), v.at) /\ v.at \in Prefix
  <2>1. v.at \in Positions(c)
    BY DEF Sound
  <2>2. Below(c, v.at) # {} /\ v.at \in Prefix
    BY <2>1 DEF Positions
  <2>3. some(v) \in Below(c, v.at)
    BY <2>2
  <2> HIDE DEF some
  <2> QED
    BY <2>2, <2>3 DEF Below
<1> HIDE DEF some
<1>2. S \in SUBSET Path /\ S # {}
  BY <1>1
<1> HIDE DEF S
<1>3. 1 \in 1 .. Cardinality(S) /\ IsFiniteSet(S)
  BY <1>2, RankBound, FS_EmptySet
<1>4. PICK x \in S : Rank(S, x) = 1 - 1
  BY <1>2, <1>3, RankOnto
<1>5. \A z \in S : ~PathGreater(x, z)
  <2> DEFINE D == {z \in S : PathGreater(x, z)}
  <2>1. D \in SUBSET S /\ Cardinality(D) = 0
    BY <1>4 DEF Rank
  <2> HIDE DEF D
  <2>2. D = {}
    BY <1>3, <2>1, FS_Subset, FS_EmptySet
  <2> QED
    BY <2>2 DEF D
<1>6. PICK v \in B : x = some(v)
  BY DEF S
<1>7. ASSUME NEW u \in B, PathGreater(v.at, u.at) PROVE FALSE
  <2>1. v.at # u.at
    BY <1>1, <1>7, GreaterOrder
  <2>2. ~Above(u.at, v.at) /\ ~Above(v.at, u.at)
    BY <2>1, EndsApart
  <2>3. PathGreater(x, some(u))
    BY <1>1, <1>6, <1>7, <2>2, GreaterBelow
  <2>4. some(u) \in S
    BY DEF S
  <2> QED
    BY <1>5, <2>3, <2>4
<1> QED
  BY <1>7

\* collectLeaves.
LEMMA CollectsNext ==
    ASSUME NEW t, DOMAIN t.val \subseteq Path, Truthful(t), << >> \in Positions(t.val),
           NEW after \in Path \cup {None}
    PROVE  Collects(t, after, CollectLeaves(ChildRef(t, << >>), after))
<1> DEFINE c == t.val
           W == Wanted(c, after)
           E == Ends(ChildRef(t, << >>), after)
           C == BeforeFull(E, after)
           st(v) == EndOf(v, after).st
           bad == {v \in C : st(v) \notin {"found", "absent"}}
           got == {v \in C : st(v) = "found"}
           X == {Visited(v).out.path : v \in got}
           leaves == [x \in X |-> EndOf(CHOOSE v \in got : Visited(v).out.path = x, after).out]
           r == CollectLeaves(ChildRef(t, << >>), after)
<1>1. r = IF bad # {}
          THEN Failed(EndOf(CHOOSE v \in bad : \A u \in bad : ~PathGreater(v.at, u.at), after))
          ELSE Collected(InPathOrder(leaves), C = E)
  BY DEF CollectLeaves
<1> SUFFICES Collects(t, after, r)
  OBVIOUS
<1> HIDE DEF r
<1>2. /\ \A v \in E : ~Internal(v) /\ Sound(t, after, Len(v.at), v)
      /\ \A x \in W : \E v \in E : Under(x, v.at)
  BY EndsCover
<1> DEFINE D(v) == {u \in E : st(u) = "found" /\ PathGreater(v.at, u.at)}
<1>3. C = {v \in E : Cardinality(D(v)) < MaxLeaves}
  BY DEF BeforeFull
<1> HIDE DEF E, C
<1> DEFINE Reads(v, y) == /\ Below(c, v.at) = {y}
                          /\ Visited(v).out.path = y
                          /\ EndOf(v, after) = IF y \in W THEN Found(c[y]) ELSE NotFound
<1>4. ASSUME NEW v \in E
      PROVE  \/ EndOf(v, after) = Missing /\ ~Whole(t)
             \/ \E y \in DOMAIN c : Reads(v, y)
  BY <1>2, <1>4, EndReads
<1>5. /\ Missing.st = "missing" /\ NotFound.st = "absent"
      /\ \A a : Found(a).st = "found" /\ Found(a).out = a
  BY DEF Missing, NotFound, Found
<1>6. CASE bad # {}
  <2> DEFINE first == CHOOSE v \in bad : \A u \in bad : ~PathGreater(v.at, u.at)
  <2>1. first \in bad
    <3>1. \E v \in bad : \A u \in bad : ~PathGreater(v.at, u.at)
      <4>1. \A v \in bad : ~Internal(v) /\ Sound(t, after, Len(v.at), v)
        BY <1>2, <1>3
      <4> HIDE DEF bad
      <4> QED
        BY <1>6, <4>1, FirstEnd
    <3> HIDE DEF bad
    <3> QED
      BY <3>1
  <2>2. r = Failed(EndOf(first, after))
    BY <1>1, <1>6
  <2> HIDE DEF first
  <2>3. first \in E /\ st(first) # "found" /\ st(first) # "absent"
    BY <1>3, <2>1
  <2>4. EndOf(first, after) = Missing /\ ~Whole(t)
    BY <1>4, <1>5, <2>3
  <2> QED
    BY <1>5, <2>2, <2>4 DEF Collects, Failed
<1>7. CASE bad = {}
  <2>1. ASSUME NEW v \in got
        PROVE  \E y \in W : Reads(v, y)
    <3>1. v \in E /\ EndOf(v, after).st = "found"
      BY <1>3, <2>1
    <3>2. PICK y \in DOMAIN c : Reads(v, y)
      BY <1>4, <1>5, <3>1
    <3>3. y \in W
      BY <1>5, <3>1, <3>2
    <3> QED
      BY <3>2, <3>3
  <2>2. X \in SUBSET W
    BY <2>1
  \* A wanted leaf below an end that the chunk has come to is in the chunk.
  <2>3. ASSUME NEW u \in C, NEW y \in W, Under(y, u.at) PROVE y \in X
    <3>1. u \in E /\ st(u) \in {"found", "absent"}
      BY <1>3, <1>7, <2>3
    <3>2. PICK z \in DOMAIN c : Reads(u, z)
      BY <1>4, <1>5, <3>1
    <3>3. y \in Below(c, u.at)
      BY <2>3 DEF Below, Wanted
    <3>4. Reads(u, y)
      BY <3>2, <3>3
    <3>5. u \in got /\ Visited(u).out.path = y
      BY <1>5, <2>3, <3>4
    <3> QED
      BY <3>5
  <2>4. leaves = Restrict(c, X)
    <3>1. ASSUME NEW x \in X
          PROVE  EndOf(CHOOSE v \in got : Visited(v).out.path = x, after).out = c[x]
      <4>1. PICK v : v = CHOOSE u \in got : Visited(u).out.path = x
        OBVIOUS
      <4>2. v \in got /\ Visited(v).out.path = x
        <5>1. \E u \in got : Visited(u).out.path = x
          BY <3>1
        <5> HIDE DEF got
        <5> QED
          BY <4>1, <5>1
      <4>3. EndOf(v, after) = Found(c[x])
        BY <2>1, <4>2
      <4> QED
        BY <1>5, <4>1, <4>3
    <3> HIDE DEF X, got
    <3> QED
      BY <3>1 DEF Restrict
  <2>5. IsFiniteSet(E)
    <3> DEFINE f == [v \in E |-> v.at]
    <3>1. \A v \in E : v.at \in Prefix /\ v = CallAt(t, after, v.at)
      BY <1>2 DEF Sound, Positions
    <3>2. f \in [E -> Prefix] /\ \A u, v \in E : f[u] = f[v] => u = v
      BY <3>1
    <3> HIDE DEF f
    <3>3. f \in Injection(E, Prefix)
      BY <3>2 DEF Injection, IsInjective
    <3> QED
      BY <3>3, FS_Injection, PrefixFinite
  <2>6. ASSUME NEW x \in X, NEW y \in W, PathGreater(x, y) PROVE y \in X
    <3>1. PICK v \in got : Visited(v).out.path = x
      OBVIOUS
    <3>2. v \in C /\ v \in E /\ Below(c, v.at) = {x} /\ x \in Path /\ Under(x, v.at)
      BY <1>3, <2>1, <3>1 DEF Below
    <3>3. PICK u \in E : Under(y, u.at)
      BY <1>2
    <3>4. y \in DOMAIN c /\ y \in Path
      BY DEF Wanted
    <3>5. u.at # v.at
      <4>1. x # y
        BY <2>6, <3>2, <3>4, GreaterOrder, PathIsPrefix
      <4> QED
        BY <3>2, <3>3, <3>4, <4>1 DEF Below
    <3>6. ~Above(u.at, v.at) /\ ~Above(v.at, u.at)
      BY <1>2, <3>2, <3>3, <3>5, EndsApart
    <3>7. \A w \in E : w.at \in Prefix
      BY <1>2 DEF Sound, Positions
    <3>8. PathGreater(v.at, u.at)
      BY <2>6, <3>2, <3>3, <3>4, <3>6, <3>7, GreaterBelow
    <3>9. D(u) \in SUBSET D(v) /\ D(v) \in SUBSET E
      BY <3>2, <3>3, <3>7, <3>8, GreaterOrder
    <3>10. Cardinality(D(v)) < MaxLeaves
      BY <1>3, <3>2
    <3> HIDE DEF D
    <3>11. IsFiniteSet(D(v)) /\ Cardinality(D(v)) \in Nat
      BY <2>5, <3>9, FS_Subset, FS_CardinalityType
    <3>12. Cardinality(D(u)) =< Cardinality(D(v)) /\ Cardinality(D(u)) \in Nat
      BY <3>9, <3>11, FS_Subset, FS_CardinalityType
    <3>13. u \in C
      BY <1>3, <3>3, <3>10, <3>11, <3>12, MaxLeavesAssumption
    <3> QED
      BY <2>3, <3>3, <3>13
  <2>7. Closed(X, W)
    BY <2>6 DEF Closed
  <2>8. ASSUME C = E PROVE X = W
    BY <1>2, <2>2, <2>3, <2>8
  <2>9. r.st = "found" /\ r.out = InPathOrder(leaves) /\ r.done = (C = E)
    BY <1>1, <1>7 DEF Collected
  <2> HIDE DEF X, leaves
  <2> QED
    BY <2>2, <2>4, <2>7, <2>8, <2>9 DEF Collects
<1> QED
  BY <1>6, <1>7

\* A chunk of a committed version: it fails only for a version that is not
\* retained, with nothing, and otherwise has the next leaves that are wanted.
LEMMA LeavesServed ==
    ASSUME IndInv, ReadInv, NEW w \in Committed, NEW after \in Path \cup {None},
           NEW r, r = SnapshotLeaves(w, after)
    PROVE  \/ r.st # "found" /\ r.out = << >> /\ ~r.done /\ w \notin Retained
           \/ r.st = "found" /\ Collects(lineage[w], after, r)
<1> DEFINE t == lineage[w]
           n == LoadNode(NodeKey(<< >>, w), t.val)
<1>1. Created
  BY DEF IndInv, CoreInv, EmptyUntilCreated, Committed
<1>2. /\ IsTree(t, w) /\ IsVersion(t, w) /\ Truthful(t)
      /\ DOMAIN t.val \subseteq Path
  BY <1>1 DEF IndInv, CoreInv, CheckpointCurrent, ReadInv, IsTree
<1>3. w \in Retained => Whole(t) /\ w \in DOMAIN roots
  BY DEF IndInv, CoreInv, RetainedIntact, Whole, RootsKept, HasRoot
<1>4. CASE w \notin DOMAIN roots
  BY <1>3, <1>4 DEF SnapshotLeaves, Failed, Missing
<1>5. CASE w \in DOMAIN roots /\ t.val = Placeholder
  <2>1. r = Collected(<< >>, TRUE)
    BY <1>5 DEF SnapshotLeaves, LoadRootChild, Found, ReadInv
  <2>2. Wanted(t.val, after) = {}
    BY <1>5 DEF Wanted, Placeholder
  <2>3. InPathOrder(Restrict(t.val, {})) = << >>
    <3>1. DOMAIN Restrict(t.val, {}) = {}
      BY DEF Restrict
    <3>2. /\ InPathOrder(Restrict(t.val, {})) \in
                Seq({Leaf(Restrict(t.val, {}), x) : x \in DOMAIN Restrict(t.val, {})})
          /\ Len(InPathOrder(Restrict(t.val, {}))) = 0
      BY <3>1, Listed, FS_EmptySet
    <3> QED
      BY <3>2, EmptySeq
  <2>4. r.st = "found" /\ r.out = << >> /\ r.done
    BY <2>1 DEF Collected
  <2>5. Closed({}, Wanted(t.val, after)) /\ {} \in SUBSET Wanted(t.val, after)
    BY DEF Closed
  <2> QED
    BY <2>2, <2>3, <2>4, <2>5 DEF Collects
<1>6. CASE w \in DOMAIN roots /\ t.val # Placeholder
  <2>1. << >> \in Positions(t.val) /\ Sub(t.val, << >>) = t.val /\ t.ver[<< >>] = w
    BY <1>2, <1>6, RootPosition DEF IsVersion
  <2>2. n = Found(NodeAt(t, << >>)) \/ (n = Missing /\ ~Whole(t))
    BY <1>2, <2>1, LoadAt
  <2>3. roots[w] = t.val
    BY <1>6 DEF ReadInv
  <2>4. CASE n = Missing /\ ~Whole(t)
    <3>1. LoadRootChild(t.val, w) = Missing
      BY <1>6, <2>4 DEF LoadRootChild, Missing
    <3>2. r = Failed(Missing)
      BY <1>6, <2>3, <3>1 DEF SnapshotLeaves, Missing
    <3> QED
      BY <1>3, <2>4, <3>2 DEF Failed, Missing
  <2>5. CASE n = Found(NodeAt(t, << >>))
    <3>1. NodeAt(t, << >>).isLeaf = ~Crowded(t.val, << >>)
      BY DEF NodeAt, LeafNode, InternalNode
    <3>2. ChildRef(t, << >>) = [ver |-> w, hash |-> t.val, isLeaf |-> NodeAt(t, << >>).isLeaf]
      BY <2>1, <3>1 DEF ChildRef
    <3>3. LoadRootChild(t.val, w) = Found(ChildRef(t, << >>))
      BY <1>6, <2>5, <3>2 DEF LoadRootChild, Found
    <3>4. r = CollectLeaves(ChildRef(t, << >>), after)
      BY <1>6, <2>3, <3>3 DEF SnapshotLeaves, Found
    <3>5. Collects(t, after, r)
      BY <1>2, <2>1, <3>4, CollectsNext
    <3> QED
      BY <1>3, <3>5 DEF Collects
  <2> QED
    BY <2>2, <2>4, <2>5
<1> QED
  BY <1>4, <1>5, <1>6

-----------------------------------------------------------------------------
(* Streams.                                                                 *)

\* What a stream has: the leaves on a closed part of the paths.
HasFirst(c, got) ==
    \E G \in SUBSET DOMAIN c : Closed(G, DOMAIN c) /\ got = InPathOrder(Restrict(c, G))

IsStream(z) ==
    z \in [phase : {"idle", "open", "complete", "failed"}, at : Nat, got : {z.got},
           held : BOOLEAN]

\* An open stream has the first leaves of its version; while it is protected,
\* the pin is at or below that version, which is at or above the horizon.
StreamOK(z) ==
    /\ IsStream(z)
    /\ z.phase # "idle" =>
         /\ up
         /\ z.at \in Committed
         /\ HasFirst(lineage[z.at].val, z.got)
    /\ z.phase = "complete" => z.got = InPathOrder(lineage[z.at].val)
    /\ z.held => z.phase # "idle" /\ pin # None /\ pin =< z.at /\ horizon =< z.at
    /\ z.phase = "failed" => ~z.held

StreamInv == DOMAIN streams = Streams /\ \A s \in Streams : StreamOK(streams[s])

\* The path a stream resumes after separates what it has from what it wants.
LEMMA ResumeAt ==
    ASSUME NEW c, DOMAIN c \subseteq Path, NEW G \in SUBSET DOMAIN c,
           Closed(G, DOMAIN c), NEW got, got = InPathOrder(Restrict(c, G)),
           NEW after, after = IF got = << >> THEN None ELSE Last(got).path
    PROVE  /\ after \in Path \cup {None}
           /\ Wanted(c, after) = DOMAIN c \ G
           /\ Follows(Wanted(c, after), G)
<1> DEFINE d == Restrict(c, G)
           k == Cardinality(G)
<1>1. DOMAIN d = G
  BY DEF Restrict
<1>2. /\ got \in Seq({Leaf(d, x) : x \in G}) /\ Len(got) = k /\ k \in Nat
      /\ \A n \in 1 .. k : got[n] = Leaf(d, Nth(G, n))
  <2> HIDE DEF d
  <2> QED
    BY <1>1, Listed DEF d
<1> HIDE DEF d
<1>3. CASE G = {}
  <2>1. k = 0
    BY <1>3, FS_EmptySet
  <2>2. got = << >>
    BY <1>2, <2>1, EmptySeq
  <2> QED
    BY <1>3, <2>2 DEF Wanted, Follows
<1>4. CASE G # {}
  <2> DEFINE y == Nth(G, k)
  <2>1. k \in 1 .. k /\ y \in G /\ \A z \in G : z = y \/ PathGreater(y, z)
    BY <1>4, NthLast
  <2>2. got # << >> /\ Last(got) = Leaf(d, y)
    BY <1>2, <2>1 DEF Last
  <2>3. after = y /\ after # None /\ after \in Path
    BY <2>1, <2>2, NoneNoPath DEF Leaf
  <2> HIDE DEF y
  <2>4. ASSUME NEW x \in DOMAIN c PROVE PathGreater(x, after) <=> x \notin G
    <3>1. CASE x \in G
      <4>1. x = after \/ PathGreater(after, x)
        BY <2>1, <2>3, <3>1
      <4>2. x \in Prefix /\ after \in Prefix
        BY <2>3, PathIsPrefix
      <4> QED
        BY <3>1, <4>1, <4>2, GreaterOrder
    <3>2. CASE x \notin G
      <4>1. ~PathGreater(after, x) /\ x # after
        BY <2>1, <2>3, <3>2 DEF Closed
      <4> QED
        BY <2>3, <3>2, <4>1, GreaterTotal
    <3> QED
      BY <3>1, <3>2
  <2>5. Wanted(c, after) = DOMAIN c \ G
    BY <2>3, <2>4 DEF Wanted
  <2>6. ASSUME NEW x \in Wanted(c, after), NEW z \in G PROVE PathGreater(x, z)
    <3>1. PathGreater(x, after) /\ x \in Prefix /\ after \in Prefix /\ z \in Prefix
      BY <2>3, PathIsPrefix DEF Wanted
    <3> QED
      BY <2>1, <2>3, <3>1, GreaterOrder
  <2> QED
    BY <2>3, <2>5, <2>6 DEF Follows
<1> QED
  BY <1>3, <1>4

\* One chunk, appended: still the first leaves, and all of them when it is done.
LEMMA ChunkAppended ==
    ASSUME IndInv, ReadInv, NEW w \in Committed, NEW got,
           HasFirst(lineage[w].val, got),
           NEW r, r = SnapshotLeaves(w, IF got = << >> THEN None ELSE Last(got).path)
    PROVE  /\ HasFirst(lineage[w].val, got \o r.out)
           /\ r.st = "found" /\ r.done => got \o r.out = InPathOrder(lineage[w].val)
           /\ r.st # "found" => ~r.done /\ w \notin Retained
<1> DEFINE c == lineage[w].val
<1>0. Created
  BY DEF IndInv, CoreInv, EmptyUntilCreated, Committed
<1>1. DOMAIN c \subseteq Path /\ c = [x \in DOMAIN c |-> c[x]]
  BY <1>0 DEF IndInv, CoreInv, CheckpointCurrent, ReadInv, IsTree, IsVersion
<1>2. PICK G \in SUBSET DOMAIN c : Closed(G, DOMAIN c) /\ got = InPathOrder(Restrict(c, G))
  BY DEF HasFirst
<1>3. PICK after : after = IF got = << >> THEN None ELSE Last(got).path
  OBVIOUS
<1>4. /\ after \in Path \cup {None}
      /\ Wanted(c, after) = DOMAIN c \ G
      /\ Follows(Wanted(c, after), G)
  <2> HIDE DEF c
  <2> QED
    BY <1>1, <1>2, <1>3, ResumeAt
<1>5. r = SnapshotLeaves(w, after)
  BY <1>3
<1>6. \/ r.st # "found" /\ r.out = << >> /\ ~r.done /\ w \notin Retained
      \/ r.st = "found" /\ Collects(lineage[w], after, r)
  BY <1>4, <1>5, LeavesServed
<1>7. CASE r.st # "found" /\ r.out = << >> /\ ~r.done /\ w \notin Retained
  <2>1. DOMAIN Restrict(c, G) = G
    BY DEF Restrict
  <2>2. got \in Seq({Leaf(Restrict(c, G), x) : x \in G})
    BY <1>1, <1>2, <2>1, Listed
  <2>3. got \o << >> = got
    BY <2>2
  <2> QED
    BY <1>2, <1>7, <2>3 DEF HasFirst
<1>8. CASE r.st = "found" /\ Collects(lineage[w], after, r)
  <2>1. PICK X \in SUBSET Wanted(c, after) :
          /\ Closed(X, Wanted(c, after))
          /\ r.out = InPathOrder(Restrict(c, X))
          /\ r.done => X = Wanted(c, after)
    BY <1>8 DEF Collects
  <2>2. X \in SUBSET DOMAIN c /\ Follows(X, G) /\ G \cup X \in SUBSET DOMAIN c
    BY <1>4, <2>1 DEF Follows
  <2>3. got \o r.out = InPathOrder(Restrict(c, G \cup X))
    <3> HIDE DEF c
    <3>1. InPathOrder(Restrict(c, G)) \o InPathOrder(Restrict(c, X))
            = InPathOrder(Restrict(c, G \cup X))
      BY <1>1, <2>2, ConcatListed
    <3> QED
      BY <1>2, <2>1, <3>1
  <2>4. Closed(G \cup X, DOMAIN c)
    BY <1>2, <1>4, <2>1 DEF Closed
  <2>5. HasFirst(c, got \o r.out)
    BY <2>2, <2>3, <2>4 DEF HasFirst
  <2>6. ASSUME r.done PROVE got \o r.out = InPathOrder(c)
    <3>1. G \cup X = DOMAIN c
      BY <1>4, <2>1, <2>6
    <3>2. Restrict(c, DOMAIN c) = c
      BY <1>1 DEF Restrict
    <3> QED
      BY <2>3, <3>1, <3>2
  <2> QED
    BY <1>8, <2>5, <2>6
<1> QED
  BY <1>6, <1>7, <1>8

\* What the streams rely on: a running store keeps the versions it committed,
\* moves the horizon past no pin, and resets the pin in no step.
LEMMA StoreKeeps ==
    ASSUME IndInv, StoreStep, up
    PROVE  /\ up' /\ pin' = pin
           /\ \A w \in Committed : w \in Committed' /\ lineage'[w] = lineage[w]
           /\ \A w \in Nat : pin # None /\ pin =< w /\ horizon =< w => horizon' =< w
<1>1. CASE Create \/ OpenLatest
  BY <1>1 DEF Create, OpenLatest, OpenAt
<1>2. CASE \E upd \in Batches : PutBatch(upd)
  <2>1. PICK t1 : /\ ckpt' = Checkpoint(t1.val, version + 1)
                  /\ lineage' = [w \in 0 .. version + 1 |->
                                    IF w = version + 1 THEN t1 ELSE lineage[w]]
                  /\ UNCHANGED <<up, pin, horizon>>
    BY <1>2 DEF PutBatch, Commit
  <2>2. version \in Nat /\ Committed = 0 .. version /\ Committed' = 0 .. version + 1
    BY <2>1 DEF Committed, Checkpoint, IndInv, CoreInv, TypeOK, CheckpointCurrent
  <2> QED
    BY <2>1, <2>2
<1>3. CASE \E before \in 0 .. MaxVersion : PruneStart(before)
  <2>1. PICK before \in 0 .. MaxVersion : PruneStart(before)
    BY <1>3
  <2>2. /\ UNCHANGED <<up, pin, ckpt, lineage>>
        /\ horizon' = horizon \/ horizon' = Capped(before)
    BY <2>1 DEF PruneStart, backend, memory
  <2>3. pin # None => Capped(before) \in Nat /\ pin \in Nat /\ Capped(before) =< pin
    BY BoundsAssumption DEF Capped, IndInv, CoreInv, TypeOK
  <2>4. horizon \in Nat
    BY DEF IndInv, CoreInv, TypeOK
  <2> QED
    BY <2>2, <2>3, <2>4 DEF Committed
<1>4. CASE PruneStale \/ PruneRoots \/ PruneFails
  BY <1>4 DEF PruneStale, PruneRoots, PruneFails, memory, ghosts, backend, Committed
<1> QED
  BY <1>1, <1>2, <1>3, <1>4 DEF StoreStep

\* A stream that is left alone stays as it should be.
LEMMA StoreStreams ==
    ASSUME IndInv, StreamInv, StoreStep
    PROVE  StreamInv'
<1>1. streams' = streams
  BY DEF StoreStep
<1> SUFFICES ASSUME NEW s \in Streams PROVE StreamOK(streams[s])'
  BY <1>1 DEF StreamInv
<1> DEFINE z == streams[s]
<1>2. StreamOK(z) /\ z' = z
  BY <1>1 DEF StreamInv
<1>3. /\ IsStream(z) /\ z.at \in Nat
      /\ z.held => z.phase # "idle" /\ pin # None /\ pin =< z.at /\ horizon =< z.at
      /\ z.phase = "failed" => ~z.held
  BY <1>2 DEF StreamOK, IsStream
<1> SUFFICES /\ z.phase # "idle" => /\ up' /\ z.at \in Committed'
                                    /\ HasFirst(lineage'[z.at].val, z.got)
             /\ z.phase = "complete" => z.got = InPathOrder(lineage'[z.at].val)
             /\ z.held => pin' # None /\ pin' =< z.at /\ horizon' =< z.at
  BY <1>1, <1>3 DEF StreamOK
<1>4. CASE up
  <2>1. /\ up' /\ pin' = pin
        /\ \A w \in Committed : w \in Committed' /\ lineage'[w] = lineage[w]
        /\ \A w \in Nat : pin # None /\ pin =< w /\ horizon =< w => horizon' =< w
    BY <1>4, StoreKeeps
  <2> QED
    BY <1>2, <1>3, <2>1 DEF StreamOK
<1>5. CASE ~up
  BY <1>2, <1>5 DEF StreamOK
<1> QED
  BY <1>4, <1>5

\* A stream that is not there yet, or not any more.
LEMMA NoStreamOK == StreamOK(NoStream) /\ StreamOK(NoStream)'
BY DEF StreamOK, IsStream, NoStream

\* Moving the one pin leaves the leaves of the others alone, and their
\* protection where the pin is still at or below them.
LEMMA PinMoves ==
    ASSUME NEW v, PinVersion(v), NEW z, StreamOK(z), NEW h \in BOOLEAN,
           h => z.held /\ pin' # None /\ pin' =< z.at
    PROVE  StreamOK([z EXCEPT !.held = h])'
<1> DEFINE y == [z EXCEPT !.held = h]
<1>1. /\ up' = up /\ lineage' = lineage /\ horizon' = horizon
      /\ Committed' = Committed
  BY DEF PinVersion, ghosts, backend, Committed
<1>2. z \in [phase : {"idle", "open", "complete", "failed"}, at : Nat, got : {z.got},
             held : BOOLEAN]
  BY DEF StreamOK, IsStream
<1>3. y.phase = z.phase /\ y.at = z.at /\ y.got = z.got /\ y.held = h
  BY <1>2
<1>4. IsStream(y)
  BY <1>2, <1>3 DEF IsStream
<1> HIDE DEF y
<1>5. StreamOK(y)'
  BY <1>1, <1>3, <1>4 DEF StreamOK
<1> QED
  BY <1>5 DEF y

\* The streams are as they should be after a step if each of them is.
LEMMA StreamsPrimed ==
    ASSUME DOMAIN streams' = Streams,
           \A s \in Streams : \E z : z = streams'[s] /\ StreamOK(z)'
    PROVE  StreamInv'
<1> SUFFICES ASSUME NEW s \in Streams PROVE StreamOK(streams[s])'
  BY DEF StreamInv
<1>1. PICK z : z = streams'[s] /\ StreamOK(z)'
  OBVIOUS
<1> QED
  BY <1>1 DEF StreamOK, IsStream

\* A stream opens at a version that has a root record.
LEMMA OpenStreams ==
    ASSUME IndInv, StreamInv, NEW s \in Streams, NEW w \in DOMAIN roots, StreamOpen(s, w)
    PROVE  StreamInv'
<1> DEFINE pinned(z) == streams[z].held /\ Protected(streams[z].at)
<1>1. /\ PinVersion(w)
      /\ streams' = [z \in Streams |->
            IF z = s
            THEN [phase |-> "open", at |-> w, got |-> << >>, held |-> w >= horizon]
            ELSE [streams[z] EXCEPT !.held = pinned(z)]]
  BY DEF StreamOpen
<1>2. /\ up' = up /\ lineage' = lineage /\ horizon' = horizon /\ pin' = w
      /\ Committed' = Committed /\ up
  BY <1>1 DEF PinVersion, ghosts, backend, Committed, Ready
<1>3. w \in Committed /\ w \in Nat /\ w # None /\ horizon \in Nat
  BY NoneAssumption DEF IndInv, CoreInv, RecordsPast, TypeOK
<1> DEFINE safe == w >= horizon
<1>4. PICK z : z = streams'[s] /\ z = [phase |-> "open", at |-> w, got |-> << >>, held |-> safe]
  BY <1>1
<1>5. StreamOK(z)'
  <2>0. z.phase = "open" /\ z.at = w /\ z.got = << >>
    BY <1>4
  <2>1. ASSUME z.held PROVE horizon =< w
    <3>1. safe
      <4> HIDE DEF safe
      <4> QED
        BY <1>4, <2>1
    <3> QED
      BY <1>3, <3>1
  <2>2. IsStream(z)
    BY <1>3, <1>4 DEF IsStream
  <2>3. HasFirst(lineage[w].val, << >>)
    <3>1. DOMAIN Restrict(lineage[w].val, {}) = {}
      BY DEF Restrict
    <3>2. /\ InPathOrder(Restrict(lineage[w].val, {})) \in
                Seq({Leaf(Restrict(lineage[w].val, {}), x) :
                        x \in DOMAIN Restrict(lineage[w].val, {})})
          /\ Len(InPathOrder(Restrict(lineage[w].val, {}))) = 0
      BY <3>1, Listed, FS_EmptySet
    <3>3. InPathOrder(Restrict(lineage[w].val, {})) = << >>
      BY <3>2, EmptySeq
    <3> QED
      BY <3>3 DEF HasFirst, Closed
  <2>4. pin' # None /\ pin' =< w /\ up' /\ w \in Committed'
    BY <1>2, <1>3
  <2> QED
    BY <1>2, <2>0, <2>1, <2>2, <2>3, <2>4 DEF StreamOK
<1>6. ASSUME NEW u \in Streams, u # s PROVE \E y : y = streams'[u] /\ StreamOK(y)'
  <2>1. PICK x, h : x = streams[u] /\ h = pinned(u)
    OBVIOUS
  <2>2. StreamOK(x)
    BY <2>1 DEF StreamInv
  <2>3. x.held \in BOOLEAN
    BY <2>2 DEF StreamOK, IsStream
  <2>4. h \in BOOLEAN /\ (h => x.held /\ pin' # None /\ pin' =< x.at)
    BY <2>1, <2>3 DEF Protected
  <2>5. StreamOK([x EXCEPT !.held = h])'
    BY <1>1, <2>2, <2>4, PinMoves
  <2>6. [x EXCEPT !.held = h] = streams'[u]
    BY <1>1, <1>6, <2>1
  <2> QED
    BY <2>5, <2>6
<1>7. DOMAIN streams' = Streams
  BY <1>1
<1> QED
  BY <1>4, <1>5, <1>6, <1>7, StreamsPrimed

\* The caller of a stream releases the pin.
LEMMA CloseStreams ==
    ASSUME IndInv, StreamInv, NEW s \in Streams, StreamClose(s)
    PROVE  StreamInv'
<1>1. /\ PinVersion(None)
      /\ streams' = [z \in Streams |->
            IF z = s THEN NoStream ELSE [streams[z] EXCEPT !.held = FALSE]]
  BY DEF StreamClose
<1>2. ASSUME NEW u \in Streams, u # s PROVE \E y : y = streams'[u] /\ StreamOK(y)'
  <2>1. PICK x : x = streams[u]
    OBVIOUS
  <2>2. StreamOK(x)
    BY <2>1 DEF StreamInv
  <2>3. StreamOK([x EXCEPT !.held = FALSE])'
    BY <1>1, <2>2, PinMoves
  <2> QED
    BY <1>1, <1>2, <2>1, <2>3
<1>3. DOMAIN streams' = Streams /\ streams'[s] = NoStream
  BY <1>1
<1> QED
  BY <1>2, <1>3, NoStreamOK, StreamsPrimed

\* A crash loses the streams.
LEMMA CrashStreams ==
    ASSUME SnapshotCrash
    PROVE  StreamInv'
<1>1. streams' = [s \in Streams |-> NoStream]
  BY DEF SnapshotCrash
<1> QED
  BY <1>1, NoStreamOK, StreamsPrimed

\* A chunk is read: the stream has more of the first leaves, is complete when it
\* has them all, and fails only if it is not protected.
LEMMA ReadStreams ==
    ASSUME IndInv, ReadInv, StreamInv, NEW s \in Streams, StreamRead(s)
    PROVE  StreamInv'
<1>1. PICK x : x = streams[s]
  OBVIOUS
<1>2. PICK r : /\ r = SnapshotLeaves(x.at, IF x.got = << >> THEN None ELSE Last(x.got).path)
               /\ streams' = [streams EXCEPT
                     ![s].got = x.got \o r.out,
                     ![s].phase = CASE r.st # "found" -> "failed"
                                    [] r.done -> "complete"
                                    [] OTHER  -> "open"]
               /\ x.phase = "open" /\ UNCHANGED vars
  BY <1>1 DEF StreamRead
<1>3. PICK z : z = streams'[s]
  OBVIOUS
<1>4. /\ StreamOK(x)
      /\ x \in [phase : {"idle", "open", "complete", "failed"}, at : Nat, got : {x.got},
                held : BOOLEAN]
      /\ DOMAIN streams = Streams
  BY <1>1 DEF StreamInv, StreamOK, IsStream
<1>5. /\ DOMAIN streams' = Streams
      /\ \A u \in Streams : u # s => streams'[u] = streams[u]
      /\ z = [x EXCEPT !.got = x.got \o r.out,
                       !.phase = CASE r.st # "found" -> "failed"
                                   [] r.done -> "complete"
                                   [] OTHER  -> "open"]
  BY <1>1, <1>2, <1>3, <1>4
<1>6. /\ z.at = x.at /\ z.held = x.held /\ z.got = x.got \o r.out
      /\ z.phase = CASE r.st # "found" -> "failed"
                     [] r.done -> "complete"
                     [] OTHER  -> "open"
      /\ IsStream(z)
  BY <1>4, <1>5 DEF IsStream
<1>7. /\ up /\ x.at \in Committed /\ HasFirst(lineage[x.at].val, x.got)
      /\ x.held => pin # None /\ pin =< x.at /\ horizon =< x.at
  BY <1>2, <1>4 DEF StreamOK
<1>8. /\ HasFirst(lineage[x.at].val, x.got \o r.out)
      /\ r.st = "found" /\ r.done => x.got \o r.out = InPathOrder(lineage[x.at].val)
      /\ r.st # "found" => ~r.done /\ x.at \notin Retained
  BY <1>2, <1>7, ChunkAppended
<1>9. /\ r.st # "found" => z.phase = "failed"
      /\ r.st = "found" => (r.done => z.phase = "complete") /\ (~r.done => z.phase = "open")
      /\ z.phase # "idle"
  <2>1. CASE r.st # "found"
    <3>1. z.phase = "failed"
      BY <1>6, <1>8, <2>1
    <3> QED
      BY <2>1, <3>1
  <2>2. CASE r.st = "found" /\ r.done
    <3>1. z.phase = "complete"
      BY <1>6, <2>2
    <3> QED
      BY <2>2, <3>1
  <2>3. CASE r.st = "found" /\ ~r.done
    <3>1. z.phase = "open"
      BY <1>6, <2>3
    <3> QED
      BY <2>3, <3>1
  <2> QED
    BY <2>1, <2>2, <2>3
<1>10. x.held => x.at \in Retained
  BY <1>4, <1>7 DEF Retained, IndInv, CoreInv, TypeOK
<1>11. StreamOK(z)
  BY <1>6, <1>7, <1>8, <1>9, <1>10 DEF StreamOK
<1>12. /\ up' = up /\ lineage' = lineage /\ horizon' = horizon /\ pin' = pin
       /\ Committed' = Committed
  BY <1>2 DEF vars, backend, memory, ghosts, Committed
<1>13. ASSUME NEW u \in Streams PROVE \E y : y = streams'[u] /\ StreamOK(y)'
  <2>1. PICK y : y = streams'[u]
    OBVIOUS
  <2>2. StreamOK(y)
    BY <1>3, <1>5, <1>11, <2>1 DEF StreamInv
  <2>3. StreamOK(y)'
    BY <1>12, <2>2 DEF StreamOK
  <2> QED
    BY <2>1, <2>3
<1> QED
  BY <1>5, <1>13, StreamsPrimed

-----------------------------------------------------------------------------
(* The theorems.                                                            *)

\* A step of the store with its streams is a step of the store.
LEMMA SnapshotStep == IndInv /\ [SnapshotNext]_svars => [Next]_vars
<1> SUFFICES ASSUME IndInv, [SnapshotNext]_svars PROVE [Next]_vars
  OBVIOUS
<1>1. CASE StoreStep
  BY <1>1 DEF StoreStep, Next
<1>2. CASE SnapshotCrash
  BY <1>2 DEF SnapshotCrash, Next
<1>3. ASSUME NEW s \in Streams, NEW w \in DOMAIN roots, StreamOpen(s, w) PROVE Next
  <2>1. PinVersion(w) /\ up
    BY <1>3 DEF StreamOpen, PinVersion, Ready
  <2>2. w \in 0 .. version
    BY <2>1 DEF IndInv, CoreInv, RecordsPast, Committed, CheckpointCurrent
  <2> QED
    BY <2>1, <2>2 DEF Next
<1>4. ASSUME NEW s \in Streams, StreamRead(s) PROVE UNCHANGED vars
  BY <1>4 DEF StreamRead
<1>5. ASSUME NEW s \in Streams, StreamClose(s) PROVE Next
  BY <1>5 DEF StreamClose, Next
<1>6. CASE UNCHANGED svars
  BY <1>6 DEF svars
<1> QED
  BY <1>1, <1>2, <1>3, <1>4, <1>5, <1>6 DEF SnapshotNext

\* The streams start idle.
LEMMA InitStreams == SnapshotInit => StreamInv
<1> SUFFICES ASSUME streams = [s \in Streams |-> NoStream] PROVE StreamInv
  BY DEF SnapshotInit
<1> QED
  BY NoStreamOK DEF StreamInv

\* Every step keeps the streams as they should be.
LEMMA NextStreams ==
    IndInv /\ ReadInv /\ StreamInv /\ [SnapshotNext]_svars => StreamInv'
<1> SUFFICES ASSUME IndInv, ReadInv, StreamInv, [SnapshotNext]_svars PROVE StreamInv'
  OBVIOUS
<1>1. CASE StoreStep
  BY <1>1, StoreStreams
<1>2. CASE SnapshotCrash
  BY <1>2, CrashStreams
<1>3. CASE \E s \in Streams : \E w \in DOMAIN roots : StreamOpen(s, w)
  BY <1>3, OpenStreams
<1>4. CASE \E s \in Streams : StreamRead(s)
  BY <1>4, ReadStreams
<1>5. CASE \E s \in Streams : StreamClose(s)
  BY <1>5, CloseStreams
<1>6. CASE UNCHANGED svars
  BY <1>6 DEF svars, vars, backend, memory, ghosts, StreamInv, StreamOK, IsStream, Committed
<1> QED
  BY <1>1, <1>2, <1>3, <1>4, <1>5, <1>6 DEF SnapshotNext

\* Exports are invisible to the store: whatever callers stream, the store takes
\* only steps it could take without them, so everything proved about it holds
\* while they do.
THEOREM SnapshotsRefine == SnapshotSpec => Spec
<1>1. SnapshotInit => Init /\ IndInv
  BY InitInv DEF SnapshotInit
<1>2. IndInv /\ [SnapshotNext]_svars => [Next]_vars /\ IndInv'
  BY SnapshotStep, NextInv
<1> QED
  BY <1>1, <1>2, PTL DEF SnapshotSpec, Spec

\* Every open stream has the first leaves of its version, in every reachable
\* state.
THEOREM StreamInvariance == SnapshotSpec => []StreamInv
<1>1. SnapshotSpec => []IndInv /\ []ReadInv
  BY SnapshotsRefine, Invariance, ReadInvariance, PTL
<1> QED
  BY <1>1, InitStreams, NextStreams, PTL DEF SnapshotSpec

\* For any tree, chunk size, number of streams and interleaving of commits,
\* prunes, pins and crashes between two chunks: what a stream has is a prefix
\* of the leaves of its version in path order, and all of them once
\* SnapshotLeaves said done.
THEOREM SnapshotsExact == SnapshotSpec => []SnapshotExact
<1>1. ASSUME IndInv, StreamInv PROVE SnapshotExact
  <2> SUFFICES ASSUME NEW s \in Streams, streams[s].phase # "idle"
               PROVE  \E all \in {InPathOrder(lineage[streams[s].at].val)} :
                        IF streams[s].phase = "complete" THEN streams[s].got = all
                        ELSE IsPrefix(streams[s].got, all)
    BY DEF SnapshotExact
  <2> DEFINE c == lineage[streams[s].at].val
  <2>1. /\ streams[s].at \in Committed
        /\ HasFirst(c, streams[s].got)
        /\ streams[s].phase = "complete" => streams[s].got = InPathOrder(c)
    BY <1>1 DEF StreamInv, StreamOK
  <2>2. Created
    BY <1>1, <2>1 DEF IndInv, CoreInv, EmptyUntilCreated, Committed
  <2>3. DOMAIN c \subseteq Path
    BY <1>1, <2>1, <2>2 DEF IndInv, CoreInv, CheckpointCurrent, IsTree
  <2>4. IsPrefix(streams[s].got, InPathOrder(c))
    BY <2>1, <2>3, PrefixListed DEF HasFirst
  <2> QED
    BY <2>1, <2>4
<1>2. SnapshotSpec => []IndInv
  BY SnapshotsRefine, Invariance, PTL
<1> QED
  BY <1>1, <1>2, StreamInvariance, PTL

\* A stream that the pin protects from its start is never refused a chunk,
\* however many prunes are asked for meanwhile.
THEOREM PinnedStreamsServed == SnapshotSpec => []PinnedStreamServed
<1>1. StreamInv => PinnedStreamServed
  BY DEF StreamInv, StreamOK, PinnedStreamServed
<1> QED
  BY <1>1, StreamInvariance, PTL

-----------------------------------------------------------------------------
(* Which positions the diff of two contents comes to.                       *)

\* diffChildren returns at once at p.
SameAt(c, d, p) ==
    /\ p \in Positions(c) <=> p \in Positions(d)
    /\ p \in Positions(c) => Sub(c, p) = Sub(d, p)

\* The positions of a walk in lockstep: from the root into every slot that
\* differs, and into no other.
Walked(c, d, P) ==
    /\ P \subseteq Prefix
    /\ \A p \in P : ~SameAt(c, d, p)
    /\ ~SameAt(c, d, << >>) => << >> \in P
    /\ \A p \in P, n \in Nibbles :
          Append(p, n) \in Prefix /\ ~SameAt(c, d, Append(p, n)) => Append(p, n) \in P
    /\ \A p \in P : p # << >> => Front(p) \in P

\* The walk comes to the leaf of x.
Met(c, P, x) == \E p \in P : p \in Positions(c) /\ Below(c, p) = {x}

\* A position above a path is one of its prefixes.
LEMMA UnderIs ==
    ASSUME NEW x \in Path, NEW p \in Prefix, Under(x, p)
    PROVE  p = SubSeq(x, 1, Len(p))
<1>1. p \in Seq(Nibbles) /\ Len(p) \in 0 .. Depth /\ Len(p) \in Nat
  BY PrefixSeq
<1>2. x \in Seq(Nibbles) /\ Len(x) = Depth
  BY DepthAssumption DEF Path
<1>3. /\ p = [j \in 1 .. Len(p) |-> p[j]]
      /\ SubSeq(x, 1, Len(p)) = [j \in 1 .. Len(p) |-> x[j]]
  BY <1>1, <1>2
<1> QED
  BY <1>3 DEF Under

\* A leaf is met if the walk follows its path from node to node.
LEMMA WayDown ==
    ASSUME NEW c, DOMAIN c \subseteq Path, NEW P, NEW x \in DOMAIN c,
           \A j \in 0 .. Depth :
              /\ SubSeq(x, 1, j) \in Positions(c)
              /\ j > 0 => SubSeq(x, 1, j - 1) \in P
              => SubSeq(x, 1, j) \in P
    PROVE  Met(c, P, x)
<1> DEFINE q(j) == SubSeq(x, 1, j)
           S == {j \in Nat : j =< Depth => Met(c, P, x) \/ (q(j) \in Positions(c) /\ q(j) \in P)}
<1>1. x \in Path
  OBVIOUS
<1>2. ASSUME NEW j \in 0 .. Depth
      PROVE  /\ q(j) \in Prefix /\ Len(q(j)) = j /\ Under(x, q(j)) /\ x \in Below(c, q(j))
             /\ j < Depth => x[j + 1] \in Nibbles /\ q(j + 1) = Append(q(j), x[j + 1])
  BY <1>1, PathPrefix DEF Below
<1>3. ASSUME NEW j \in 0 .. Depth, q(j) \in Positions(c), q(j) \in P, ~Crowded(c, q(j))
      PROVE  Met(c, P, x)
  <2>1. x \in Below(c, q(j))
    BY <1>2
  <2>2. Below(c, q(j)) = {x}
    BY <1>3, <2>1 DEF Crowded
  <2> QED
    BY <1>3, <2>2 DEF Met
<1>4. 0 \in S
  <2>1. 0 \in 0 .. Depth
    BY DepthAssumption
  <2>2. q(0) = << >>
    BY <1>1 DEF Path
  <2>3. q(0) \in Positions(c)
    BY <1>2, <2>1, <2>2 DEF Positions
  <2> QED
    BY <2>1, <2>3
<1>5. ASSUME NEW j \in Nat, j \in S PROVE j + 1 \in S
  <2> SUFFICES ASSUME j + 1 =< Depth, ~Met(c, P, x)
               PROVE  q(j + 1) \in Positions(c) /\ q(j + 1) \in P
    OBVIOUS
  <2>1. /\ j \in 0 .. Depth /\ j + 1 \in 0 .. Depth /\ j < Depth /\ j + 1 > 0 /\ (j + 1) - 1 = j
    BY DepthAssumption
  <2>2. q(j) \in Positions(c) /\ q(j) \in P
    BY <1>5, <2>1
  <2>3. Crowded(c, q(j))
    BY <1>3, <2>1, <2>2
  <2>4. /\ x[j + 1] \in Nibbles /\ q(j + 1) = Append(q(j), x[j + 1]) /\ q(j) \in Prefix
        /\ x \in Below(c, q(j + 1))
    BY <1>2, <2>1
  <2>5. x[j + 1] \in Kids(c, q(j))
    <3> HIDE DEF q
    <3> QED
      BY <2>4 DEF Kids
  <2>6. q(j + 1) \in Positions(c)
    <3> HIDE DEF q
    <3> QED
      BY <2>3, <2>4, <2>5, KidPosition
  <2> QED
    BY <2>1, <2>2, <2>6
<1>6. Depth \in S
  <2> HIDE DEF S
  <2> QED
    BY <1>4, <1>5, SetInduction, DepthAssumption
<1>7. CASE q(Depth) \in Positions(c) /\ q(Depth) \in P
  <2>1. Depth \in 0 .. Depth
    BY DepthAssumption
  <2>2. ~Crowded(c, q(Depth))
    <3> HIDE DEF q
    <3> QED
      BY <1>2, <2>1, CrowdedShort, DepthAssumption
  <2> QED
    BY <1>3, <1>7, <2>1, <2>2
<1> QED
  BY <1>6, <1>7, DepthAssumption

\* The walk comes to both leaves of a key that changed.
LEMMA ChangedMet ==
    ASSUME NEW c, NEW d, DOMAIN c \subseteq Path, NEW P, Walked(c, d, P),
           NEW x \in DOMAIN c, x \notin DOMAIN d \/ d[x] # c[x]
    PROVE  Met(c, P, x)
<1> DEFINE q(j) == SubSeq(x, 1, j)
<1>1. ASSUME NEW j \in 0 .. Depth, q(j) \in Positions(c) PROVE ~SameAt(c, d, q(j))
  <2> SUFFICES ASSUME Sub(c, q(j)) = Sub(d, q(j)) PROVE FALSE
    BY <1>1 DEF SameAt
  <2>1. x \in Below(c, q(j))
    BY PathPrefix DEF Below
  <2>2. x \in Below(d, q(j)) /\ c[x] = d[x]
    BY <2>1, SubAgree
  <2> QED
    BY <2>2 DEF Below
<1>2. ASSUME NEW j \in 0 .. Depth, q(j) \in Positions(c), j > 0 => q(j - 1) \in P
      PROVE  q(j) \in P
  <2>1. ~SameAt(c, d, q(j))
    BY <1>1, <1>2
  <2>2. CASE j = 0
    <3>1. q(0) = << >>
      BY DEF Path
    <3> QED
      BY <2>1, <2>2, <3>1 DEF Walked
  <2>3. CASE j > 0
    <3>1. j - 1 \in 0 .. Depth /\ j - 1 < Depth /\ (j - 1) + 1 = j
      BY <2>3, DepthAssumption
    <3>2. x[j] \in Nibbles /\ q(j) = Append(q(j - 1), x[j]) /\ q(j) \in Prefix
      BY <3>1, PathPrefix
    <3> HIDE DEF q
    <3> QED
      BY <1>2, <2>1, <2>3, <3>2 DEF Walked
  <2> QED
    BY <2>2, <2>3
<1> QED
  BY <1>2, WayDown

\* The walk comes to both leaves of a key that only moved, or to none.
LEMMA MovedMet ==
    ASSUME NEW c, NEW d, DOMAIN c \subseteq Path, DOMAIN d \subseteq Path,
           NEW P, Walked(c, d, P),
           NEW x \in DOMAIN c, x \in DOMAIN d, d[x] = c[x], Met(d, P, x)
    PROVE  Met(c, P, x)
<1> DEFINE q(j) == SubSeq(x, 1, j)
<1>1. PICK p \in P : p \in Positions(d) /\ Below(d, p) = {x}
  BY DEF Met
<1> DEFINE i == Len(p)
<1>2. /\ p \in Prefix /\ i \in 0 .. Depth /\ i \in Nat /\ Under(x, p) /\ p = q(i)
  BY <1>1, UnderIs, PrefixSeq DEF Walked, Below
<1>3. ASSUME NEW j \in 0 .. Depth
      PROVE  /\ q(j) \in Prefix /\ Len(q(j)) = j /\ Under(x, q(j))
             /\ x \in Below(c, q(j)) /\ x \in Below(d, q(j))
             /\ j < Depth => x[j + 1] \in Nibbles /\ q(j + 1) = Append(q(j), x[j + 1])
  BY PathPrefix DEF Below
<1> HIDE DEF q, i
\* Down to p the walk has come already.
<1>4. ASSUME NEW j \in 0 .. i PROVE q(j) \in P
  <2> DEFINE S == {k \in Nat : k =< i => q(i - k) \in P}
  <2>1. 0 \in S
    BY <1>1, <1>2
  <2>2. ASSUME NEW k \in Nat, k \in S PROVE k + 1 \in S
    <3> SUFFICES ASSUME k + 1 =< i PROVE q(i - (k + 1)) \in P
      OBVIOUS
    <3> DEFINE m == i - (k + 1)
    <3>1. m \in 0 .. Depth /\ m < Depth /\ m + 1 = i - k /\ k =< i
      BY <1>2, DepthAssumption
    <3>2. q(m + 1) \in P /\ q(m + 1) = Append(q(m), x[m + 1]) /\ q(m) \in Prefix /\ x[m + 1] \in Nibbles
      BY <1>3, <2>2, <3>1
    <3>3. q(m + 1) # << >> /\ Front(q(m + 1)) = q(m)
      BY <3>2, FrontAppend
    <3> QED
      BY <3>2, <3>3 DEF Walked
  <2>3. Nat \subseteq S
    <3> HIDE DEF S
    <3> QED
      BY <2>1, <2>2, SetInduction
  <2>4. i - j \in Nat /\ i - j =< i /\ i - (i - j) = j
    BY <1>2
  <2> QED
    BY <2>3, <2>4
\* At p both sides differ; below it the other side has no node.
<1>5. ASSUME NEW j \in 0 .. Depth, j > i, q(j) \in Positions(c) PROVE ~SameAt(c, d, q(j))
  <2>1. j - 1 \in 0 .. Depth /\ j - 1 < Depth /\ (j - 1) + 1 = j /\ j - 1 >= i
    BY <1>2, <1>5, DepthAssumption
  <2>2. q(j) = Append(q(j - 1), x[j]) /\ q(j - 1) \in Prefix /\ x[j] \in Nibbles
    BY <1>3, <2>1
  <2>3. q(j) # << >> /\ Front(q(j)) = q(j - 1)
    BY <2>2, FrontAppend
  <2>4. \A y : Under(y, q(j - 1)) => Under(y, p)
    <3>1. Len(q(j - 1)) = j - 1
      BY <1>3, <2>1
    <3>2. ASSUME NEW k \in 1 .. i PROVE q(j - 1)[k] = p[k]
      <4>1. x \in Seq(Nibbles) /\ Len(x) = Depth
        BY DepthAssumption DEF Path
      <4> QED
        BY <1>2, <2>1, <4>1 DEF q
    <3> QED
      BY <2>1, <3>1, <3>2 DEF Under, i
  <2>5. ~Crowded(d, q(j - 1))
    BY <1>1, <2>4 DEF Crowded, Below
  <2>6. q(j) \notin Positions(d)
    BY <2>3, <2>5 DEF Positions
  <2> QED
    BY <1>5, <2>6 DEF SameAt
<1>6. ASSUME NEW j \in 0 .. Depth, q(j) \in Positions(c), j > 0 => q(j - 1) \in P
      PROVE  q(j) \in P
  <2>1. CASE j =< i
    BY <1>2, <1>4, <2>1
  <2>2. CASE j > i
    <3>1. j - 1 \in 0 .. Depth /\ j - 1 < Depth /\ (j - 1) + 1 = j /\ j > 0
      BY <1>2, <2>2, DepthAssumption
    <3>2. q(j) = Append(q(j - 1), x[j]) /\ q(j) \in Prefix /\ x[j] \in Nibbles
      BY <1>3, <3>1
    <3>3. ~SameAt(c, d, q(j))
      BY <1>5, <1>6, <2>2
    <3> QED
      BY <1>6, <3>1, <3>2, <3>3 DEF Walked
  <2> QED
    BY <1>2, <2>1, <2>2
<1> QED
  BY <1>6, WayDown DEF q

-----------------------------------------------------------------------------
(* What the calls of diffChildren load.                                     *)

\* The child at p of a tree, as a set of at most one.
RefAt(t, p) == IF p \in Positions(t.val) THEN {ChildRef(t, p)} ELSE {}

PairAt(s, t, p) == Pair(p, RefAt(s, p), RefAt(t, p))

AllFound(L) == \A r \in L : r.st = "found"

\* A load finds the node at its position, or misses a record that is gone.
LEMMA RefLoads ==
    ASSUME NEW t, DOMAIN t.val \subseteq Path, Truthful(t), NEW p, NEW C \in SUBSET RefAt(t, p)
    PROVE  /\ C # {} => p \in Positions(t.val)
           /\ \A r \in DiffLoad(p, C) : r = Found(NodeAt(t, p)) \/ (r = Missing /\ ~Whole(t))
           /\ C = RefAt(t, p) /\ p \in Positions(t.val) /\ AllFound(DiffLoad(p, C))
                => DiffLoad(p, C) = {Found(NodeAt(t, p))}
<1> DEFINE n == LoadNode(NodeKey(p, t.ver[p]), Sub(t.val, p))
           e == ChildRef(t, p)
<1>1. C # {} => p \in Positions(t.val) /\ C = {e}
  BY DEF RefAt
<1>2. e.ver = t.ver[p] /\ e.hash = Sub(t.val, p)
  BY DEF ChildRef
<1> HIDE DEF e
<1>3. DiffLoad(p, {e}) = {n}
  BY <1>2 DEF DiffLoad
<1>4. DiffLoad(p, {}) = {}
  BY DEF DiffLoad
<1>5. p \in Positions(t.val) => n = Found(NodeAt(t, p)) \/ (n = Missing /\ ~Whole(t))
  BY LoadAt
<1> HIDE DEF n
<1>6. \A r \in DiffLoad(p, C) : r = Found(NodeAt(t, p)) \/ (r = Missing /\ ~Whole(t))
  BY <1>1, <1>3, <1>4, <1>5
<1>7. ASSUME C = RefAt(t, p), p \in Positions(t.val), AllFound(DiffLoad(p, C))
      PROVE  DiffLoad(p, C) = {Found(NodeAt(t, p))}
  <2>1. C = {e}
    BY <1>7 DEF RefAt, e
  <2>2. n.st = "found"
    BY <1>3, <1>7, <2>1 DEF AllFound
  <2>3. n # Missing
    BY <2>2 DEF Missing
  <2> QED
    BY <1>3, <1>5, <1>7, <2>1, <2>3
<1> QED
  BY <1>1, <1>6, <1>7

\* The node at a position: its kind, its children, its leaf.
LEMMA NodeShape ==
    ASSUME NEW t, NEW p \in Positions(t.val), NEW r, r = Found(NodeAt(t, p))
    PROVE  /\ r.st = "found"
           /\ Crowded(t.val, p) =>
                /\ ~r.out.isLeaf
                /\ r.out.kids = [n \in Kids(t.val, p) |-> ChildRef(t, Append(p, n))]
           /\ ~Crowded(t.val, p) =>
                /\ r.out.isLeaf
                /\ \E x \in DOMAIN t.val : /\ Below(t.val, p) = {x}
                                           /\ r.out = LeafNode(x, t.val[x], t.vv[x])
<1> DEFINE c == t.val
<1>1. r.st = "found" /\ r.out = NodeAt(t, p)
  BY DEF Found
<1>2. CASE Crowded(c, p)
  <2>1. r.out = InternalNode([m \in Kids(c, p) |-> ChildRef(t, Append(p, m))])
    BY <1>1, <1>2 DEF NodeAt
  <2> QED
    BY <1>1, <1>2, <2>1 DEF InternalNode
<1>3. CASE ~Crowded(c, p)
  <2>1. PICK y : y = CHOOSE z \in Below(c, p) : TRUE
    OBVIOUS
  <2>2. Below(c, p) = {y} /\ y \in DOMAIN c
    BY <1>3, <2>1 DEF Crowded, Positions, Below
  <2>3. r.out = LeafNode(y, c[y], t.vv[y])
    BY <1>1, <1>3, <2>1 DEF NodeAt
  <2>4. r.out.isLeaf = TRUE
    BY <2>3 DEF LeafNode
  <2> QED
    BY <1>1, <1>3, <2>2, <2>3, <2>4
<1> QED
  BY <1>2, <1>3

\* The children that a call passes on are those of the tree.
LEMMA KidRefs ==
    ASSUME NEW t, DOMAIN t.val \subseteq Path, Truthful(t), NEW p \in Prefix,
           NEW C \in SUBSET RefAt(t, p), NEW n \in Nibbles
    PROVE  /\ KidOf(DiffLoad(p, C), n) \subseteq RefAt(t, Append(p, n))
           /\ C = RefAt(t, p) /\ AllFound(DiffLoad(p, C))
                => KidOf(DiffLoad(p, C), n) = RefAt(t, Append(p, n))
<1> DEFINE c == t.val
           L == DiffLoad(p, C)
           q == Append(p, n)
           N == Found(NodeAt(t, p))
<1>1. /\ C # {} => p \in Positions(c)
      /\ \A r \in L : r = N \/ (r = Missing /\ ~Whole(t))
      /\ C = RefAt(t, p) /\ p \in Positions(c) /\ AllFound(L) => L = {N}
      /\ C = {} => L = {}
  BY RefLoads DEF DiffLoad
<1>2. q # << >> /\ Front(q) = p
  BY FrontAppend
<1>3. q \in Positions(c) => Crowded(c, p) /\ n \in Kids(c, p) /\ p \in Positions(c)
  <2> SUFFICES ASSUME q \in Positions(c) PROVE Crowded(c, p) /\ n \in Kids(c, p) /\ p \in Positions(c)
    OBVIOUS
  <2>1. Crowded(c, p) /\ Below(c, q) # {}
    BY <1>2 DEF Positions
  <2>2. p = << >> \/ Crowded(c, Front(p))
    <3> SUFFICES ASSUME p # << >> PROVE Crowded(c, Front(p))
      OBVIOUS
    <3>1. p \in Seq(Nibbles) /\ Len(p) \in 0 .. Depth
      BY PrefixSeq
    <3>2. Len(p) > 0
      BY <3>1, EmptySeq
    <3>3. \A y : Under(y, p) => Under(y, Front(p))
      BY <3>1, <3>2 DEF Under, Front
    <3> QED
      BY <2>1, <3>3 DEF Crowded, Below
  <2>3. Below(c, p) # {}
    BY <2>1 DEF Crowded
  <2> QED
    BY <2>1, <2>2, <2>3 DEF Kids, Positions
<1>4. Missing.st # "found"
  BY DEF Missing
<1> HIDE DEF L
<1>5. ASSUME N \in L, p \in Positions(c), Crowded(c, p), n \in Kids(c, p)
      PROVE  N.st = "found" /\ ~N.out.isLeaf /\ n \in DOMAIN N.out.kids
             /\ N.out.kids[n] = ChildRef(t, q) /\ q \in Positions(c)
  <2>1. N.st = "found" /\ ~N.out.isLeaf
        /\ N.out.kids = [m \in Kids(c, p) |-> ChildRef(t, Append(p, m))]
    <3> HIDE DEF N
    <3> QED
      BY <1>5, NodeShape DEF N
  <2> HIDE DEF N
  <2> QED
    BY <1>5, <2>1, KidPosition
<1>6. ASSUME NEW e \in KidOf(L, n) PROVE e \in RefAt(t, q)
  <2>1. PICK r \in L : /\ r.st = "found" /\ ~r.out.isLeaf /\ n \in DOMAIN r.out.kids
                       /\ e = r.out.kids[n]
    BY <1>6 DEF KidOf
  <2>2. r = N
    BY <1>1, <1>4, <2>1
  <2>3. p \in Positions(c)
    BY <1>1
  <2>4. Crowded(c, p)
    BY <2>1, <2>2, <2>3, NodeShape
  <2>5. n \in Kids(c, p)
    <3>1. r.out.kids = [m \in Kids(c, p) |-> ChildRef(t, Append(p, m))]
      BY <2>2, <2>3, <2>4, NodeShape
    <3> QED
      BY <2>1, <3>1
  <2>6. e = ChildRef(t, q) /\ q \in Positions(c)
    BY <1>5, <2>1, <2>2, <2>3, <2>4, <2>5
  <2> QED
    BY <2>6 DEF RefAt
<1>7. ASSUME C = RefAt(t, p), AllFound(L), NEW e \in RefAt(t, q) PROVE e \in KidOf(L, n)
  <2>1. q \in Positions(c) /\ e = ChildRef(t, q)
    BY <1>7 DEF RefAt
  <2>2. L = {N} /\ p \in Positions(c) /\ Crowded(c, p) /\ n \in Kids(c, p)
    BY <1>1, <1>3, <1>7, <2>1
  <2>3. N \in L /\ N.st = "found" /\ ~N.out.isLeaf /\ n \in DOMAIN N.out.kids
        /\ N.out.kids[n] = ChildRef(t, q)
    BY <1>5, <2>2
  <2> HIDE DEF N
  <2> QED
    BY <2>1, <2>3 DEF KidOf
<1>8. /\ KidOf(L, n) \subseteq RefAt(t, q)
      /\ C = RefAt(t, p) /\ AllFound(L) => KidOf(L, n) = RefAt(t, q)
  <2> HIDE DEF q
  <2> QED
    BY <1>6, <1>7
<1> QED
  BY <1>8 DEF L

\* The leaf that a call collects is the one leaf below its position.
LEMMA LeafRefs ==
    ASSUME NEW t, DOMAIN t.val \subseteq Path, Truthful(t), NEW p,
           AllFound(DiffLoad(p, RefAt(t, p)))
    PROVE  LeafOf(DiffLoad(p, RefAt(t, p))) =
              {LeafNode(x, t.val[x], t.vv[x]) :
                  x \in {y \in DOMAIN t.val : p \in Positions(t.val) /\ Below(t.val, p) = {y}}}
<1> DEFINE c == t.val
           L == DiffLoad(p, RefAt(t, p))
           N == Found(NodeAt(t, p))
           F(x) == LeafNode(x, c[x], t.vv[x])
<1>1. CASE p \notin Positions(c)
  <2>1. L = {}
    BY <1>1 DEF RefAt, DiffLoad
  <2> QED
    BY <1>1, <2>1 DEF LeafOf
<1>2. CASE p \in Positions(c) /\ Crowded(c, p)
  <2>1. L = {N}
    BY <1>2, RefLoads
  <2>2. ~N.out.isLeaf
    BY <1>2, NodeShape
  <2>3. LeafOf(L) = {}
    <3> HIDE DEF N, L
    <3> QED
      BY <2>1, <2>2 DEF LeafOf
  <2>4. \A y : Below(c, p) # {y}
    BY <1>2 DEF Crowded
  <2> HIDE DEF L
  <2> QED
    BY <2>3, <2>4 DEF L
<1>3. CASE p \in Positions(c) /\ ~Crowded(c, p)
  <2>1. L = {N}
    BY <1>3, RefLoads
  <2>2. PICK x \in DOMAIN c : Below(c, p) = {x} /\ N.out = F(x)
    BY <1>3, NodeShape
  <2>3. N.st = "found" /\ N.out.isLeaf
    BY <1>3, NodeShape
  <2>4. LeafOf(L) = {F(x)}
    <3> HIDE DEF N, L, F
    <3> QED
      BY <2>1, <2>2, <2>3 DEF LeafOf
  <2>5. \A y : Below(c, p) = {y} <=> y = x
    BY <2>2
  <2> HIDE DEF L, F
  <2>6. {F(y) : y \in {z \in DOMAIN c : p \in Positions(c) /\ Below(c, p) = {z}}} = {F(x)}
    BY <1>3, <2>5
  <2> QED
    BY <2>4, <2>6 DEF L, F
<1> QED
  BY <1>1, <1>2, <1>3

\* diffChildren returns at once exactly if the positions are the same.
LEMMA SamePair ==
    ASSUME NEW s, NEW t, NEW p
    PROVE  Same(PairAt(s, t, p)) <=> SameAt(s.val, t.val, p)
<1> DEFINE H(u) == {c.hash : c \in RefAt(u, p)}
<1>1. ASSUME NEW u PROVE H(u) = IF p \in Positions(u.val) THEN {Sub(u.val, p)} ELSE {}
  <2>1. ChildRef(u, p).hash = Sub(u.val, p)
    BY DEF ChildRef
  <2> QED
    BY <2>1 DEF RefAt
<1>2. Same(PairAt(s, t, p)) <=> H(s) = H(t)
  BY DEF Same, PairAt, Pair
<1> HIDE DEF H
<1> QED
  BY <1>1, <1>2 DEF SameAt

-----------------------------------------------------------------------------
(* The calls of a diff.                                                     *)

BelowLevel(V) == UNION {SlotPairs(v) : v \in V}

\* The recursive definition of the levels has a solution.
LEMMA DiffLevels ==
    ASSUME NEW a, NEW b
    PROVE  \E g : /\ g[0] = {v \in {Pair(<< >>, a, b)} : ~Same(v)}
                  /\ \A i \in 1 .. Depth : g[i] = BelowLevel(g[i - 1])
                  /\ DiffChildren(a, b) = UNION {g[i] : i \in 0 .. Depth}
<1> DEFINE R == {v \in {Pair(<< >>, a, b)} : ~Same(v)}
           Loop(g, n) == g = [i \in 0 .. n |-> IF i = 0 THEN R ELSE BelowLevel(g[i - 1])]
           level == CHOOSE g : Loop(g, Depth)
<1>1. \E g : Loop(g, Depth)
  <2> DEFINE S == {n \in Nat : \E g : Loop(g, n)}
  <2>1. 0 \in S
    <3> DEFINE g == [i \in 0 .. 0 |-> R]
    <3>1. Loop(g, 0)
      OBVIOUS
    <3> QED
      BY <3>1
  <2>2. ASSUME NEW n \in Nat, n \in S PROVE n + 1 \in S
    <3>1. PICK g : Loop(g, n)
      BY <2>2
    <3> DEFINE h == [i \in 0 .. n + 1 |-> IF i = n + 1 THEN BelowLevel(g[n]) ELSE g[i]]
    <3>2. ASSUME NEW i \in 0 .. n + 1
          PROVE  h[i] = IF i = 0 THEN R ELSE BelowLevel(h[i - 1])
      <4> HIDE DEF R
      <4>1. CASE i = n + 1
        <5>1. i - 1 = n /\ i # 0 /\ n # n + 1 /\ n \in 0 .. n + 1
          BY <4>1
        <5>2. h[n] = g[n]
          BY <5>1
        <5> QED
          BY <4>1, <5>1, <5>2
      <4>2. CASE i # n + 1
        <5>1. i \in 0 .. n /\ h[i] = g[i]
          BY <4>2
        <5>2. i # 0 => /\ i - 1 \in 0 .. n + 1 /\ i - 1 # n + 1
                       /\ h[i - 1] = g[i - 1]
          BY <5>1
        <5>3. g[i] = IF i = 0 THEN R ELSE BelowLevel(g[i - 1])
          BY <3>1, <5>1
        <5> QED
          BY <5>1, <5>2, <5>3
      <4> QED
        BY <4>1, <4>2
    <3>3. Loop(h, n + 1)
      <4>1. h = [i \in 0 .. n + 1 |-> h[i]]
        OBVIOUS
      <4> HIDE DEF h, R
      <4> QED
        BY <3>2, <4>1
    <3> QED
      <4> HIDE DEF Loop, h
      <4> QED
        BY <3>3
  <2>3. Nat \subseteq S
    <3> HIDE DEF S
    <3> QED
      BY <2>1, <2>2, SetInduction
  <2> HIDE DEF Loop
  <2>4. Depth \in S
    BY <2>3, DepthAssumption
  <2> QED
    BY <2>4
<1>2. Loop(level, Depth)
  <2> HIDE DEF Loop
  <2> QED
    BY <1>1
<1>3. DiffChildren(a, b) = UNION {level[i] : i \in 0 .. Depth}
  BY DEF DiffChildren, BelowLevel
<1> HIDE DEF level
<1>4. level[0] = R
  <2> HIDE DEF R
  <2> QED
    BY <1>2, DepthAssumption
<1>5. ASSUME NEW i \in 1 .. Depth PROVE level[i] = BelowLevel(level[i - 1])
  <2>1. i \in 0 .. Depth /\ i # 0
    BY DepthAssumption
  <2> HIDE DEF R
  <2> QED
    BY <1>2, <2>1
<1> QED
  BY <1>3, <1>4, <1>5

\* A call has children of the two trees at its position, i nibbles deep.
PairSound(s, t, i, v) ==
    /\ v.at \in Prefix /\ Len(v.at) = i
    /\ v = Pair(v.at, v.old, v.new)
    /\ v.old \subseteq RefAt(s, v.at)
    /\ v.new \subseteq RefAt(t, v.at)
    /\ ~Same(v)

\* So have the calls it makes.
LEMMA SlotsSound ==
    ASSUME NEW s, DOMAIN s.val \subseteq Path, Truthful(s),
           NEW t, DOMAIN t.val \subseteq Path, Truthful(t),
           NEW i \in Nat, NEW v, PairSound(s, t, i, v), NEW u \in SlotPairs(v)
    PROVE  /\ PairSound(s, t, i + 1, u)
           /\ u.at # << >> /\ Front(u.at) = v.at
           /\ v = PairAt(s, t, v.at) /\ AllFound(OldLoad(v)) /\ AllFound(NewLoad(v))
                => u = PairAt(s, t, u.at)
<1> DEFINE p == v.at
<1>1. PICK n \in Nibbles :
        u = Pair(Append(p, n), KidOf(OldLoad(v), n), KidOf(NewLoad(v), n)) /\ ~Same(u)
  BY DEF SlotPairs
<1> DEFINE q == Append(p, n)
<1>2. p \in Prefix /\ Len(p) = i /\ v.old \subseteq RefAt(s, p) /\ v.new \subseteq RefAt(t, p)
  BY DEF PairSound
<1>3. /\ u.at = q /\ u.old = KidOf(OldLoad(v), n) /\ u.new = KidOf(NewLoad(v), n)
      /\ u = Pair(u.at, u.old, u.new)
  BY <1>1 DEF Pair
<1>4. /\ u.old \subseteq RefAt(s, q)
      /\ v.old = RefAt(s, p) /\ AllFound(OldLoad(v)) => u.old = RefAt(s, q)
  BY <1>2, <1>3, KidRefs DEF OldLoad
<1>5. /\ u.new \subseteq RefAt(t, q)
      /\ v.new = RefAt(t, p) /\ AllFound(NewLoad(v)) => u.new = RefAt(t, q)
  BY <1>2, <1>3, KidRefs DEF NewLoad
<1>6. q # << >> /\ Front(q) = p /\ Len(q) = i + 1
  BY <1>2, FrontAppend, PrefixSeq
<1>7. q \in Prefix
  <2>1. u.old # {} \/ u.new # {}
    BY <1>1 DEF Same
  <2> HIDE DEF q
  <2> QED
    BY <1>4, <1>5, <2>1 DEF RefAt, Positions
<1>8. PairSound(s, t, i + 1, u)
  <2> HIDE DEF q
  <2> QED
    BY <1>1, <1>3, <1>4, <1>5, <1>6, <1>7 DEF PairSound
<1>9. ASSUME v = PairAt(s, t, p), AllFound(OldLoad(v)), AllFound(NewLoad(v))
      PROVE  u = PairAt(s, t, q)
  <2>1. v.old = RefAt(s, p) /\ v.new = RefAt(t, p)
    BY <1>9 DEF PairAt, Pair
  <2> HIDE DEF q
  <2> QED
    BY <1>3, <1>4, <1>5, <1>9, <2>1 DEF PairAt
<1> HIDE DEF q
<1> QED
  BY <1>3, <1>6, <1>8, <1>9

\* A diff makes sound calls; if every node loads, they are exactly the pairs of
\* a walk in lockstep.
LEMMA DiffWalk ==
    ASSUME NEW s, DOMAIN s.val \subseteq Path, Truthful(s),
           NEW t, DOMAIN t.val \subseteq Path, Truthful(t),
           NEW D, D = DiffChildren(RefAt(s, << >>), RefAt(t, << >>))
    PROVE  /\ \A v \in D : PairSound(s, t, Len(v.at), v)
           /\ (\A v \in D : AllFound(OldLoad(v)) /\ AllFound(NewLoad(v))) =>
                /\ \A v \in D : v = PairAt(s, t, v.at)
                /\ Walked(s.val, t.val, {v.at : v \in D})
<1> DEFINE top == PairAt(s, t, << >>)
           P == {v.at : v \in D}
<1>1. PICK g : /\ g[0] = {v \in {top} : ~Same(v)}
               /\ \A i \in 1 .. Depth : g[i] = BelowLevel(g[i - 1])
               /\ D = UNION {g[i] : i \in 0 .. Depth}
  BY DiffLevels DEF PairAt
<1>2. top.at = << >> /\ << >> \in Prefix /\ Len(<< >>) = 0 /\ top = Pair(top.at, top.old, top.new)
      /\ top.old = RefAt(s, << >>) /\ top.new = RefAt(t, << >>)
  BY DepthAssumption DEF PairAt, Pair, Prefix
<1> HIDE DEF top
<1>3. \A i \in 0 .. Depth : \A v \in g[i] : PairSound(s, t, i, v)
  <2> DEFINE S == {i \in Nat : i =< Depth => \A v \in g[i] : PairSound(s, t, i, v)}
  <2>1. 0 \in S
    BY <1>1, <1>2 DEF PairSound
  <2>2. ASSUME NEW i \in Nat, i \in S PROVE i + 1 \in S
    <3> SUFFICES ASSUME i + 1 =< Depth, NEW u \in g[i + 1] PROVE PairSound(s, t, i + 1, u)
      OBVIOUS
    <3>1. i =< Depth /\ i + 1 \in 1 .. Depth /\ (i + 1) - 1 = i
      BY DepthAssumption
    <3>2. PICK v \in g[i] : u \in SlotPairs(v)
      BY <1>1, <3>1 DEF BelowLevel
    <3>3. PairSound(s, t, i, v)
      BY <2>2, <3>1, <3>2
    <3> QED
      BY <3>2, <3>3, SlotsSound
  <2>3. Nat \subseteq S
    <3> HIDE DEF S
    <3> QED
      BY <2>1, <2>2, SetInduction
  <2> QED
    BY <2>3, DepthAssumption
<1>4. ASSUME NEW v \in D PROVE PairSound(s, t, Len(v.at), v) /\ v \in g[Len(v.at)] /\ Len(v.at) \in 0 .. Depth
  <2>1. PICK i \in 0 .. Depth : v \in g[i]
    BY <1>1
  <2>2. PairSound(s, t, i, v)
    BY <1>3, <2>1
  <2>3. Len(v.at) = i
    BY <2>2 DEF PairSound
  <2> QED
    BY <2>1, <2>2, <2>3
<1>5. ASSUME \A v \in D : AllFound(OldLoad(v)) /\ AllFound(NewLoad(v))
      PROVE  \A v \in D : v = PairAt(s, t, v.at)
  <2> DEFINE S == {i \in Nat : i =< Depth => \A v \in g[i] : v = PairAt(s, t, v.at)}
  <2>1. 0 \in S
    BY <1>1, <1>2 DEF top
  <2>2. ASSUME NEW i \in Nat, i \in S PROVE i + 1 \in S
    <3> SUFFICES ASSUME i + 1 =< Depth, NEW u \in g[i + 1] PROVE u = PairAt(s, t, u.at)
      OBVIOUS
    <3>1. i =< Depth /\ i \in 0 .. Depth /\ i + 1 \in 1 .. Depth /\ (i + 1) - 1 = i
      BY DepthAssumption
    <3>2. PICK v \in g[i] : u \in SlotPairs(v)
      BY <1>1, <3>1 DEF BelowLevel
    <3>3. PairSound(s, t, i, v) /\ v \in D /\ v = PairAt(s, t, v.at)
      BY <1>1, <1>3, <2>2, <3>1, <3>2
    <3> QED
      BY <1>5, <3>2, <3>3, SlotsSound
  <2>3. Nat \subseteq S
    <3> HIDE DEF S
    <3> QED
      BY <2>1, <2>2, SetInduction
  <2>4. ASSUME NEW v \in D PROVE v = PairAt(s, t, v.at)
    BY <1>1, <2>3, DepthAssumption
  <2> QED
    BY <2>4
<1>6. ASSUME \A v \in D : AllFound(OldLoad(v)) /\ AllFound(NewLoad(v))
      PROVE  Walked(s.val, t.val, P)
  <2>1. P \subseteq Prefix
    BY <1>4 DEF PairSound
  <2>2. ASSUME NEW p \in P PROVE PairAt(s, t, p) \in D /\ ~SameAt(s.val, t.val, p)
    <3>1. PICK v \in D : v.at = p
      OBVIOUS
    <3>2. v = PairAt(s, t, p) /\ ~Same(v)
      BY <1>4, <1>5, <1>6, <3>1 DEF PairSound
    <3> QED
      BY <3>1, <3>2, SamePair
  <2>3. ASSUME ~SameAt(s.val, t.val, << >>) PROVE << >> \in P
    <3>1. ~Same(top)
      BY <2>3, SamePair DEF top
    <3>2. top \in g[0] /\ 0 \in 0 .. Depth
      BY <1>1, <3>1, DepthAssumption
    <3>3. top \in D
      BY <1>1, <3>2
    <3> QED
      BY <1>2, <3>3
  <2>4. ASSUME NEW p \in P, NEW n \in Nibbles, Append(p, n) \in Prefix,
               ~SameAt(s.val, t.val, Append(p, n))
        PROVE  Append(p, n) \in P
    <3> DEFINE v == PairAt(s, t, p)
               q == Append(p, n)
               u == PairAt(s, t, q)
               i == Len(p)
    <3>1. v \in D /\ v.at = p /\ v.old = RefAt(s, p) /\ v.new = RefAt(t, p) /\ p \in Prefix
      BY <2>1, <2>2 DEF PairAt, Pair
    <3>2. v \in g[i] /\ i \in 0 .. Depth
      BY <1>4, <3>1
    <3>3. Len(q) = i + 1 /\ Len(q) \in 0 .. Depth
      <4>1. p \in Seq(Nibbles)
        BY <3>1, PrefixSeq
      <4>2. Len(q) = i + 1
        BY <4>1
      <4> QED
        BY <2>4, <4>2, PrefixSeq
    <3>4. i + 1 \in 1 .. Depth /\ (i + 1) - 1 = i
      BY <3>2, <3>3, DepthAssumption
    <3>5. KidOf(OldLoad(v), n) = RefAt(s, q)
      <4> HIDE DEF v
      <4> QED
        BY <1>6, <3>1, KidRefs DEF OldLoad
    <3>6. KidOf(NewLoad(v), n) = RefAt(t, q)
      <4> HIDE DEF v
      <4> QED
        BY <1>6, <3>1, KidRefs DEF NewLoad
    <3>7. ~Same(u)
      BY <2>4, SamePair
    <3>8. u = Pair(Append(v.at, n), KidOf(OldLoad(v), n), KidOf(NewLoad(v), n))
      BY <3>1, <3>5, <3>6 DEF PairAt
    <3>9. u.at = q
      BY DEF PairAt, Pair
    <3> HIDE DEF u, v
    <3>10. u \in SlotPairs(v)
      BY <3>7, <3>8 DEF SlotPairs
    <3>11. u \in g[i + 1]
      BY <1>1, <3>2, <3>4, <3>10 DEF BelowLevel
    <3>12. u \in D
      BY <1>1, <3>4, <3>11
    <3> QED
      BY <3>9, <3>12
  <2>5. ASSUME NEW p \in P, p # << >> PROVE Front(p) \in P
    <3>1. PICK u \in D : u.at = p
      OBVIOUS
    <3> DEFINE i == Len(p)
    <3>2. u \in g[i] /\ i \in 0 .. Depth
      BY <1>4, <3>1
    <3>3. p \in Seq(Nibbles)
      BY <2>1, PrefixSeq
    <3>4. i # 0
      BY <2>5, <3>3, EmptySeq
    <3>5. i \in 1 .. Depth /\ i - 1 \in 0 .. Depth /\ i - 1 \in Nat
      BY <3>2, <3>4, DepthAssumption
    <3>6. PICK v \in g[i - 1] : u \in SlotPairs(v)
      BY <1>1, <3>2, <3>5 DEF BelowLevel
    <3>7. v \in D /\ PairSound(s, t, i - 1, v)
      BY <1>1, <1>3, <3>5, <3>6
    <3>8. Front(u.at) = v.at
      BY <3>5, <3>6, <3>7, SlotsSound
    <3> QED
      BY <3>1, <3>7, <3>8
  <2> HIDE DEF P
  <2> QED
    BY <2>1, <2>2, <2>3, <2>4, <2>5 DEF Walked
<1> QED
  BY <1>4, <1>5, <1>6

\* The leaves that a walk collects on one side.
LEMMA SideLeaves ==
    ASSUME NEW t, DOMAIN t.val \subseteq Path, Truthful(t), NEW P,
           \A p \in P : AllFound(DiffLoad(p, RefAt(t, p)))
    PROVE  UNION {LeafOf(DiffLoad(p, RefAt(t, p))) : p \in P} =
              {LeafNode(x, t.val[x], t.vv[x]) : x \in {y \in DOMAIN t.val : Met(t.val, P, y)}}
<1> DEFINE F(x) == LeafNode(x, t.val[x], t.vv[x])
           L(p) == LeafOf(DiffLoad(p, RefAt(t, p)))
           M(p) == {y \in DOMAIN t.val : p \in Positions(t.val) /\ Below(t.val, p) = {y}}
<1>1. \A p \in P : L(p) = {F(x) : x \in M(p)}
  BY LeafRefs
<1> HIDE DEF L, F
<1>2. UNION {L(p) : p \in P} = {F(x) : x \in {y \in DOMAIN t.val : Met(t.val, P, y)}}
  BY <1>1 DEF Met
<1> QED
  BY <1>2 DEF L, F

\* What ChangesAt makes of the collected leaves: the keys that changed.
LEMMA DiffChanges ==
    ASSUME NEW s, DOMAIN s.val \subseteq Path, Truthful(s),
           NEW t, DOMAIN t.val \subseteq Path, Truthful(t),
           NEW D, D = DiffChildren(RefAt(s, << >>), RefAt(t, << >>)),
           \A v \in D : AllFound(OldLoad(v)) /\ AllFound(NewLoad(v))
    PROVE  /\ Written(D) = {LeafNode(x, t.val[x], t.vv[x]) :
                              x \in {y \in DOMAIN t.val \ {HistoryPath} :
                                        y \notin DOMAIN s.val \/ s.val[y] # t.val[y]}}
           /\ Gone(D) = (DOMAIN s.val \ DOMAIN t.val) \ {HistoryPath}
<1> DEFINE c == s.val
           d == t.val
           P == {v.at : v \in D}
           F(x) == LeafNode(x, c[x], s.vv[x])
           G(x) == LeafNode(x, d[x], t.vv[x])
           Old == {y \in DOMAIN c : Met(c, P, y)}
           New == {y \in DOMAIN d : Met(d, P, y)}
<1>1. Walked(c, d, P) /\ \A v \in D : v = PairAt(s, t, v.at)
  BY DiffWalk
<1>2. Walked(d, c, P)
  <2>1. \A p : SameAt(c, d, p) <=> SameAt(d, c, p)
    BY DEF SameAt
  <2> HIDE DEF P
  <2> QED
    BY <1>1, <2>1 DEF Walked
<1>3. \A v \in D : v.old = RefAt(s, v.at) /\ v.new = RefAt(t, v.at)
  BY <1>1 DEF PairAt, Pair
<1>4. OldLeaves(D) = {F(x) : x \in Old}
  <2>1. OldLeaves(D) = UNION {LeafOf(DiffLoad(p, RefAt(s, p))) : p \in P}
    BY <1>3 DEF OldLeaves, OldLoad
  <2>2. \A p \in P : AllFound(DiffLoad(p, RefAt(s, p)))
    BY <1>3 DEF OldLoad
  <2> HIDE DEF P
  <2> QED
    BY <2>1, <2>2, SideLeaves
<1>5. NewLeaves(D) = {G(x) : x \in New}
  <2>1. NewLeaves(D) = UNION {LeafOf(DiffLoad(p, RefAt(t, p))) : p \in P}
    BY <1>3 DEF NewLeaves, NewLoad
  <2>2. \A p \in P : AllFound(DiffLoad(p, RefAt(t, p)))
    BY <1>3 DEF NewLoad
  <2> HIDE DEF P
  <2> QED
    BY <2>1, <2>2, SideLeaves
<1>6. /\ \A x : F(x).path = x /\ F(x).val = c[x]
      /\ \A x : G(x).path = x /\ G(x).val = d[x]
  BY DEF LeafNode
<1>7. ASSUME NEW x \in DOMAIN c, x \notin DOMAIN d \/ d[x] # c[x] PROVE x \in Old
  BY <1>1, <1>7, ChangedMet
<1>8. ASSUME NEW x \in DOMAIN d, x \notin DOMAIN c \/ c[x] # d[x] PROVE x \in New
  BY <1>2, <1>8, ChangedMet
<1>9. ASSUME NEW x \in New, x \in DOMAIN c, c[x] = d[x] PROVE x \in Old
  BY <1>1, <1>9, MovedMet
<1>10. ASSUME NEW x \in Old, x \in DOMAIN d, c[x] = d[x] PROVE x \in New
  BY <1>2, <1>10, MovedMet
<1> HIDE DEF P, F, G
<1>11. {l.path : l \in OldLeaves(D)} = Old /\ {l.path : l \in NewLeaves(D)} = New
  <2> HIDE DEF Old, New
  <2> QED
    BY <1>4, <1>5, <1>6
<1> DEFINE X == {y \in DOMAIN d \ {HistoryPath} : y \notin DOMAIN c \/ c[y] # d[y]}
<1>12. Written(D) = {G(x) : x \in X}
  <2>1. ASSUME NEW l \in Written(D) PROVE l \in {G(x) : x \in X}
    <3>1. PICK x \in New : l = G(x)
      BY <1>5, <2>1 DEF Written
    <3>2. x \in DOMAIN d /\ x # HistoryPath
      BY <1>6, <2>1, <3>1 DEF Written
    <3>3. ASSUME x \in DOMAIN c, c[x] = d[x] PROVE FALSE
      <4>1. F(x) \in OldLeaves(D)
        BY <1>4, <1>9, <3>3
      <4>2. F(x).path = l.path /\ F(x).val = l.val
        BY <1>6, <3>1, <3>3
      <4> QED
        BY <2>1, <4>1, <4>2 DEF Written
    <3>4. x \in X
      BY <3>2, <3>3
    <3> HIDE DEF X
    <3> QED
      BY <3>1, <3>4
  <2>2. ASSUME NEW x \in X PROVE G(x) \in Written(D)
    <3>1. x \in New /\ x # HistoryPath
      BY <1>8
    <3>2. G(x) \in NewLeaves(D)
      BY <1>5, <3>1
    <3>3. ASSUME NEW o \in OldLeaves(D), o.path = G(x).path, o.val = G(x).val PROVE FALSE
      <4>1. PICK y \in Old : o = F(y)
        BY <1>4
      <4>2. y = x /\ c[x] = d[x] /\ x \in DOMAIN c
        BY <1>6, <3>3, <4>1
      <4> QED
        BY <4>2
    <3> QED
      BY <1>6, <3>1, <3>2, <3>3 DEF Written
  <2> HIDE DEF X
  <2> QED
    BY <2>1, <2>2
<1>13. Gone(D) = (DOMAIN c \ DOMAIN d) \ {HistoryPath}
  <2>1. Gone(D) = (Old \ New) \ {HistoryPath}
    <3> HIDE DEF Old, New
    <3> QED
      BY <1>11 DEF Gone
  <2>2. ASSUME NEW x PROVE x \in Old \ New <=> x \in DOMAIN c \ DOMAIN d
    BY <1>7, <1>8, <1>10
  <2> HIDE DEF Old, New
  <2> QED
    BY <2>1, <2>2
<1> QED
  BY <1>12, <1>13 DEF G

\* The root child of a committed version, from its root record.
LEMMA RootRefs ==
    ASSUME NEW t, NEW w, IsTree(t, w), IsVersion(t, w), Truthful(t),
           NEW c, c = LoadRootChild(t.val, w)
    PROVE  \/ c = Missing /\ ~Whole(t)
           \/ c.st = "found" /\ RefAt(t, << >>) = IF t.val = Placeholder THEN {} ELSE {c.out}
<1> DEFINE n == LoadNode(NodeKey(<< >>, w), t.val)
<1>1. DOMAIN t.val \subseteq Path
  BY DEF IsTree
<1>2. CASE t.val = Placeholder
  <2>1. c.st = "found"
    BY <1>2 DEF LoadRootChild, Found
  <2>2. << >> \notin Positions(t.val)
    BY <1>2 DEF Positions, Below, Placeholder
  <2> QED
    BY <1>2, <2>1, <2>2 DEF RefAt
<1>3. CASE t.val # Placeholder
  <2>1. << >> \in Positions(t.val) /\ Sub(t.val, << >>) = t.val /\ t.ver[<< >>] = w
    BY <1>3, RootPosition DEF IsVersion
  <2>2. n = Found(NodeAt(t, << >>)) \/ (n = Missing /\ ~Whole(t))
    BY <1>1, <2>1, LoadAt
  <2>3. CASE n = Missing /\ ~Whole(t)
    BY <1>3, <2>3 DEF LoadRootChild, Missing
  <2>4. CASE n = Found(NodeAt(t, << >>))
    <3>1. NodeAt(t, << >>).isLeaf = ~Crowded(t.val, << >>)
      BY DEF NodeAt, LeafNode, InternalNode
    <3>2. ChildRef(t, << >>) = [ver |-> w, hash |-> t.val, isLeaf |-> NodeAt(t, << >>).isLeaf]
      BY <2>1, <3>1 DEF ChildRef
    <3>3. c = Found(ChildRef(t, << >>))
      BY <1>3, <2>4, <3>2 DEF LoadRootChild, Found
    <3> QED
      BY <1>3, <2>1, <3>3 DEF RefAt, Found
  <2> QED
    BY <2>2, <2>3, <2>4
<1> QED
  BY <1>2, <1>3

\* What ChangesAt answers for a version of a store that satisfies the invariants.
LEMMA ChangesAnswer ==
    ASSUME IndInv, ReadInv, up, NEW w \in 1 .. version
    PROVE  \/ ChangesAt(w) = Found(ChangesBetween(lineage[w - 1].val, lineage[w].val))
           \/ ChangesAt(w) = Missing /\ w - 1 < horizon
<1> DEFINE s == lineage[w - 1]
           t == lineage[w]
           a == LoadRootChild(s.val, w - 1)
           b == LoadRootChild(t.val, w)
           D == DiffChildren(RefAt(s, << >>), RefAt(t, << >>))
           bad == DiffErrors(D)
<1>1. /\ Created /\ version = ckpt.version /\ version \in Nat /\ horizon \in Nat
      /\ w \in Nat /\ w - 1 \in Nat /\ w \in Committed /\ w - 1 \in Committed
  BY DEF IndInv, CoreInv, CheckpointCurrent, TypeOK, Committed
<1>2. /\ IsTree(s, w - 1) /\ IsVersion(s, w - 1) /\ Truthful(s) /\ DOMAIN s.val \subseteq Path
      /\ IsTree(t, w) /\ IsVersion(t, w) /\ Truthful(t) /\ DOMAIN t.val \subseteq Path
  BY <1>1 DEF IndInv, CoreInv, CheckpointCurrent, ReadInv, IsTree
<1>3. ~(w - 1 < horizon) => Whole(s) /\ Whole(t) /\ {w - 1, w} \subseteq DOMAIN roots
  <2> SUFFICES ASSUME ~(w - 1 < horizon)
               PROVE  Whole(s) /\ Whole(t) /\ {w - 1, w} \subseteq DOMAIN roots
    OBVIOUS
  <2>1. w - 1 \in Retained /\ w \in Retained
    BY <1>1 DEF Retained
  <2> QED
    BY <2>1 DEF IndInv, CoreInv, RetainedIntact, Whole, RootsKept, HasRoot
<1>4. CASE ~({w - 1, w} \subseteq DOMAIN roots)
  BY <1>3, <1>4 DEF ChangesAt
<1>5. CASE {w - 1, w} \subseteq DOMAIN roots
  <2>1. roots[w - 1] = s.val /\ roots[w] = t.val
    BY <1>5 DEF ReadInv
  <2>2. \/ a = Missing /\ ~Whole(s)
        \/ a.st = "found" /\ RefAt(s, << >>) = IF s.val = Placeholder THEN {} ELSE {a.out}
    BY <1>2, RootRefs
  <2>3. \/ b = Missing /\ ~Whole(t)
        \/ b.st = "found" /\ RefAt(t, << >>) = IF t.val = Placeholder THEN {} ELSE {b.out}
    BY <1>2, RootRefs
  <2>4. Missing.st # "found"
    BY DEF Missing
  <2> HIDE DEF a, b, s, t
  <2>5. CASE a = Missing /\ ~Whole(s)
    <3>1. ChangesAt(w) = Missing
      BY <1>5, <2>1, <2>4, <2>5 DEF ChangesAt, RootLoad, a
    <3> QED
      BY <1>3, <2>5, <3>1
  <2>6. CASE a.st = "found" /\ b = Missing /\ ~Whole(t)
    <3>1. ChangesAt(w) = Missing
      BY <1>5, <2>1, <2>4, <2>6 DEF ChangesAt, RootLoad, a, b
    <3> QED
      BY <1>3, <2>6, <3>1
  <2>7. CASE a.st = "found" /\ b.st = "found"
    <3>1. /\ RefAt(s, << >>) = IF s.val = Placeholder THEN {} ELSE {a.out}
          /\ RefAt(t, << >>) = IF t.val = Placeholder THEN {} ELSE {b.out}
      BY <2>2, <2>3, <2>4, <2>7
    <3>2. IF bad # {} THEN ChangesAt(w) \in bad ELSE ChangesAt(w) = Found(Report(D))
      <4>1. /\ RootLoad(w - 1).st = "found" /\ RootRef(w - 1) = RefAt(s, << >>)
            /\ RootLoad(w).st = "found" /\ RootRef(w) = RefAt(t, << >>)
        BY <2>1, <2>7, <3>1 DEF RootLoad, RootRef, a, b
      <4> DEFINE E == DiffChildren(RootRef(w - 1), RootRef(w))
      <4>2. E = D
        BY <4>1
      <4>3. ChangesAt(w) = IF DiffErrors(E) # {} THEN CHOOSE r \in DiffErrors(E) : TRUE
                           ELSE Found(Report(E))
        BY <1>5, <4>1 DEF ChangesAt
      <4> HIDE DEF D, E
      <4> QED
        BY <4>2, <4>3
    <3> HIDE DEF D
    <3>6. \A v \in D : PairSound(s, t, Len(v.at), v)
      <4>1. D = DiffChildren(RefAt(s, << >>), RefAt(t, << >>))
        BY DEF D
      <4> QED
        BY <1>2, <4>1, DiffWalk
    <3>3. ASSUME NEW v \in D, NEW r \in OldLoad(v) \cup NewLoad(v), r.st # "found"
          PROVE  r = Missing /\ w - 1 < horizon
      <4>1. v.old \subseteq RefAt(s, v.at) /\ v.new \subseteq RefAt(t, v.at)
        BY <3>6 DEF PairSound
      <4>2. ASSUME NEW u, r = Found(u) PROVE FALSE
        BY <3>3, <4>2 DEF Found
      <4>3. r \in OldLoad(v) => r = Missing /\ ~Whole(s)
        BY <1>2, <4>1, <4>2, RefLoads DEF OldLoad
      <4>4. r \in NewLoad(v) => r = Missing /\ ~Whole(t)
        BY <1>2, <4>1, <4>2, RefLoads DEF NewLoad
      <4> QED
        BY <1>3, <4>3, <4>4
    <3>4. CASE \E v \in D : ~(AllFound(OldLoad(v)) /\ AllFound(NewLoad(v)))
      <4>1. PICK v \in D : \E r \in OldLoad(v) \cup NewLoad(v) : r.st # "found"
        BY <3>4 DEF AllFound
      <4>2. bad # {} /\ w - 1 < horizon
        BY <3>3, <4>1 DEF DiffErrors
      <4>3. ASSUME NEW q \in bad PROVE q = Missing
        <5>0. /\ q.st # "found"
              /\ \/ \E u \in D : q \in OldLoad(u) \cup NewLoad(u)
                 \/ \E l \in Written(D) : q = ValueOf(l)
          BY <4>3 DEF DiffErrors
        <5>1. CASE \E u \in D : q \in OldLoad(u) \cup NewLoad(u)
          BY <3>3, <5>0, <5>1
        <5>2. CASE \E l \in Written(D) : q = ValueOf(l)
          <6>1. PICK l \in Written(D) : q = ValueOf(l)
            BY <5>2
          <6>2. PICK u \in D : l \in LeafOf(NewLoad(u))
            BY <6>1 DEF Written, NewLeaves
          <6>3. PICK n \in NewLoad(u) : n.st = "found" /\ n.out.isLeaf /\ l = n.out
            BY <6>2 DEF LeafOf
          <6>4. u.new \subseteq RefAt(t, u.at)
            BY <3>6 DEF PairSound
          <6>5. n = Found(NodeAt(t, u.at)) /\ u.at \in Positions(t.val)
            <7>1. u.new # {}
              BY <6>3 DEF NewLoad, DiffLoad
            <7> QED
              BY <1>2, <2>4, <6>3, <6>4, <7>1, RefLoads DEF NewLoad
          <6>6. PICK x \in DOMAIN t.val : l = LeafNode(x, t.val[x], t.vv[x])
            BY <6>3, <6>5, NodeShape
          <6>7. q = ReadValue(x, t.val[x], t.vv[x])
            BY <6>1, <6>6 DEF LeafNode, ValueOf
          <6>8. Answers(t, x, q)
            BY <1>2, <6>7, ReadAt
          <6> QED
            BY <5>0, <6>8 DEF Answers, Says, Found
        <5> QED
          BY <5>0, <5>1, <5>2
      <4> HIDE DEF bad
      <4> QED
        BY <3>2, <4>2, <4>3
    <3>5. CASE \A v \in D : AllFound(OldLoad(v)) /\ AllFound(NewLoad(v))
      <4> DEFINE X == {y \in DOMAIN t.val \ {HistoryPath} :
                          y \notin DOMAIN s.val \/ s.val[y] # t.val[y]}
                 F(x) == LeafNode(x, t.val[x], t.vv[x])
      <4>1. /\ Written(D) = {F(x) : x \in X}
            /\ Gone(D) = (DOMAIN s.val \ DOMAIN t.val) \ {HistoryPath}
        BY <1>2, <3>5, DiffChanges DEF D
      <4>2. \A x : F(x).path = x /\ ValueOf(F(x)) = ReadValue(x, t.val[x], t.vv[x])
        BY DEF LeafNode, ValueOf
      <4> HIDE DEF F
      <4>3. ASSUME NEW x \in X
            PROVE  ValueOf(F(x)) = Found(t.val[x]) \/ (ValueOf(F(x)) = Missing /\ ~Whole(t))
        <5>1. Answers(t, x, ReadValue(x, t.val[x], t.vv[x]))
          BY <1>2, ReadAt
        <5> QED
          BY <4>2, <5>1 DEF Answers, Says
      <4> HIDE DEF X
      <4>4. bad = {r \in {ValueOf(F(x)) : x \in X} : r.st # "found"}
        <5>1. {ValueOf(l) : l \in Written(D)} = {ValueOf(F(x)) : x \in X}
          BY <4>1
        <5>2. {r \in UNION {OldLoad(v) \cup NewLoad(v) : v \in D} : r.st # "found"} = {}
          BY <3>5 DEF AllFound
        <5> QED
          BY <5>1, <5>2 DEF DiffErrors
      <4> HIDE DEF bad
      <4>5. \A u : Found(u).st = "found" /\ Found(u).out = u
        BY DEF Found
      <4>6. CASE bad # {}
        <5>1. \A r \in bad : r = Missing /\ ~Whole(t)
          BY <4>3, <4>4, <4>5
        <5> QED
          BY <1>3, <3>2, <4>6, <5>1
      <4>7. CASE bad = {}
        <5>1. \A x \in X : ValueOf(F(x)) = Found(t.val[x])
          BY <2>4, <4>3, <4>4, <4>7
        <5>2. {Put(l.path, ValueOf(l).out) : l \in Written(D)} = {Put(x, t.val[x]) : x \in X}
          BY <4>1, <4>2, <4>5, <5>1
        <5>3. X = {y \in DOMAIN t.val \cap Paths : y \notin DOMAIN s.val \/ s.val[y] # t.val[y]}
          BY <1>2, PathsAssumption DEF X, IsVersion, AllPaths
        <5>4. Gone(D) = (DOMAIN s.val \ DOMAIN t.val) \cap Paths
          BY <1>2, <4>1, PathsAssumption DEF IsVersion, AllPaths
        <5>5. ChangesAt(w) = Found(ChangesBetween(s.val, t.val))
          BY <3>2, <4>7, <5>2, <5>3, <5>4 DEF ChangesBetween, Report
        <5> QED
          BY <5>5 DEF s, t
      <4> QED
        BY <4>6, <4>7
    <3> QED
      BY <3>4, <3>5
  <2> QED
    BY <2>2, <2>3, <2>4, <2>5, <2>6, <2>7
<1> QED
  BY <1>4, <1>5

\* ChangesAt reports exactly what a version changed, or that the version before
\* it is pruned.
THEOREM ChangesSafe == Spec => []ChangesExact
<1>1. IndInv /\ ReadInv => ChangesExact
  <2> SUFFICES ASSUME IndInv, ReadInv, up, NEW w \in 1 .. version
               PROVE  \/ ChangesAt(w) = Found(ChangesBetween(lineage[w - 1].val, lineage[w].val))
                      \/ ChangesAt(w) = Missing /\ w - 1 < horizon
    BY DEF ChangesExact
  <2> QED
    BY ChangesAnswer
<1> QED
  BY <1>1, Invariance, ReadInvariance, PTL

-----------------------------------------------------------------------------
(* Bits: two paths with the same bits are the same path.                    *)

\* Pow2 doubles.
LEMMA Doubles ==
    /\ Pow2[0] = 1
    /\ \A k \in 1 .. Arity : Pow2[k] = 2 * Pow2[k - 1]
<1> DEFINE Loop(g, n) == g = [i \in 0 .. n |-> IF i = 0 THEN 1 ELSE 2 * g[i - 1]]
<1>1. \E g : Loop(g, Arity)
  <2> DEFINE S == {n \in Nat : \E g : Loop(g, n)}
  <2>1. 0 \in S
    <3> DEFINE g == [i \in 0 .. 0 |-> 1]
    <3>1. Loop(g, 0)
      OBVIOUS
    <3> QED
      BY <3>1
  <2>2. ASSUME NEW n \in Nat, n \in S PROVE n + 1 \in S
    <3>1. PICK g : Loop(g, n)
      BY <2>2
    <3> DEFINE h == [i \in 0 .. n + 1 |-> IF i = n + 1 THEN 2 * g[n] ELSE g[i]]
    <3>2. ASSUME NEW i \in 0 .. n + 1
          PROVE  h[i] = IF i = 0 THEN 1 ELSE 2 * h[i - 1]
      <4>1. CASE i = n + 1
        <5>1. i - 1 = n /\ i # 0 /\ n # n + 1 /\ n \in 0 .. n + 1
          BY <4>1
        <5>2. h[n] = g[n]
          BY <5>1
        <5> QED
          BY <4>1, <5>1, <5>2
      <4>2. CASE i # n + 1
        <5>1. i \in 0 .. n /\ h[i] = g[i]
          BY <4>2
        <5>2. i # 0 => /\ i - 1 \in 0 .. n + 1 /\ i - 1 # n + 1
                       /\ h[i - 1] = g[i - 1]
          BY <5>1
        <5>3. g[i] = IF i = 0 THEN 1 ELSE 2 * g[i - 1]
          BY <3>1, <5>1
        <5> QED
          BY <5>1, <5>2, <5>3
      <4> QED
        BY <4>1, <4>2
    <3>3. Loop(h, n + 1)
      <4>1. h = [i \in 0 .. n + 1 |-> h[i]]
        OBVIOUS
      <4> HIDE DEF h
      <4> QED
        BY <3>2, <4>1
    <3> QED
      <4> HIDE DEF Loop, h
      <4> QED
        BY <3>3
  <2>3. Nat \subseteq S
    <3> HIDE DEF S
    <3> QED
      BY <2>1, <2>2, SetInduction
  <2> HIDE DEF Loop
  <2>4. Arity \in S
    BY <2>3, ArityAssumption
  <2> QED
    BY <2>4
<1>2. Loop(Pow2, Arity)
  <2>1. Pow2 = CHOOSE g : Loop(g, Arity)
    BY DEF Pow2
  <2> HIDE DEF Loop
  <2> QED
    BY <1>1, <2>1
<1> QED
  BY <1>2, ArityAssumption

\* Halving twice as far down is halving once more.
LEMMA HalfAgain ==
    ASSUME NEW u \in Nat, NEW m \in Nat, m > 0
    PROVE  u \div (2 * m) = (u \div m) \div 2
<1> DEFINE q == u \div m
           r == u % m
           h == q \div 2
           e == q % 2
<1>1. u = m * q + r /\ r \in 0 .. m - 1 /\ q \in Nat
  OBVIOUS
<1>2. q = 2 * h + e /\ e \in 0 .. 1 /\ h \in Nat
  BY <1>1
<1> HIDE DEF q, r, h, e
<1>3. u = h * (2 * m) + (e * m + r)
  BY <1>1, <1>2
<1>4. e * m + r \in 0 .. 2 * m - 1
  BY <1>1, <1>2
<1>5. ASSUME NEW W \in Nat, W > 0, NEW s \in 0 .. W - 1
      PROVE  (h * W + s) \div W = h
  BY <1>2, <1>5
<1>6. u \div (2 * m) = h
  BY <1>3, <1>4, <1>5
<1> QED
  BY <1>6 DEF h, q

LEMMA WidthIs == Width \in 1 .. Arity /\ Pow2[Width] = Arity /\ Width \in Nat /\ Width > 0
<1>1. Width \in 1 .. Arity /\ Pow2[Width] = Arity
  BY WidthAssumption DEF Width
<1> QED
  BY <1>1, ArityAssumption

\* A power of two is positive.
LEMMA Pow2Type == \A k \in 0 .. Arity : Pow2[k] \in Nat /\ Pow2[k] > 0
<1> DEFINE S == {k \in Nat : k <= Arity => Pow2[k] \in Nat /\ Pow2[k] > 0}
<1>1. 0 \in S
  BY Doubles
<1>2. ASSUME NEW k \in Nat, k \in S PROVE k + 1 \in S
  <2> SUFFICES ASSUME k + 1 <= Arity PROVE Pow2[k + 1] \in Nat /\ Pow2[k + 1] > 0
    OBVIOUS
  <2>1. k <= Arity /\ k + 1 \in 1 .. Arity /\ (k + 1) - 1 = k
    BY ArityAssumption
  <2>2. Pow2[k] \in Nat /\ Pow2[k] > 0
    BY <1>2, <2>1
  <2>3. Pow2[k + 1] = 2 * Pow2[k]
    BY <2>1, Doubles
  <2> QED
    BY <2>2, <2>3
<1>3. Nat \subseteq S
  <2> HIDE DEF S
  <2> QED
    BY <1>1, <1>2, SetInduction
<1> QED
  BY <1>3, ArityAssumption

\* Two nibbles with the same bits are the same nibble.
LEMMA NibbleApart ==
    ASSUME NEW u \in Nibbles, NEW v \in Nibbles,
           \A k \in 0 .. Width - 1 : (u \div Pow2[k]) % 2 = (v \div Pow2[k]) % 2
    PROVE  u = v
<1>1. /\ u \in Nat /\ v \in Nat /\ u < Arity /\ v < Arity
      /\ Arity \in Nat /\ Width \in Nat /\ Width <= Arity
  BY ArityAssumption, WidthIs DEF Nibbles
<1> DEFINE S == {j \in Nat : j <= Width => u \div Pow2[Width - j] = v \div Pow2[Width - j]}
<1>2. 0 \in S
  <2>1. Pow2[Width - 0] = Arity
    BY <1>1, WidthIs
  <2>2. u \div Arity = 0 /\ v \div Arity = 0
    BY <1>1, ArityAssumption
  <2> QED
    BY <2>1, <2>2
<1>3. ASSUME NEW j \in Nat, j \in S PROVE j + 1 \in S
  <2> SUFFICES ASSUME j + 1 <= Width
               PROVE  u \div Pow2[Width - (j + 1)] = v \div Pow2[Width - (j + 1)]
    OBVIOUS
  <2> DEFINE k == Width - (j + 1)
             m == Pow2[k]
  <2>1. k \in 0 .. Width - 1 /\ k \in 0 .. Arity /\ k + 1 \in 1 .. Arity
        /\ Width - j = k + 1 /\ (k + 1) - 1 = k /\ j <= Width
    BY <1>1
  <2>2. u \div Pow2[k + 1] = v \div Pow2[k + 1]
    BY <1>3, <2>1
  <2>3. Pow2[k + 1] = 2 * m /\ m \in Nat /\ m > 0
    BY <2>1, Doubles, Pow2Type
  <2>4. (u \div m) % 2 = (v \div m) % 2
    BY <2>1
  <2> HIDE DEF m, k
  <2>5. (u \div m) \div 2 = (v \div m) \div 2
    BY <1>1, <2>2, <2>3, HalfAgain
  <2>6. u \div m \in Nat /\ v \div m \in Nat
    BY <1>1, <2>3
  <2>7. ASSUME NEW a \in Nat, NEW b \in Nat, a \div 2 = b \div 2, a % 2 = b % 2
        PROVE  a = b
    BY <2>7
  <2>8. u \div m = v \div m
    BY <2>4, <2>5, <2>6, <2>7
  <2> QED
    BY <2>8 DEF m, k
<1>4. Nat \subseteq S
  <2> HIDE DEF S
  <2> QED
    BY <1>2, <1>3, SetInduction
<1>5. Width \in S
  <2> HIDE DEF S
  <2> QED
    BY <1>1, <1>4
<1>6. Width - Width = 0 /\ Pow2[0] = 1
  BY <1>1, Doubles
<1>7. u \div 1 = v \div 1
  BY <1>1, <1>5, <1>6
<1> QED
  BY <1>1, <1>7

\* Two paths with the same bits are the same path.
LEMMA BitsApart ==
    ASSUME NEW x \in Path, NEW y \in Path,
           \A i \in 0 .. MaxDepth - 1 : BitAt(x, i) = BitAt(y, i)
    PROVE  x = y
<1>1. ASSUME NEW j \in 1 .. Depth PROVE x[j] = y[j]
  <2>1. x[j] \in Nibbles /\ y[j] \in Nibbles
    BY DEF Path
  <2>2. ASSUME NEW k \in 0 .. Width - 1
        PROVE  (x[j] \div Pow2[k]) % 2 = (y[j] \div Pow2[k]) % 2
    <3> DEFINE q == j - 1
               r == Width - 1 - k
               i == q * Width + r
    <3>1. q \in Nat /\ q < Depth /\ Width \in Nat /\ Width > 0 /\ r \in 0 .. Width - 1
          /\ Depth \in Nat
      BY DepthAssumption, WidthIs
    <3>2. q + 1 = j /\ Width - 1 - r = k
      BY WidthIs, DepthAssumption
    <3> HIDE DEF q, r
    <3>3. i \in 0 .. Depth * Width - 1 /\ i \div Width = q /\ i % Width = r
      BY <3>1
    <3> HIDE DEF i
    <3>4. BitAt(x, i) = BitAt(y, i)
      BY <3>3 DEF MaxDepth
    <3> QED
      BY <3>2, <3>3, <3>4 DEF BitAt
  <2> QED
    BY <2>1, <2>2, NibbleApart
<1>2. x = [j \in 1 .. Depth |-> x[j]] /\ y = [j \in 1 .. Depth |-> y[j]]
  BY DEF Path
<1> QED
  BY <1>1, <1>2

-----------------------------------------------------------------------------
(* The hash of a range, one bit at a time.                                  *)

\* The hashes of the ranges with n bits left, from those with one bit less.
HashLevel(c, h, n) ==
    [R \in SUBSET DOMAIN c |->
        IF R = {} THEN EmptyHash
        ELSE IF n = 0 \/ Lone(R) THEN LoneHash(c, R)
        ELSE InternalHash(h[Half(R, MaxDepth - n, 0)], h[Half(R, MaxDepth - n, 1)])]

\* A path has a number of bits.
LEMMA MaxDepthNat == MaxDepth \in Nat /\ MaxDepth > 0
  BY DepthAssumption, WidthIs DEF MaxDepth

\* RangeHash computes the levels.
LEMMA HashLevels ==
    ASSUME NEW c
    PROVE  \E g : /\ \A n \in 0 .. MaxDepth : g[n] = HashLevel(c, g[n - 1], n)
                  /\ \A K, d : RangeHash(c, K, d) = g[MaxDepth - d][K]
<1> DEFINE Loop(g, n) == g = [i \in 0 .. n |-> HashLevel(c, g[i - 1], i)]
           level == CHOOSE g : Loop(g, MaxDepth)
<1>0. \A h, k : HashLevel(c, h, 0) = HashLevel(c, k, 0)
  BY DEF HashLevel
<1>1. \E g : Loop(g, MaxDepth)
  <2> DEFINE S == {n \in Nat : \E g : Loop(g, n)}
  <2>1. 0 \in S
    <3> DEFINE g == [i \in 0 .. 0 |-> HashLevel(c, c, 0)]
    <3>1. Loop(g, 0)
      <4>1. \A i \in 0 .. 0 : HashLevel(c, g[i - 1], i) = HashLevel(c, c, 0)
        BY <1>0
      <4> QED
        BY <4>1
    <3> HIDE DEF g
    <3> QED
      BY <3>1
  <2>2. ASSUME NEW n \in Nat, n \in S PROVE n + 1 \in S
    <3>1. PICK g : Loop(g, n)
      BY <2>2
    <3> DEFINE h == [i \in 0 .. n + 1 |-> IF i = n + 1 THEN HashLevel(c, g[n], n + 1) ELSE g[i]]
    <3>2. ASSUME NEW i \in 0 .. n + 1
          PROVE  h[i] = HashLevel(c, h[i - 1], i)
      <4>1. CASE i = n + 1
        <5>1. i - 1 = n /\ i # 0 /\ n # n + 1 /\ n \in 0 .. n + 1
          BY <4>1
        <5>2. h[n] = g[n]
          BY <5>1
        <5> QED
          BY <4>1, <5>1, <5>2
      <4>2. CASE i # n + 1
        <5>1. i \in 0 .. n /\ h[i] = g[i]
          BY <4>2
        <5>2. i # 0 => /\ i - 1 \in 0 .. n + 1 /\ i - 1 # n + 1
                       /\ h[i - 1] = g[i - 1]
          BY <5>1
        <5>3. g[i] = HashLevel(c, g[i - 1], i)
          BY <3>1, <5>1
        <5> HIDE DEF h
        <5>4. CASE i = 0
          BY <1>0, <5>1, <5>3, <5>4
        <5>5. CASE i # 0
          BY <5>1, <5>2, <5>3, <5>5
        <5> QED
          BY <5>4, <5>5
      <4> QED
        BY <4>1, <4>2
    <3>3. Loop(h, n + 1)
      <4>1. h = [i \in 0 .. n + 1 |-> h[i]]
        OBVIOUS
      <4> HIDE DEF h
      <4> QED
        BY <3>2, <4>1
    <3> QED
      <4> HIDE DEF Loop, h
      <4> QED
        BY <3>3
  <2>3. Nat \subseteq S
    <3> HIDE DEF S
    <3> QED
      BY <2>1, <2>2, SetInduction
  <2> HIDE DEF Loop
  <2>4. MaxDepth \in S
    BY <2>3, MaxDepthNat
  <2> QED
    BY <2>4
<1>2. Loop(level, MaxDepth)
  <2> HIDE DEF Loop
  <2> QED
    BY <1>1
<1>3. \A K, d : RangeHash(c, K, d) = level[MaxDepth - d][K]
  BY DEF RangeHash, HashLevel
<1> HIDE DEF level
<1>4. ASSUME NEW n \in 0 .. MaxDepth PROVE level[n] = HashLevel(c, level[n - 1], n)
  BY <1>2
<1> QED
  BY <1>3, <1>4

\* What the hash of a range is.
LEMMA RangeStep ==
    ASSUME NEW c, NEW K \in SUBSET DOMAIN c, NEW d \in 0 .. MaxDepth
    PROVE  /\ K = {} => RangeHash(c, K, d) = EmptyHash
           /\ K # {} /\ (d = MaxDepth \/ Lone(K)) =>
                 RangeHash(c, K, d) = LoneHash(c, K)
           /\ K # {} /\ d # MaxDepth /\ ~Lone(K) =>
                 RangeHash(c, K, d)
                   = InternalHash(RangeHash(c, Half(K, d, 0), d + 1),
                                  RangeHash(c, Half(K, d, 1), d + 1))
<1>1. PICK g : /\ \A n \in 0 .. MaxDepth : g[n] = HashLevel(c, g[n - 1], n)
               /\ \A L, e : RangeHash(c, L, e) = g[MaxDepth - e][L]
  BY HashLevels
<1> DEFINE n == MaxDepth - d
<1>2. n \in 0 .. MaxDepth /\ (n = 0 <=> d = MaxDepth) /\ MaxDepth - n = d
      /\ n - 1 = MaxDepth - (d + 1)
  BY MaxDepthNat
<1> HIDE DEF n
<1>3. g[n] = HashLevel(c, g[n - 1], n) /\ RangeHash(c, K, d) = g[n][K]
  BY <1>1, <1>2 DEF n
<1>4. \A s : RangeHash(c, Half(K, d, s), d + 1) = g[n - 1][Half(K, d, s)]
  BY <1>1, <1>2
<1>5. RangeHash(c, K, d)
        = IF K = {} THEN EmptyHash
          ELSE IF n = 0 \/ Lone(K)
          THEN LoneHash(c, K)
          ELSE InternalHash(g[n - 1][Half(K, MaxDepth - n, 0)], g[n - 1][Half(K, MaxDepth - n, 1)])
  BY <1>3 DEF HashLevel
<1> QED
  BY <1>2, <1>4, <1>5

\* A bit is 0 or 1.
LEMMA BitIs ==
    ASSUME NEW x \in Path, NEW i \in 0 .. MaxDepth - 1
    PROVE  BitAt(x, i) \in {0, 1}
<1> DEFINE q == i \div Width
           r == i % Width
           k == Width - 1 - r
<1>1. Width \in Nat /\ Width > 0 /\ Depth \in Nat /\ i \in Nat /\ i < Depth * Width
  BY WidthIs, DepthAssumption, MaxDepthNat DEF MaxDepth
<1>2. i = Width * q + r /\ r \in 0 .. Width - 1 /\ q \in Nat
  BY <1>1
<1>3. k \in 0 .. Arity
  BY <1>1, <1>2, WidthIs, ArityAssumption
<1> HIDE DEF q, r, k
<1>4. q < Depth
  BY <1>1, <1>2
<1>5. x[q + 1] \in Nat
  BY <1>1, <1>2, <1>4, ArityAssumption DEF Path, Nibbles
<1>6. Pow2[k] \in Nat /\ Pow2[k] > 0
  BY <1>3, Pow2Type
<1>7. (x[q + 1] \div Pow2[k]) % 2 \in {0, 1}
  <2>1. x[q + 1] \div Pow2[k] \in Nat
    BY <1>5, <1>6
  <2> QED
    BY <2>1
<1> QED
  BY <1>7 DEF BitAt, q, r, k

\* The ranges around a path, each a half of the one before.
LEMMA AlongSteps ==
    ASSUME NEW c, NEW x
    PROVE  /\ Along(c, x, 0) = DOMAIN c
           /\ \A d \in Nat : /\ Along(c, x, d) \in SUBSET DOMAIN c
                             /\ Half(Along(c, x, d), d, BitAt(x, d)) = Along(c, x, d + 1)
           /\ x \in DOMAIN c => \A d \in Nat : x \in Along(c, x, d)
<1>1. Along(c, x, 0) = DOMAIN c
  <2>1. 0 .. 0 - 1 = {}
    OBVIOUS
  <2> QED
    BY <2>1 DEF Along
<1>2. ASSUME NEW d \in Nat
      PROVE  Half(Along(c, x, d), d, BitAt(x, d)) = Along(c, x, d + 1)
  <2>1. \A i : i \in 0 .. (d + 1) - 1 <=> i \in 0 .. d - 1 \/ i = d
    OBVIOUS
  <2> QED
    BY <2>1 DEF Half, Along
<1> QED
  BY <1>1, <1>2 DEF Along

\* At most one path has all the bits of x.
LEMMA AlongEnd ==
    ASSUME NEW c, DOMAIN c \subseteq Path, NEW x \in Path
    PROVE  Along(c, x, MaxDepth) \subseteq {x}
<1>1. ASSUME NEW y \in Along(c, x, MaxDepth) PROVE y = x
  <2>1. y \in Path /\ \A i \in 0 .. MaxDepth - 1 : BitAt(y, i) = BitAt(x, i)
    BY DEF Along
  <2> QED
    BY <2>1, BitsApart
<1> QED
  BY <1>1

\* One step of the fold of a proof.
FoldStep(x, s, i, h) ==
    IF BitAt(x, Len(s) - i) = 1 THEN InternalHash(s[i], h) ELSE InternalHash(h, s[i])

\* Folded computes the steps.
LEMMA FoldSteps ==
    ASSUME NEW acc, NEW x, NEW s, Len(s) \in Nat
    PROVE  \E g : /\ g[0] = acc
                  /\ \A i \in 1 .. Len(s) : g[i] = FoldStep(x, s, i, g[i - 1])
                  /\ Folded(acc, x, s) = g[Len(s)]
<1> DEFINE Loop(g, n) == g = [i \in 0 .. n |-> IF i = 0 THEN acc ELSE FoldStep(x, s, i, g[i - 1])]
           level == CHOOSE g : Loop(g, Len(s))
<1>1. \E g : Loop(g, Len(s))
  <2> DEFINE S == {n \in Nat : \E g : Loop(g, n)}
  <2>1. 0 \in S
    <3> DEFINE g == [i \in 0 .. 0 |-> acc]
    <3>1. Loop(g, 0)
      OBVIOUS
    <3> QED
      BY <3>1
  <2>2. ASSUME NEW n \in Nat, n \in S PROVE n + 1 \in S
    <3>1. PICK g : Loop(g, n)
      BY <2>2
    <3> DEFINE h == [i \in 0 .. n + 1 |-> IF i = n + 1 THEN FoldStep(x, s, n + 1, g[n]) ELSE g[i]]
    <3>2. ASSUME NEW i \in 0 .. n + 1
          PROVE  h[i] = IF i = 0 THEN acc ELSE FoldStep(x, s, i, h[i - 1])
      <4>1. CASE i = n + 1
        <5>1. i - 1 = n /\ i # 0 /\ n # n + 1 /\ n \in 0 .. n + 1
          BY <4>1
        <5>2. h[n] = g[n]
          BY <5>1
        <5> QED
          BY <4>1, <5>1, <5>2
      <4>2. CASE i # n + 1
        <5>1. i \in 0 .. n /\ h[i] = g[i]
          BY <4>2
        <5>2. i # 0 => /\ i - 1 \in 0 .. n + 1 /\ i - 1 # n + 1
                       /\ h[i - 1] = g[i - 1]
          BY <5>1
        <5>3. g[i] = IF i = 0 THEN acc ELSE FoldStep(x, s, i, g[i - 1])
          BY <3>1, <5>1
        <5> QED
          BY <5>1, <5>2, <5>3
      <4> QED
        BY <4>1, <4>2
    <3>3. Loop(h, n + 1)
      <4>1. h = [i \in 0 .. n + 1 |-> h[i]]
        OBVIOUS
      <4> HIDE DEF h
      <4> QED
        BY <3>2, <4>1
    <3> QED
      <4> HIDE DEF Loop, h
      <4> QED
        BY <3>3
  <2>3. Nat \subseteq S
    <3> HIDE DEF S
    <3> QED
      BY <2>1, <2>2, SetInduction
  <2> HIDE DEF Loop
  <2>4. Len(s) \in S
    BY <2>3
  <2> QED
    BY <2>4
<1>2. Loop(level, Len(s))
  <2> HIDE DEF Loop
  <2> QED
    BY <1>1
<1>3. Folded(acc, x, s) = level[Len(s)]
  BY DEF Folded, FoldStep
<1> HIDE DEF level
<1>4. level[0] = acc
  BY <1>2
<1>5. ASSUME NEW i \in 1 .. Len(s) PROVE level[i] = FoldStep(x, s, i, level[i - 1])
  <2>1. i \in 0 .. Len(s) /\ i # 0
    OBVIOUS
  <2> QED
    BY <1>2, <2>1
<1> QED
  BY <1>3, <1>4, <1>5

-----------------------------------------------------------------------------
(* Verify accepts nothing but the truth.                                    *)

\* The three kinds of hash terms are told apart, and an internal hash tells
\* its halves.
LEMMA HashKinds ==
    ASSUME NEW l, NEW r, NEW x, NEW a
    PROVE  /\ InternalHash(l, r) # EmptyHash
           /\ InternalHash(l, r) # LeafHash(x, a)
           /\ LeafHash(x, a) # EmptyHash
           /\ \A m, t : InternalHash(l, r) = InternalHash(m, t) => l = m /\ r = t
           /\ \A y, b : LeafHash(x, a) = LeafHash(y, b) => x = y /\ a = b
<1>1. /\ EmptyHash.tag = "empty" /\ LeafHash(x, a).tag = "leaf" /\ InternalHash(l, r).tag = "node"
  BY DEF EmptyHash, LeafHash, InternalHash
<1>2. /\ LeafHash(x, a).path = x /\ LeafHash(x, a).val = a
      /\ InternalHash(l, r).left = l /\ InternalHash(l, r).right = r
  BY DEF LeafHash, InternalHash
<1>3. \A m, t : InternalHash(m, t).left = m /\ InternalHash(m, t).right = t
  BY DEF InternalHash
<1>4. \A y, b : LeafHash(y, b).path = y /\ LeafHash(y, b).val = b
  BY DEF LeafHash
<1>5. "empty" # "leaf" /\ "empty" # "node" /\ "leaf" # "node"
  OBVIOUS
<1>6. InternalHash(l, r) # EmptyHash /\ InternalHash(l, r) # LeafHash(x, a) /\ LeafHash(x, a) # EmptyHash
  BY <1>1, <1>5
<1>7. ASSUME NEW m, NEW t, InternalHash(l, r) = InternalHash(m, t) PROVE l = m /\ r = t
  BY <1>2, <1>3, <1>7
<1>8. ASSUME NEW y, NEW b, LeafHash(x, a) = LeafHash(y, b) PROVE x = y /\ a = b
  BY <1>2, <1>4, <1>8
<1> QED
  BY <1>6, <1>7, <1>8

\* A fold that arrives at the root has started from the hash of a range around
\* the path.
LEMMA FoldDown ==
    ASSUME NEW c, NEW x \in Path, NEW s, NEW acc,
           Len(s) \in Nat, Len(s) <= MaxDepth, Folded(acc, x, s) = RootHash(c)
    PROVE  acc = RangeHash(c, Along(c, x, Len(s)), Len(s))
<1>1. PICK g : /\ g[0] = acc
               /\ \A i \in 1 .. Len(s) : g[i] = FoldStep(x, s, i, g[i - 1])
               /\ Folded(acc, x, s) = g[Len(s)]
  BY FoldSteps
<1> DEFINE n == Len(s)
           S == {d \in Nat : d <= n => g[n - d] = RangeHash(c, Along(c, x, d), d)}
<1>2. n \in Nat /\ n <= MaxDepth /\ MaxDepth \in Nat
  BY MaxDepthNat
<1> HIDE DEF n
<1>3. 0 \in S
  <2>1. n - 0 = n
    BY <1>2
  <2>2. g[n] = RangeHash(c, DOMAIN c, 0)
    BY <1>1 DEF RootHash, n
  <2>3. Along(c, x, 0) = DOMAIN c
    BY AlongSteps
  <2> QED
    BY <2>1, <2>2, <2>3
<1>4. ASSUME NEW d \in Nat, d \in S PROVE d + 1 \in S
  <2> SUFFICES ASSUME d + 1 <= n
               PROVE  g[n - (d + 1)] = RangeHash(c, Along(c, x, d + 1), d + 1)
    OBVIOUS
  <2> DEFINE i == n - d
             K == Along(c, x, d)
             L == RangeHash(c, Half(K, d, 0), d + 1)
             R == RangeHash(c, Half(K, d, 1), d + 1)
  <2>1. i \in 1 .. n /\ i - 1 = n - (d + 1) /\ n - i = d /\ d <= n
        /\ d \in 0 .. MaxDepth - 1 /\ d \in 0 .. MaxDepth /\ d # MaxDepth
    BY <1>2
  <2>2. g[i] = RangeHash(c, K, d)
    BY <1>4, <2>1
  <2>3. g[i] = FoldStep(x, s, i, g[i - 1])
    BY <1>1, <2>1 DEF n
  <2>4. BitAt(x, d) \in {0, 1}
    BY <2>1, BitIs
  <2>5. Along(c, x, d + 1) = Half(K, d, BitAt(x, d)) /\ K \in SUBSET DOMAIN c
    BY AlongSteps
  <2> HIDE DEF i, K, L, R
  <2>6. g[i] = IF BitAt(x, d) = 1 THEN InternalHash(s[i], g[i - 1]) ELSE InternalHash(g[i - 1], s[i])
    BY <2>1, <2>3 DEF FoldStep, n
  <2>7. g[i] = InternalHash(L, R)
    <3>1. K # {} /\ ~Lone(K)
      <4>1. K = {} => g[i] = EmptyHash
        BY <2>1, <2>2, <2>5, RangeStep
      <4>2. K # {} /\ Lone(K) =>
                g[i] = LeafHash(CHOOSE y \in K : TRUE, c[CHOOSE y \in K : TRUE])
        BY <2>1, <2>2, <2>5, RangeStep DEF LoneHash
      <4> QED
        BY <2>6, <4>1, <4>2, HashKinds
    <3> QED
      BY <2>1, <2>2, <2>5, <3>1, RangeStep DEF L, R
  <2>8. CASE BitAt(x, d) = 1
    <3>1. g[i - 1] = R
      BY <2>6, <2>7, <2>8, HashKinds
    <3> QED
      BY <2>1, <2>5, <2>8, <3>1 DEF R, K
  <2>9. CASE BitAt(x, d) = 0
    <3>1. g[i - 1] = L
      BY <2>6, <2>7, <2>9, HashKinds
    <3> QED
      BY <2>1, <2>5, <2>9, <3>1 DEF L, K
  <2> QED
    BY <2>4, <2>8, <2>9
<1>5. Nat \subseteq S
  <2> HIDE DEF S
  <2> QED
    BY <1>3, <1>4, SetInduction
<1>6. n \in S
  <2> HIDE DEF S
  <2> QED
    BY <1>2, <1>5
<1>7. n - n = 0
  BY <1>2
<1> QED
  BY <1>1, <1>2, <1>6, <1>7 DEF n

\* Whatever proof Verify is handed, with any leaf and any hashes as siblings,
\* it rejects it or returns what the content with that root hash says of the
\* path.
THEOREM VerifySound ==
    ASSUME NEW c, DOMAIN c \subseteq Path, NEW x \in Path,
           NEW leaf, NEW H, NEW s \in Seq(H)
    PROVE  Verify(RootHash(c), x, Proof(leaf, s)) \in {Rejected, Statement(c, x)}
<1> DEFINE l   == CHOOSE k \in leaf : TRUE
           acc == IF leaf = {} THEN EmptyHash ELSE LeafHash(l.path, l.val)
           out == IF leaf # {} /\ l.path = x THEN Includes(l.val) ELSE Excludes
           n   == Len(s)
           K   == Along(c, x, n)
<1>1. n \in Nat /\ Proof(leaf, s).siblings = s /\ Proof(leaf, s).leaf = leaf
  BY DEF Proof
<1>2. LeafIn(Proof(leaf, s)) = l /\ Start(Proof(leaf, s)) = acc
  BY <1>1 DEF LeafIn, Start
<1>3. \/ Verify(RootHash(c), x, Proof(leaf, s)) = Rejected
      \/ /\ n <= MaxDepth /\ Folded(acc, x, s) = RootHash(c)
         /\ Verify(RootHash(c), x, Proof(leaf, s)) = out
  <2> HIDE DEF l, acc
  <2> QED
    BY <1>1, <1>2, MaxDepthNat DEF Verify
<1> HIDE DEF l
<1> SUFFICES ASSUME n <= MaxDepth, Folded(acc, x, s) = RootHash(c)
             PROVE  out = Statement(c, x)
  BY <1>3
<1>4. acc = RangeHash(c, K, n) /\ n \in 0 .. MaxDepth
  <2> HIDE DEF acc
  <2> QED
    BY <1>1, FoldDown, MaxDepthNat
<1>5. K \in SUBSET DOMAIN c /\ (x \in DOMAIN c => x \in K)
  BY <1>1, AlongSteps
<1>6. n = MaxDepth /\ K # {} => Lone(K)
  BY AlongEnd DEF Lone
<1> HIDE DEF K, n
<1>7. /\ K = {} => acc = EmptyHash
      /\ Lone(K) => \E y \in K : K = {y} /\ acc = LeafHash(y, c[y])
      /\ K # {} /\ ~Lone(K) =>
            acc = InternalHash(RangeHash(c, Half(K, n, 0), n + 1), RangeHash(c, Half(K, n, 1), n + 1))
  <2>1. ASSUME NEW y, K = {y} PROVE LoneHash(c, K) = LeafHash(y, c[y])
    BY <2>1 DEF LoneHash
  <2>2. Lone(K) => K # {} /\ \E y \in K : K = {y}
    BY DEF Lone
  <2> HIDE DEF acc
  <2>3. Lone(K) => acc = LoneHash(c, K)
    BY <1>4, <1>5, <2>2, RangeStep
  <2>4. K # {} /\ ~Lone(K) => n # MaxDepth
    BY <1>6
  <2> QED
    BY <1>4, <1>5, <2>1, <2>2, <2>3, <2>4, RangeStep
<1>8. CASE leaf = {}
  <2>1. K = {}
    BY <1>7, <1>8, HashKinds
  <2> QED
    BY <1>5, <1>8, <2>1 DEF Statement
<1>9. CASE leaf # {}
  <2>1. acc = LeafHash(l.path, l.val)
    BY <1>9
  <2>2. Lone(K)
    BY <1>7, <2>1, HashKinds
  <2>3. PICK y \in K : K = {y} /\ acc = LeafHash(y, c[y])
    BY <1>7, <2>2
  <2>4. l.path = y /\ l.val = c[y]
    BY <2>1, <2>3, HashKinds
  <2> QED
    BY <1>5, <1>9, <2>3, <2>4 DEF Statement
<1> QED
  BY <1>8, <1>9

-----------------------------------------------------------------------------
(* Verify accepts the proof of the truth.                                   *)

\* A nonempty set of natural numbers has a least one.
LEMMA LeastOf ==
    ASSUME NEW S, S \subseteq Nat, S # {}
    PROVE  \E n \in S : \A m \in S : n <= m
<1> SUFFICES ASSUME \A n \in S : \E m \in S : m < n PROVE FALSE
  OBVIOUS
<1> DEFINE T == {k \in Nat : \A j \in 0 .. k : j \notin S}
<1>1. 0 \in T
  <2>1. 0 \notin S
    OBVIOUS
  <2> QED
    BY <2>1
<1>2. ASSUME NEW k \in Nat, k \in T PROVE k + 1 \in T
  <2>1. \A j \in 0 .. k : j \notin S
    BY <1>2
  <2>2. k + 1 \notin S
    BY <2>1
  <2> QED
    BY <2>1, <2>2
<1>3. Nat \subseteq T
  <2> HIDE DEF T
  <2> QED
    BY <1>1, <1>2, SetInduction
<1>4. PICK n \in S : n \in Nat
  OBVIOUS
<1>5. n \in T /\ n \in 0 .. n
  <2> HIDE DEF T
  <2> QED
    BY <1>3, <1>4
<1> QED
  BY <1>5

\* The descent ends: there is a first range with at most one leaf.
LEMMA StopIs ==
    ASSUME NEW c, DOMAIN c \subseteq Path, NEW x \in Path
    PROVE  /\ Stop(c, x) \in 0 .. MaxDepth
           /\ Along(c, x, Stop(c, x)) = {} \/ Lone(Along(c, x, Stop(c, x)))
           /\ \A e \in 0 .. Stop(c, x) - 1 : Along(c, x, e) # {} /\ ~Lone(Along(c, x, e))
<1> DEFINE Few(d) == Along(c, x, d) = {} \/ Lone(Along(c, x, d))
           D == {d \in 0 .. MaxDepth : Few(d)}
<1>1. MaxDepth \in D
  <2>1. Few(MaxDepth)
    BY AlongEnd DEF Lone
  <2> QED
    BY <2>1, MaxDepthNat
<1>2. PICK d \in D : \A e \in D : d <= e
  <2>1. D \subseteq Nat
    BY MaxDepthNat
  <2> HIDE DEF D
  <2> QED
    BY <1>1, <2>1, LeastOf
<1>3. ASSUME NEW e \in 0 .. d - 1 PROVE ~Few(e)
  <2>1. e \in 0 .. MaxDepth /\ ~(d <= e)
    BY MaxDepthNat
  <2> HIDE DEF Few
  <2> QED
    BY <1>2, <2>1
<1>4. \E k \in 0 .. MaxDepth : Few(k) /\ \A e \in 0 .. k - 1 : ~Few(e)
  <2> HIDE DEF Few
  <2> QED
    BY <1>2, <1>3
<1>5. \E k \in 0 .. MaxDepth :
        /\ Along(c, x, k) = {} \/ Lone(Along(c, x, k))
        /\ \A e \in 0 .. k - 1 : Along(c, x, e) # {} /\ ~Lone(Along(c, x, e))
  BY <1>4
<1> QED
  BY <1>5 DEF Stop

\* The fold of the hashes beside the ranges around x.
LEMMA FoldUp ==
    ASSUME NEW c, DOMAIN c \subseteq Path, NEW x \in Path, NEW n \in 0 .. MaxDepth,
           \A e \in 0 .. n - 1 : Along(c, x, e) # {} /\ ~Lone(Along(c, x, e))
    PROVE  Folded(RangeHash(c, Along(c, x, n), n), x, [i \in 1 .. n |-> Beside(c, x, n - i)])
             = RootHash(c)
<1> DEFINE s == [i \in 1 .. n |-> Beside(c, x, n - i)]
           acc == RangeHash(c, Along(c, x, n), n)
<1>1. n \in Nat /\ Len(s) = n /\ MaxDepth \in Nat
  BY MaxDepthNat
<1>2. \A i \in 1 .. n : s[i] = Beside(c, x, n - i)
  OBVIOUS
<1> HIDE DEF s
<1>3. PICK g : /\ g[0] = acc
               /\ \A i \in 1 .. n : g[i] = FoldStep(x, s, i, g[i - 1])
               /\ Folded(acc, x, s) = g[n]
  <2> HIDE DEF acc
  <2> QED
    BY <1>1, FoldSteps
<1> DEFINE S == {i \in Nat : i <= n => g[i] = RangeHash(c, Along(c, x, n - i), n - i)}
<1>4. 0 \in S
  <2>1. n - 0 = n
    BY <1>1
  <2> QED
    BY <1>3, <2>1
<1>5. ASSUME NEW j \in Nat, j \in S PROVE j + 1 \in S
  <2> SUFFICES ASSUME j + 1 <= n
               PROVE  g[j + 1] = RangeHash(c, Along(c, x, n - (j + 1)), n - (j + 1))
    OBVIOUS
  <2> DEFINE i == j + 1
             d == n - i
             K == Along(c, x, d)
             L == RangeHash(c, Half(K, d, 0), d + 1)
             R == RangeHash(c, Half(K, d, 1), d + 1)
  <2>1. i \in 1 .. n /\ i - 1 = j /\ n - j = d + 1 /\ j <= n
        /\ d \in 0 .. MaxDepth - 1 /\ d \in 0 .. MaxDepth /\ d # MaxDepth
        /\ d \in 0 .. n - 1 /\ d \in Nat
    BY <1>1
  <2>2. g[i - 1] = RangeHash(c, Along(c, x, d + 1), d + 1)
    BY <1>5, <2>1
  <2>3. g[i] = FoldStep(x, s, i, g[i - 1])
    BY <1>3, <2>1
  <2>4. BitAt(x, d) \in {0, 1}
    BY <2>1, BitIs
  <2>5. Along(c, x, d + 1) = Half(K, d, BitAt(x, d)) /\ K \in SUBSET DOMAIN c
    BY <2>1, AlongSteps
  <2>6. K # {} /\ ~Lone(K)
    BY <2>1
  <2>7. s[i] = RangeHash(c, Half(K, d, 1 - BitAt(x, d)), d + 1)
    BY <1>2, <2>1 DEF Beside
  <2>8. RangeHash(c, K, d) = InternalHash(L, R)
    <3> HIDE DEF K, d
    <3> QED
      BY <2>1, <2>5, <2>6, RangeStep
  <2>9. Len(s) - i = d
    BY <1>1
  <2>10. g[i] = InternalHash(L, R)
    <3> HIDE DEF K, d, i
    <3>1. g[i] = IF BitAt(x, d) = 1 THEN InternalHash(s[i], g[i - 1]) ELSE InternalHash(g[i - 1], s[i])
      BY <2>3, <2>9 DEF FoldStep
    <3>2. CASE BitAt(x, d) = 1
      <4>1. 1 - BitAt(x, d) = 0
        BY <3>2
      <4> QED
        BY <2>2, <2>5, <2>7, <3>1, <3>2, <4>1
    <3>3. CASE BitAt(x, d) = 0
      <4>1. 1 - BitAt(x, d) = 1 /\ BitAt(x, d) # 1
        BY <3>3
      <4> QED
        BY <2>2, <2>5, <2>7, <3>1, <3>3, <4>1
    <3> QED
      BY <2>4, <3>2, <3>3
  <2> QED
    BY <2>8, <2>10
<1>6. Nat \subseteq S
  <2> HIDE DEF S
  <2> QED
    BY <1>4, <1>5, SetInduction
<1>7. n \in S
  <2> HIDE DEF S
  <2> QED
    BY <1>1, <1>6
<1>8. n - n = 0 /\ Along(c, x, 0) = DOMAIN c
  BY <1>1, AlongSteps
<1>9. Folded(acc, x, s) = RootHash(c)
  BY <1>1, <1>3, <1>7, <1>8 DEF RootHash
<1> QED
  BY <1>9 DEF s

\* Two paths that share their first n bits have a common prefix of n bits.
LEMMA CommonBits ==
    ASSUME NEW x, NEW y, NEW n \in 0 .. MaxDepth,
           \A i \in 0 .. n - 1 : BitAt(y, i) = BitAt(x, i)
    PROVE  ~(CommonPrefixBits(y, x) < n)
<1> DEFINE differ == {i \in 0 .. MaxDepth - 1 : BitAt(y, i) # BitAt(x, i)}
<1>1. CommonPrefixBits(y, x) = IF differ = {} THEN MaxDepth ELSE Min(differ)
  BY DEF CommonPrefixBits
<1>2. MaxDepth \in Nat /\ n \in Nat /\ n <= MaxDepth
  BY MaxDepthNat
<1>3. CASE differ = {}
  BY <1>1, <1>2, <1>3
<1>4. CASE differ # {}
  <2>1. differ \subseteq Nat
    BY <1>2
  <2>2. Min(differ) \in differ
    <3> HIDE DEF differ
    <3> QED
      BY <1>4, <2>1, LeastOf DEF Min
  <2>3. Min(differ) \in Nat /\ Min(differ) \notin 0 .. n - 1
    BY <1>2, <2>2
  <2> QED
    BY <1>1, <1>2, <1>4, <2>3
<1> QED
  BY <1>3, <1>4

\* For every content and every path, used or not, there is a proof of what the
\* content says of it that Verify accepts.
THEOREM VerifyComplete ==
    ASSUME NEW c, DOMAIN c \subseteq Path, NEW x \in Path
    PROVE  Verify(RootHash(c), x, ProofOf(c, x)) = Statement(c, x)
<1> DEFINE n    == Stop(c, x)
           K    == Along(c, x, n)
           s    == [i \in 1 .. n |-> Beside(c, x, n - i)]
           leaf == {ProofLeaf(y, c[y]) : y \in K}
           P    == ProofOf(c, x)
<1>1. /\ n \in 0 .. MaxDepth /\ (K = {} \/ Lone(K))
      /\ \A e \in 0 .. n - 1 : Along(c, x, e) # {} /\ ~Lone(Along(c, x, e))
  BY StopIs
<1>2. n \in Nat /\ n <= MaxDepth /\ MaxDepth \in Nat
  BY <1>1, MaxDepthNat
<1>3. P.leaf = leaf /\ P.siblings = s
  BY DEF ProofOf, Proof
<1>4. Len(s) = n
  BY <1>2
<1>5. Folded(RangeHash(c, K, n), x, s) = RootHash(c)
  <2> HIDE DEF n
  <2> QED
    BY <1>1, FoldUp
<1>6. K \in SUBSET DOMAIN c /\ (x \in DOMAIN c => x \in K)
  BY <1>2, AlongSteps
<1>7. \A y \in K : ~(CommonPrefixBits(y, x) < n)
  <2>1. ASSUME NEW y \in K PROVE \A i \in 0 .. n - 1 : BitAt(y, i) = BitAt(x, i)
    BY DEF Along
  <2> HIDE DEF K, n
  <2> QED
    BY <1>1, <2>1, CommonBits
<1> HIDE DEF n, K, s, P
<1>8. CASE K = {}
  <2>1. leaf = {}
    BY <1>8
  <2>2. Start(P) = RangeHash(c, K, n)
    <3>1. RangeHash(c, K, n) = EmptyHash
      BY <1>1, <1>6, <1>8, RangeStep
    <3> QED
      BY <1>3, <2>1, <3>1 DEF Start
  <2>3. Verify(RootHash(c), x, P) = Excludes
    BY <1>2, <1>3, <1>4, <1>5, <2>1, <2>2 DEF Verify
  <2> QED
    BY <1>6, <1>8, <2>3 DEF Statement, P
<1>9. CASE Lone(K)
  <2>1. PICK y \in K : K = {y}
    BY <1>9 DEF Lone
  <2>2. leaf = {ProofLeaf(y, c[y])} /\ leaf # {}
    BY <2>1
  <2> HIDE DEF leaf
  <2>3. LeafIn(P) = ProofLeaf(y, c[y])
    BY <1>3, <2>2 DEF LeafIn
  <2>4. LeafIn(P).path = y /\ LeafIn(P).val = c[y]
    BY <2>3 DEF ProofLeaf
  <2>5. Start(P) = RangeHash(c, K, n)
    <3>1. RangeHash(c, K, n) = LoneHash(c, K)
      BY <1>1, <1>6, <1>9, <2>1, RangeStep
    <3>2. LoneHash(c, K) = LeafHash(y, c[y])
      BY <2>1 DEF LoneHash
    <3> QED
      BY <1>3, <2>2, <2>4, <3>1, <3>2 DEF Start
  <2>6. Verify(RootHash(c), x, P) = IF y = x THEN Includes(c[y]) ELSE Excludes
    BY <1>2, <1>3, <1>4, <1>5, <1>7, <2>2, <2>4, <2>5 DEF Verify
  <2> QED
    BY <1>6, <2>1, <2>6 DEF Statement, P
<1> QED
  BY <1>1, <1>8, <1>9

\* A root hash commits to the content: two contents with the same root hash
\* say the same of every path, because a proof for one is a proof for the
\* other.
THEOREM RootHashInjective ==
    ASSUME NEW c, NEW d, DOMAIN c \subseteq Path, DOMAIN d \subseteq Path,
           c = [x \in DOMAIN c |-> c[x]], d = [x \in DOMAIN d |-> d[x]],
           RootHash(c) = RootHash(d)
    PROVE  c = d
<1>1. ASSUME NEW x \in Path PROVE Statement(c, x) = Statement(d, x)
  <2> DEFINE n == Stop(c, x)
             s == [i \in 1 .. n |-> Beside(c, x, n - i)]
             l == {ProofLeaf(y, c[y]) : y \in Along(c, x, n)}
             H == {s[i] : i \in 1 .. n}
  <2>1. n \in Nat
    BY StopIs, MaxDepthNat
  <2>2. s \in Seq(H)
    BY <2>1
  <2>3. ProofOf(c, x) = Proof(l, s)
    BY DEF ProofOf
  <2> HIDE DEF n, s, l, H
  <2>4. Verify(RootHash(d), x, ProofOf(c, x)) \in {Rejected, Statement(d, x)}
    BY <2>2, <2>3, VerifySound
  <2>5. Verify(RootHash(d), x, ProofOf(c, x)) = Statement(c, x)
    BY VerifyComplete
  <2>6. Statement(c, x) # Rejected
    BY DEF Statement, Rejected, Includes, Excludes
  <2> QED
    BY <2>4, <2>5, <2>6
<1>2. ASSUME NEW x \in Path
      PROVE  /\ x \in DOMAIN c <=> x \in DOMAIN d
             /\ x \in DOMAIN c => c[x] = d[x]
  <2>1. \A a : Includes(a) # Excludes /\ Includes(a).val = a
    BY DEF Includes, Excludes
  <2> QED
    BY <1>1, <2>1 DEF Statement
<1>3. DOMAIN c = DOMAIN d
  BY <1>2
<1> QED
  BY <1>2, <1>3

-----------------------------------------------------------------------------
(* The roots of a store.                                                    *)

\* The root and the versions of a running store are contents.
LEMMA RootContent ==
    ASSUME IndInv, ReadInv, up
    PROVE  /\ DOMAIN root \subseteq AllPaths /\ root = [x \in DOMAIN root |-> root[x]]
           /\ \A w \in DOMAIN lineage : DOMAIN lineage[w].val \subseteq Path
<1>1. /\ Created /\ version = ckpt.version /\ version \in Nat /\ DOMAIN lineage = Committed
      /\ root = lineage[version].val /\ version \in Committed
  BY DEF IndInv, CoreInv, CheckpointCurrent, TypeOK, Committed
<1>2. \A w \in Committed : IsTree(lineage[w], w) /\ IsVersion(lineage[w], w)
  BY <1>1 DEF IndInv, CoreInv, CheckpointCurrent, ReadInv
<1> QED
  BY <1>1, <1>2 DEF IsTree, IsVersion

\* A content next to a content is one.
LEMMA NeighbourContent ==
    ASSUME DOMAIN root \subseteq AllPaths, NEW c \in Neighbours \cup {Placeholder}
    PROVE  DOMAIN c \subseteq Path /\ c = [x \in DOMAIN c |-> c[x]]
<1>1. AllPaths \subseteq Path
  BY PathsAssumption DEF AllPaths
<1>2. CASE c = Placeholder
  BY <1>2 DEF Placeholder
<1>3. ASSUME NEW upd \in Batches, c = Updated(root, upd)
      PROVE  DOMAIN c \subseteq Path /\ c = [x \in DOMAIN c |-> c[x]]
  <2>1. DOMAIN upd \subseteq Path
    BY PathsAssumption DEF Batches
  <2>2. c = [x \in DOMAIN c |-> c[x]] /\ DOMAIN c \subseteq DOMAIN root \cup DOMAIN upd
    BY <1>3 DEF Updated
  <2> QED
    BY <1>1, <2>1, <2>2
<1>4. ASSUME NEW x \in DOMAIN root, NEW y \in Path \ DOMAIN root,
             c = [z \in (DOMAIN root \ {x}) \cup {y} |-> root[IF z = y THEN x ELSE z]]
      PROVE  DOMAIN c \subseteq Path /\ c = [z \in DOMAIN c |-> c[z]]
  <2>1. c = [z \in DOMAIN c |-> c[z]] /\ DOMAIN c \subseteq DOMAIN root \cup {y}
    BY <1>4
  <2> QED
    BY <1>1, <2>1
<1>5. CASE c \in {Updated(root, upd) : upd \in Batches}
  BY <1>3, <1>5
<1>6. CASE c \in {[z \in (DOMAIN root \ {x}) \cup {y} |-> root[IF z = y THEN x ELSE z]] :
                      x \in DOMAIN root, y \in Path \ DOMAIN root}
  <2>1. PICK x \in DOMAIN root, y \in Path \ DOMAIN root :
           c = [z \in (DOMAIN root \ {x}) \cup {y} |-> root[IF z = y THEN x ELSE z]]
    BY <1>6
  <2> QED
    BY <1>4, <2>1
<1> QED
  BY <1>2, <1>5, <1>6 DEF Neighbours

\* No batch and no move of a leaf keeps the root hash of a store.
THEOREM HashSafe == Spec => []HashFaithful
<1>1. IndInv /\ ReadInv => HashFaithful
  <2> SUFFICES ASSUME IndInv, ReadInv, up, NEW c \in Neighbours \cup {Placeholder},
                      RootHash(c) = RootHash(root)
               PROVE  c = root
    BY DEF HashFaithful
  <2>1. DOMAIN root \subseteq AllPaths /\ root = [x \in DOMAIN root |-> root[x]]
    BY RootContent
  <2>2. DOMAIN root \subseteq Path
    BY <2>1, PathsAssumption DEF AllPaths
  <2>3. DOMAIN c \subseteq Path /\ c = [x \in DOMAIN c |-> c[x]]
    BY <2>1, NeighbourContent
  <2> QED
    BY <2>1, <2>2, <2>3, RootHashInjective
<1> QED
  BY <1>1, Invariance, ReadInvariance, PTL

\* The siblings of an offered proof are a sequence.
LEMMA OfferedShape ==
    ASSUME IndInv, ReadInv, up, NEW proof \in Offered
    PROVE  \E l, H : \E s \in Seq(H) : proof = Proof(l, s)
<1> DEFINE made   == {ProofOf(lineage[w].val, x) : w \in DOMAIN lineage, x \in AllPaths}
           cut(p) == UNION {{SubSeq(p.siblings, 1, i), SubSeq(p.siblings, i + 1, Len(p.siblings))} :
                              i \in 0 .. Len(p.siblings)}
           cuts   == UNION {cut(p) : p \in made}
           leaves == {{}} \cup UNION {{{ProofLeaf(x, lineage[w].val[x])} :
                              x \in DOMAIN lineage[w].val} : w \in DOMAIN lineage}
<1>0. PICK l \in leaves, s \in cuts : proof = Proof(l, s)
  <2>1. Offered = {Proof(l, s) : l \in leaves, s \in cuts}
    BY DEF Offered
  <2> HIDE DEF leaves, cuts
  <2> QED
    BY <2>1
<1>1. PICK p \in made : s \in cut(p)
  <2> HIDE DEF made, cut
  <2> QED
    BY <1>0
<1>2. PICK w \in DOMAIN lineage, x \in AllPaths : p = ProofOf(lineage[w].val, x)
  OBVIOUS
<1> DEFINE c == lineage[w].val
           n == Stop(c, x)
           t == [k \in 1 .. n |-> Beside(c, x, n - k)]
           H == {t[k] : k \in 1 .. n}
<1>3. DOMAIN c \subseteq Path /\ x \in Path
  BY RootContent, PathsAssumption DEF AllPaths
<1>4. n \in Nat
  BY <1>3, StopIs, MaxDepthNat
<1>5. t \in Seq(H)
  BY <1>4
<1>6. p.siblings = t
  BY <1>2 DEF ProofOf, Proof
<1> HIDE DEF t, H, made, leaves
<1>7. s \in Seq(H)
  <2>0. PICK i \in 0 .. Len(t) : s \in {SubSeq(t, 1, i), SubSeq(t, i + 1, Len(t))}
    BY <1>1, <1>6
  <2>1. i \in Nat /\ i <= Len(t) /\ Len(t) \in Nat
    BY <1>5
  <2>2. SubSeq(t, 1, i) \in Seq(H)
    BY <1>5, <2>1, SubSeqProperties
  <2>3. SubSeq(t, i + 1, Len(t)) \in Seq(H)
    BY <1>5, <2>1, SubSeqProperties
  <2> QED
    BY <2>0, <2>2, <2>3
<1> QED
  BY <1>0, <1>7

\* No offered proof makes Verify accept what the current version contradicts.
THEOREM ProofsSafe == Spec => []ProofsSound
<1>1. IndInv /\ ReadInv => ProofsSound
  <2> SUFFICES ASSUME IndInv, ReadInv, up, NEW proof \in Offered, NEW x \in AllPaths
               PROVE  Verify(RootHash(root), x, proof) \in {Rejected, Statement(root, x)}
    BY DEF ProofsSound
  <2>1. DOMAIN root \subseteq Path /\ x \in Path
    BY RootContent, PathsAssumption DEF AllPaths
  <2>2. PICK l, H : \E s \in Seq(H) : proof = Proof(l, s)
    BY OfferedShape
  <2> QED
    BY <2>1, <2>2, VerifySound
<1> QED
  BY <1>1, Invariance, ReadInvariance, PTL
=============================================================================

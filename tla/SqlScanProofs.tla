--------------------------- MODULE SqlScanProofs ----------------------------
(***************************************************************************)
(* Proofs about SqlScan: for every table, chunk size, transaction overlay    *)
(* and interleaving of commits, a scan answers in order, misses no row that  *)
(* was there all along, invents none, and fails or repeats a row only in a   *)
(* race or over an index entry that stands for no row.                       *)
(*                                                                         *)
(* The argument: what is left of the overlay, the chunk and the part of the  *)
(* space not read yet lie in this order behind what was answered, and every  *)
(* entry that is due is in one of them (ScanInv).  The lemmas before it are  *)
(* about sorted sequences of entries: InOrder lists a finite set, a chunk is *)
(* the entries from one point up to another, and taking the head or the last *)
(* of a sorted sequence leaves the others on one side of it.                 *)
(***************************************************************************)
EXTENDS SqlScan, FiniteSetTheorems, TLAPS

Entry == Nat \X Nat

Sorted(s) == \A i, j \in DOMAIN s : i < j => Less(s[i], s[j])

\* Every entry of S comes before every entry of T.
Below(S, T) == \A d \in S, e \in T : Less(d, e)

-----------------------------------------------------------------------------
(* The inductive invariant.                                                 *)

Iter ==
    [state : {"open", "failed", "ended"}, secondary : BOOLEAN, reverse : BOOLEAN,
     next : Entry, buf : Seq(Entry), done : BOOLEAN, adds : Seq(Entry),
     masks : SUBSET Entry, out : Seq(Entry), always : SUBSET Entry,
     ever : SUBSET Entry, stale : SUBSET Entry, moved : BOOLEAN]

RowsTypeOK ==
    /\ table \in [ScanKeys -> ScanRow]
    /\ DOMAIN buf \subseteq ScanKeys
    /\ buf \in [DOMAIN buf -> [old : ScanRow, new : ScanRow]]

ScanTypeOK ==
    /\ RowsTypeOK
    /\ it \in Iter
    /\ space \subseteq Entry /\ IsFiniteSet(space)

\* The entries a scan may have met.
Met == it.ever \cup it.stale

\* What the history variables say of the table and the space as they are now.
LivedThrough ==
    /\ it.masks = OverlayMasks(it)
    /\ Stored(it, table) \subseteq space
    /\ space \subseteq Stored(it, table) \cup it.stale
    /\ it.secondary \/ it.stale = {}
    /\ it.always \subseteq Stored(it, table)
    /\ Stored(it, table) \subseteq it.ever
    /\ ~it.moved => ~Moved(table)

\* A scan that has failed was raced or met an entry that stands for no row.
FailedInRace ==
    it.state = "failed" =>
        Raced \/ \E e \in it.stale \ it.masks : ReadRowTxn(e[2]) = Absent

\* Forwards: the answers, then the chunk and the overlay, then what is still to
\* be read; nothing due is missing from them.
ForwardInv ==
    /\ Sorted(it.buf) /\ Sorted(it.adds) /\ Sorted(it.out)
    /\ Below(ToSet(it.out), ToSet(it.buf))
    /\ Below(ToSet(it.out), ToSet(it.adds))
    /\ Below(ToSet(it.buf), {it.next})
    /\ ~it.done => Below(ToSet(it.out), {it.next})
    /\ ToSet(it.buf) \subseteq Met
    /\ ToSet(it.adds) \subseteq OverlayAdds(it)
    /\ ToSet(it.out) \subseteq Seen(Met)
    /\ it.state # "failed" =>
        /\ OverlayAdds(it) \subseteq ToSet(it.adds) \cup ToSet(it.out)
        /\ \A e \in it.always \ it.masks :
            it.done \/ Less(e, it.next) =>
                e \in ToSet(it.out) \cup ToSet(it.buf) \cup OverlayAdds(it)
    /\ it.state = "ended" => it.done /\ it.buf = << >> /\ it.adds = << >>

\* Backwards, while the chunks are collected: nothing is answered yet.
CollectInv ==
    /\ it.out = << >>
    /\ it.state = "open"
    /\ Sorted(it.buf)
    /\ Below(ToSet(it.buf), {it.next})
    /\ ToSet(it.buf) \subseteq Met
    /\ ToSet(it.adds) = OverlayAdds(it)
    /\ \A e \in it.always : Less(e, it.next) => e \in ToSet(it.buf)

\* Backwards, once they are merged: the answers lie behind what is left.
BackwardInv ==
    /\ Sorted(it.buf)
    /\ \A i, j \in DOMAIN it.out : i < j => Less(it.out[j], it.out[i])
    /\ Below(ToSet(it.buf), ToSet(it.out))
    /\ ToSet(it.buf) \cup ToSet(it.out) \subseteq Seen(Met)
    /\ it.state # "failed" => Seen(it.always) \subseteq ToSet(it.buf) \cup ToSet(it.out)
    /\ it.state = "ended" => it.buf = << >>

ScanInv ==
    /\ ScanTypeOK
    /\ LivedThrough
    /\ FailedInRace
    /\ ~it.reverse => ForwardInv
    /\ it.reverse /\ ~it.done => CollectInv
    /\ it.reverse /\ it.done => BackwardInv

-----------------------------------------------------------------------------
(* The order of entries.                                                    *)

\* Less is a strict total order on entries.
LEMMA LessOrder ==
    /\ \A d \in Entry : ~Less(d, d)
    /\ \A d, e \in Entry : Less(d, e) \/ d = e \/ Less(e, d)
    /\ \A d, e \in Entry : Less(d, e) => ~Less(e, d) /\ d # e
    /\ \A c, d, e \in Entry : Less(c, d) /\ Less(d, e) => Less(c, e)
    /\ \A c, d, e \in Entry : Less(c, d) /\ ~Less(e, d) => Less(c, e)
    /\ \A c, d, e \in Entry : ~Less(d, c) /\ Less(d, e) => Less(c, e)
BY DEF Entry, Less

\* Resuming after d is at the least entry above d.
LEMMA ResumeAfter ==
    ASSUME NEW d \in Entry
    PROVE  /\ <<d[1], d[2] + 1>> \in Entry
           /\ Less(d, <<d[1], d[2] + 1>>)
           /\ \A e \in Entry : Less(e, <<d[1], d[2] + 1>>) <=> ~Less(d, e)
BY DEF Entry, Less

-----------------------------------------------------------------------------
(* Listing a finite set in order.                                           *)

Rank(S, e) == Cardinality({d \in S : Less(d, e)})

\* The rank of an entry of a finite set is below the size of the set.
LEMMA RankBound ==
    ASSUME NEW S, S \subseteq Entry, IsFiniteSet(S), NEW e \in S
    PROVE  Rank(S, e) \in Nat /\ Rank(S, e) < Cardinality(S)
<1> DEFINE D == {d \in S : Less(d, e)}
<1>1. D \in SUBSET S /\ D # S
  BY LessOrder
<1> HIDE DEF D
<1>2. IsFiniteSet(D) /\ Cardinality(D) =< Cardinality(S) /\ Cardinality(D) # Cardinality(S)
  BY <1>1, FS_Subset
<1>3. Cardinality(D) \in Nat /\ Cardinality(S) \in Nat
  BY <1>2, FS_CardinalityType
<1> QED
  BY <1>2, <1>3 DEF Rank, D

\* Ranks are in the order of the entries.
LEMMA RankLess ==
    ASSUME NEW S, S \subseteq Entry, IsFiniteSet(S), NEW c \in S, NEW e \in S,
           Less(c, e)
    PROVE  Rank(S, c) < Rank(S, e)
<1> DEFINE C == {d \in S : Less(d, c)}
           D == {d \in S : Less(d, e)}
<1>1. C \in SUBSET D /\ c \in D /\ c \notin C /\ D \in SUBSET S
  BY LessOrder
<1> HIDE DEF C, D
<1>2. IsFiniteSet(D) 
  BY <1>1, FS_Subset
<1>3. IsFiniteSet(C) /\ Cardinality(C) =< Cardinality(D) /\ Cardinality(C) # Cardinality(D)
  BY <1>1, <1>2, FS_Subset
<1>4. Cardinality(C) \in Nat /\ Cardinality(D) \in Nat
  BY <1>2, <1>3, FS_CardinalityType
<1> QED
  BY <1>3, <1>4 DEF Rank, C, D

\* Every place up to the size of a finite set is the rank of one of its entries.
LEMMA RankOnto ==
    ASSUME NEW S, S \subseteq Entry, IsFiniteSet(S), NEW n \in 1 .. Cardinality(S)
    PROVE  \E e \in S : Rank(S, e) = n - 1
<1> DEFINE m == Cardinality(S)
           f == [e \in S |-> Rank(S, e) + 1]
<1>1. m \in Nat
  BY FS_CardinalityType
<1>2. f \in [S -> 1 .. m]
  BY <1>1, RankBound
<1>3. \A c, e \in S : f[c] = f[e] => c = e
  <2> SUFFICES ASSUME NEW c \in S, NEW e \in S, f[c] = f[e], c # e PROVE FALSE
    OBVIOUS
  <2>1. Rank(S, c) \in Nat /\ Rank(S, e) \in Nat /\ Rank(S, c) = Rank(S, e)
    BY RankBound
  <2>2. Less(c, e) \/ Less(e, c)
    BY LessOrder
  <2> QED
    BY <2>1, <2>2, RankLess
<1>4. IsFiniteSet(1 .. m) /\ Cardinality(1 .. m) = m
  BY <1>1, FS_Interval
<1> HIDE DEF f
<1>5. f \in Injection(S, 1 .. m)
  BY <1>2, <1>3 DEF Injection, IsInjective
<1>6. f \in Surjection(S, 1 .. m)
  BY <1>4, <1>5, FS_Injection
<1>7. PICK e \in S : f[e] = n
  BY <1>6 DEF Surjection
<1>8. Rank(S, e) \in Nat
  BY RankBound
<1> QED
  BY <1>7, <1>8 DEF f

\* InOrder lists the entries of a finite set, each once, in order.
LEMMA InOrderLists ==
    ASSUME NEW S, S \subseteq Entry, IsFiniteSet(S)
    PROVE  /\ InOrder(S) \in Seq(Entry)
           /\ Len(InOrder(S)) = Cardinality(S)
           /\ Sorted(InOrder(S))
           /\ ToSet(InOrder(S)) = S
<1> DEFINE m == Cardinality(S)
           s == InOrder(S)
<1>1. m \in Nat
  BY FS_CardinalityType
<1>2. ASSUME NEW n \in 1 .. m PROVE s[n] \in S /\ Rank(S, s[n]) = n - 1
  <2>1. s[n] = CHOOSE e \in S : Rank(S, e) = n - 1
    BY DEF InOrder, Rank
  <2> QED
    BY <2>1, RankOnto
<1>3. s \in [1 .. m -> S]
  BY <1>2 DEF InOrder
<1>4. DOMAIN s = 1 .. m
  BY DEF InOrder
<1> HIDE DEF s
<1>5. s \in Seq(Entry) /\ Len(s) = m
  BY <1>1, <1>2, <1>3
<1>6. Sorted(s)
  <2> SUFFICES ASSUME NEW i \in 1 .. m, NEW j \in 1 .. m, i < j PROVE Less(s[i], s[j])
    BY <1>4 DEF Sorted
  <2>1. s[i] \in S /\ s[j] \in S /\ Rank(S, s[i]) < Rank(S, s[j])
    BY <1>1, <1>2
  <2>2. s[i] = s[j] \/ Less(s[j], s[i]) => FALSE
    <3>1. Rank(S, s[i]) \in Nat /\ Rank(S, s[j]) \in Nat
      BY <2>1, RankBound
    <3>2. CASE s[i] = s[j]
      BY <2>1, <3>1, <3>2
    <3>3. CASE Less(s[j], s[i])
      BY <2>1, <3>1, <3>3, RankLess
    <3> QED
      BY <3>2, <3>3
  <2> QED
    BY <2>1, <2>2, LessOrder
<1>7. ASSUME NEW e \in S PROVE \E n \in 1 .. m : s[n] = e
  <2>1. Rank(S, e) \in Nat /\ Rank(S, e) < m
    BY RankBound
  <2>2. Rank(S, e) + 1 \in 1 .. m
    BY <1>1, <2>1
  <2> DEFINE n == Rank(S, e) + 1
  <2>3. s[n] \in S /\ Rank(S, s[n]) = Rank(S, e)
    BY <1>2, <2>1, <2>2
  <2>4. ~Less(s[n], e) /\ ~Less(e, s[n])
    <3> HIDE DEF n
    <3> QED
      BY <2>1, <2>3, RankLess
  <2> QED
    BY <2>2, <2>3, <2>4, LessOrder
<1>8. ToSet(s) = S
  BY <1>2, <1>4, <1>7 DEF ToSet
<1> QED
  BY <1>5, <1>6, <1>8 DEF s

-----------------------------------------------------------------------------
(* Sorted sequences.                                                        *)

\* A sequence without elements is empty.
LEMMA SeqElements ==
    ASSUME NEW s \in Seq(Entry)
    PROVE  /\ ToSet(s) \subseteq Entry
           /\ s = << >> <=> ToSet(s) = {}
           /\ \A i \in 1 .. Len(s) : s[i] \in ToSet(s)
           /\ \A e \in ToSet(s) : \E i \in 1 .. Len(s) : e = s[i]
           /\ DOMAIN s = 1 .. Len(s) /\ Len(s) \in Nat
<1>1. DOMAIN s = 1 .. Len(s) /\ Len(s) \in Nat
  OBVIOUS
<1>2. \A i \in 1 .. Len(s) : s[i] \in ToSet(s) /\ s[i] \in Entry
  BY <1>1 DEF ToSet
<1>3. \A e \in ToSet(s) : \E i \in 1 .. Len(s) : e = s[i]
  BY <1>1 DEF ToSet
<1>4. s # << >> => 1 \in 1 .. Len(s)
  OBVIOUS
<1>5. s = << >> => Len(s) = 0
  OBVIOUS
<1> QED
  BY <1>1, <1>2, <1>3, <1>4, <1>5

\* The head of a sorted sequence comes before the rest.
LEMMA HeadTail ==
    ASSUME NEW s \in Seq(Entry), s # << >>, Sorted(s)
    PROVE  /\ Head(s) \in Entry /\ Tail(s) \in Seq(Entry)
           /\ ToSet(s) = {Head(s)} \cup ToSet(Tail(s))
           /\ Below({Head(s)}, ToSet(Tail(s)))
           /\ Sorted(Tail(s))
<1>1. /\ Tail(s) \in Seq(Entry) /\ Len(s) \in Nat \ {0} /\ Len(Tail(s)) = Len(s) - 1
      /\ Head(s) = s[1] /\ 1 \in 1 .. Len(s)
      /\ \A i \in 1 .. Len(s) - 1 : Tail(s)[i] = s[i + 1]
  OBVIOUS
<1>2. Head(s) \in Entry
  BY <1>1, SeqElements
<1>3. ASSUME NEW e \in ToSet(s), e # Head(s) PROVE e \in ToSet(Tail(s))
  <2>1. PICK i \in 1 .. Len(s) : e = s[i]
    BY SeqElements
  <2>2. i - 1 \in 1 .. Len(s) - 1 /\ Tail(s)[i - 1] = e
    BY <1>1, <1>3, <2>1
  <2> QED
    BY <1>1, <2>2, SeqElements
<1>4. ASSUME NEW e \in ToSet(Tail(s)) PROVE e \in ToSet(s) /\ Less(Head(s), e)
  <2>1. PICK i \in 1 .. Len(s) - 1 : e = Tail(s)[i]
    BY <1>1, SeqElements
  <2>2. i + 1 \in 1 .. Len(s) /\ e = s[i + 1] /\ 1 < i + 1
    BY <1>1, <2>1
  <2> QED
    BY <1>1, <2>2, SeqElements DEF Sorted
<1>5. Sorted(Tail(s))
  <2> SUFFICES ASSUME NEW i \in 1 .. Len(s) - 1, NEW j \in 1 .. Len(s) - 1, i < j
               PROVE  Less(Tail(s)[i], Tail(s)[j])
    BY <1>1, SeqElements DEF Sorted
  <2>1. i + 1 \in DOMAIN s /\ j + 1 \in DOMAIN s /\ i + 1 < j + 1
    BY <1>1, SeqElements
  <2> QED
    BY <1>1, <2>1 DEF Sorted
<1>6. Head(s) \in ToSet(s)
  BY <1>1, SeqElements
<1> QED
  BY <1>1, <1>2, <1>3, <1>4, <1>5, <1>6 DEF Below

\* A prefix of a sequence.
LEMMA PrefixOf ==
    ASSUME NEW s \in Seq(Entry), NEW n \in Nat, n =< Len(s)
    PROVE  /\ SubSeq(s, 1, n) \in Seq(Entry)
           /\ Len(SubSeq(s, 1, n)) = n
           /\ \A i \in 1 .. n : SubSeq(s, 1, n)[i] = s[i]
<1>1. \A i \in 1 .. n : s[i] \in Entry
  BY SeqElements
<1>2. n < 1 => n = 0
  OBVIOUS
<1> QED
  BY <1>1, <1>2

\* The last of a sorted sequence comes after the rest.
LEMMA FrontLast ==
    ASSUME NEW s \in Seq(Entry), s # << >>, Sorted(s)
    PROVE  /\ Last(s) \in Entry /\ Front(s) \in Seq(Entry)
           /\ ToSet(s) = {Last(s)} \cup ToSet(Front(s))
           /\ Below(ToSet(Front(s)), {Last(s)})
           /\ Sorted(Front(s))
<1>1. /\ Front(s) \in Seq(Entry) /\ Len(s) \in Nat \ {0} /\ Len(Front(s)) = Len(s) - 1
      /\ Last(s) = s[Len(s)] /\ Len(s) \in 1 .. Len(s)
      /\ \A i \in 1 .. Len(s) - 1 : Front(s)[i] = s[i]
  <2> DEFINE n == Len(s) - 1
  <2>1. Len(s) \in Nat \ {0} /\ n \in Nat /\ n =< Len(s)
    OBVIOUS
  <2>2. Front(s) = SubSeq(s, 1, n) /\ Last(s) = s[Len(s)]
    BY DEF Front, Last
  <2> HIDE DEF n
  <2>3. /\ SubSeq(s, 1, n) \in Seq(Entry) /\ Len(SubSeq(s, 1, n)) = n
        /\ \A i \in 1 .. n : SubSeq(s, 1, n)[i] = s[i]
    BY <2>1, PrefixOf
  <2> QED
    BY <2>1, <2>2, <2>3 DEF n
<1>2. Last(s) \in Entry
  BY <1>1, SeqElements
<1>3. ASSUME NEW e \in ToSet(s), e # Last(s) PROVE e \in ToSet(Front(s))
  <2>1. PICK i \in 1 .. Len(s) : e = s[i]
    BY SeqElements
  <2>2. i \in 1 .. Len(s) - 1 /\ Front(s)[i] = e
    BY <1>1, <1>3, <2>1
  <2> QED
    BY <1>1, <2>2, SeqElements
<1>4. ASSUME NEW e \in ToSet(Front(s)) PROVE e \in ToSet(s) /\ Less(e, Last(s))
  <2>1. PICK i \in 1 .. Len(s) - 1 : e = Front(s)[i]
    BY <1>1, SeqElements
  <2>2. i \in 1 .. Len(s) /\ e = s[i] /\ i < Len(s)
    BY <1>1, <2>1
  <2>3. i \in DOMAIN s /\ Len(s) \in DOMAIN s /\ e \in ToSet(s)
    BY <1>1, <2>2, SeqElements
  <2> QED
    BY <1>1, <2>2, <2>3 DEF Sorted
<1>5. Sorted(Front(s))
  <2> SUFFICES ASSUME NEW i \in 1 .. Len(s) - 1, NEW j \in 1 .. Len(s) - 1, i < j
               PROVE  Less(Front(s)[i], Front(s)[j])
    BY <1>1, SeqElements DEF Sorted
  <2>1. i \in DOMAIN s /\ j \in DOMAIN s
    BY <1>1, SeqElements
  <2> QED
    BY <1>1, <2>1 DEF Sorted
<1>6. Last(s) \in ToSet(s)
  BY <1>1, SeqElements
<1> QED
  BY <1>1, <1>2, <1>3, <1>4, <1>5, <1>6 DEF Below

\* What Append adds.
LEMMA Appended ==
    ASSUME NEW s \in Seq(Entry), NEW e \in Entry
    PROVE  /\ Append(s, e) \in Seq(Entry)
           /\ ToSet(Append(s, e)) = ToSet(s) \cup {e}
           /\ DOMAIN Append(s, e) = DOMAIN s \cup {Len(s) + 1}
           /\ \A i \in DOMAIN s : i < Len(s) + 1 /\ Append(s, e)[i] = s[i]
           /\ Append(s, e)[Len(s) + 1] = e
<1>1. /\ Append(s, e) \in Seq(Entry) /\ Len(Append(s, e)) = Len(s) + 1 /\ Len(s) \in Nat
      /\ Append(s, e)[Len(s) + 1] = e
      /\ \A i \in 1 .. Len(s) : Append(s, e)[i] = s[i]
  OBVIOUS
<1>2. /\ DOMAIN s = 1 .. Len(s) /\ DOMAIN Append(s, e) = 1 .. Len(s) + 1
      /\ 1 .. Len(s) + 1 = 1 .. Len(s) \cup {Len(s) + 1}
  BY <1>1
<1>3. ToSet(Append(s, e)) = ToSet(s) \cup {e}
  BY <1>1, <1>2 DEF ToSet
<1> QED
  BY <1>1, <1>2, <1>3

\* An entry after all others keeps a sequence sorted.
LEMMA AppendSorted ==
    ASSUME NEW s \in Seq(Entry), NEW e \in Entry, Sorted(s), Below(ToSet(s), {e})
    PROVE  Sorted(Append(s, e))
<1> SUFFICES ASSUME NEW i \in DOMAIN Append(s, e), NEW j \in DOMAIN Append(s, e), i < j
             PROVE  Less(Append(s, e)[i], Append(s, e)[j])
  BY DEF Sorted
<1>1. i \in DOMAIN s
  BY Appended, SeqElements
<1>2. CASE j \in DOMAIN s
  BY <1>1, <1>2, Appended DEF Sorted
<1>3. CASE j = Len(s) + 1
  <2>1. s[i] \in ToSet(s)
    BY <1>1, SeqElements
  <2> QED
    BY <1>1, <1>3, <2>1, Appended DEF Below
<1> QED
  BY <1>2, <1>3, Appended

\* Two sorted sequences one after the other.
LEMMA ConcatSorted ==
    ASSUME NEW s \in Seq(Entry), NEW t \in Seq(Entry), Sorted(s), Sorted(t),
           Below(ToSet(s), ToSet(t))
    PROVE  /\ s \o t \in Seq(Entry)
           /\ ToSet(s \o t) = ToSet(s) \cup ToSet(t)
           /\ Sorted(s \o t)
<1> DEFINE u == s \o t
<1>1. /\ u \in Seq(Entry) /\ Len(s) \in Nat /\ Len(t) \in Nat
      /\ Len(u) = Len(s) + Len(t) /\ DOMAIN u = 1 .. Len(u)
      /\ \A i \in 1 .. Len(s) : u[i] = s[i]
      /\ \A i \in 1 .. Len(u) : i > Len(s) => u[i] = t[i - Len(s)]
  OBVIOUS
<1> HIDE DEF u
<1>2. ASSUME NEW e \in ToSet(s) PROVE e \in ToSet(u)
  BY <1>1, SeqElements
<1>3. ASSUME NEW e \in ToSet(t) PROVE e \in ToSet(u)
  <2>1. PICK i \in 1 .. Len(t) : e = t[i]
    BY SeqElements
  <2>2. i + Len(s) \in 1 .. Len(u) /\ i + Len(s) > Len(s) /\ (i + Len(s)) - Len(s) = i
    BY <1>1
  <2> QED
    BY <1>1, <2>1, <2>2, SeqElements
<1>4. ASSUME NEW i \in 1 .. Len(u)
      PROVE  IF i > Len(s) THEN i - Len(s) \in DOMAIN t /\ u[i] \in ToSet(t)
             ELSE i \in DOMAIN s /\ u[i] \in ToSet(s)
  BY <1>1, SeqElements
<1>5. ToSet(u) = ToSet(s) \cup ToSet(t)
  <2> SUFFICES ASSUME NEW e \in ToSet(u) PROVE e \in ToSet(s) \cup ToSet(t)
    BY <1>2, <1>3
  <2>1. PICK i \in 1 .. Len(u) : e = u[i]
    BY <1>1, SeqElements
  <2> QED
    BY <1>4, <2>1
<1>6. Sorted(u)
  <2> SUFFICES ASSUME NEW i \in 1 .. Len(u), NEW j \in 1 .. Len(u), i < j
               PROVE  Less(u[i], u[j])
    BY <1>1 DEF Sorted
  <2>1. CASE j =< Len(s)
    <3>1. i \in DOMAIN s /\ j \in DOMAIN s /\ u[i] = s[i] /\ u[j] = s[j]
      BY <1>1, <2>1
    <3> QED
      BY <3>1 DEF Sorted
  <2>2. CASE i > Len(s)
    <3>1. /\ i - Len(s) \in DOMAIN t /\ j - Len(s) \in DOMAIN t /\ i - Len(s) < j - Len(s)
          /\ u[i] = t[i - Len(s)] /\ u[j] = t[j - Len(s)]
      BY <1>1, <2>2
    <3> QED
      BY <3>1 DEF Sorted
  <2>3. CASE ~(i > Len(s)) /\ j > Len(s)
    BY <1>4, <2>3 DEF Below
  <2> QED
    BY <1>1, <2>1, <2>2, <2>3
<1> QED
  BY <1>1, <1>5, <1>6 DEF u

-----------------------------------------------------------------------------
(* The space that is scanned, the overlay and the chunks.                   *)

\* The entry of a row is an entry under its key.
LEMMA EntryIs ==
    ASSUME NEW i, i.secondary \in BOOLEAN, NEW k \in ScanKeys, NEW r \in ScanVals
    PROVE  EntryOf(i, k, r) \in Entry /\ EntryOf(i, k, r)[2] = k
<1>1. k \in Nat /\ r \in Nat
  BY ScanAssumption
<1>2. CASE i.secondary
  <2>1. EntryOf(i, k, r) = <<r, k>>
    BY <1>2 DEF EntryOf
  <2> QED
    BY <1>1, <2>1 DEF Entry
<1>3. CASE ~i.secondary
  <2>1. EntryOf(i, k, r) = <<0, k>>
    BY <1>3 DEF EntryOf
  <2> QED
    BY <1>1, <2>1 DEF Entry
<1> QED
  BY <1>2, <1>3

EntriesOf(i, D, g) == {EntryOf(i, k, g[k]) : k \in D}

\* The entries of a finite set of rows are entries, and finitely many.
LEMMA EntriesOfRows ==
    ASSUME NEW i, i.secondary \in BOOLEAN, NEW D, D \subseteq ScanKeys,
           NEW g, \A k \in D : g[k] \in ScanVals
    PROVE  EntriesOf(i, D, g) \subseteq Entry /\ IsFiniteSet(EntriesOf(i, D, g))
<1> DEFINE E == EntriesOf(i, D, g)
           f == [k \in D |-> EntryOf(i, k, g[k])]
<1>1. E \subseteq Entry
  BY EntryIs DEF EntriesOf
<1>2. IsFiniteSet(D)
  BY ScanAssumption, FS_Subset
<1>3. f \in Surjection(D, E)
  BY DEF Surjection, EntriesOf
<1> HIDE DEF E, f
<1>4. IsFiniteSet(E)
  BY <1>2, <1>3, FS_Surjection
<1> QED
  BY <1>1, <1>4 DEF E

\* The committed entries.
LEMMA StoredEntries ==
    ASSUME NEW i, i.secondary \in BOOLEAN, NEW t \in [ScanKeys -> ScanRow]
    PROVE  Stored(i, t) \subseteq Entry /\ IsFiniteSet(Stored(i, t))
<1> DEFINE D == {j \in ScanKeys : t[j] # Absent}
<1>1. D \subseteq ScanKeys /\ \A k \in D : t[k] \in ScanVals
  BY DEF ScanRow
<1>2. Stored(i, t) = EntriesOf(i, D, t)
  BY DEF Stored, EntriesOf
<1> HIDE DEF D
<1>3. EntriesOf(i, D, t) \subseteq Entry /\ IsFiniteSet(EntriesOf(i, D, t))
  BY <1>1, EntriesOfRows
<1> QED
  BY <1>2, <1>3

\* The buffered entries and the hidden ones.
LEMMA OverlayEntries ==
    ASSUME RowsTypeOK, NEW i, i.secondary \in BOOLEAN
    PROVE  /\ OverlayAdds(i) \subseteq Entry /\ IsFiniteSet(OverlayAdds(i))
           /\ OverlayMasks(i) \subseteq Entry
<1> DEFINE D == {j \in DOMAIN buf : buf[j].new # Absent}
           F == {j \in DOMAIN buf : buf[j].old # Absent}
           g == [k \in DOMAIN buf |-> buf[k].new]
           h == [k \in DOMAIN buf |-> buf[k].old]
<1>1. D \subseteq ScanKeys /\ \A k \in D : g[k] \in ScanVals
  BY DEF RowsTypeOK, ScanRow
<1>2. F \subseteq ScanKeys /\ \A k \in F : h[k] \in ScanVals
  BY DEF RowsTypeOK, ScanRow
<1>3. OverlayAdds(i) = EntriesOf(i, D, g)
  BY DEF OverlayAdds, EntriesOf
<1>4. OverlayMasks(i) \subseteq EntriesOf(i, F, h)
  BY DEF OverlayMasks, EntriesOf
<1> HIDE DEF D, F, g, h
<1>5. EntriesOf(i, F, h) \subseteq Entry
  BY <1>2, EntriesOfRows
<1>6. EntriesOf(i, D, g) \subseteq Entry /\ IsFiniteSet(EntriesOf(i, D, g))
  <2>1. ASSUME NEW K, K \subseteq ScanKeys, NEW r, \A k \in K : r[k] \in ScanVals
        PROVE  EntriesOf(i, K, r) \subseteq Entry /\ IsFiniteSet(EntriesOf(i, K, r))
    BY <2>1, EntriesOfRows
  <2> QED
    BY <1>1, <2>1
<1>7. OverlayAdds(i) \subseteq Entry /\ IsFiniteSet(OverlayAdds(i))
  BY <1>3, <1>6
<1> QED
  BY <1>4, <1>5, <1>7

\* The overlay and the space depend on which space is scanned only.
LEMMA SameSpace ==
    ASSUME NEW i, NEW j, i.secondary = j.secondary
    PROVE  /\ OverlayAdds(i) = OverlayAdds(j)
           /\ OverlayMasks(i) = OverlayMasks(j)
           /\ \A t : Stored(i, t) = Stored(j, t)
BY DEF OverlayAdds, OverlayMasks, Stored, EntryOf

\* A chunk holds the entries of the space from one entry up to where the scan resumes,
\* in order, and all that are left when it is the last.
LEMMA ChunkIs ==
    ASSUME ScanTypeOK, NEW from \in Entry
    PROVE  /\ Chunk(from) \in Seq(Entry)
           /\ Sorted(Chunk(from))
           /\ ToSet(Chunk(from)) \subseteq space
           /\ \A e \in ToSet(Chunk(from)) : ~Less(e, from)
           /\ Resumed(from, Chunk(from)) \in Entry
           /\ ~Less(Resumed(from, Chunk(from)), from)
           /\ Below(ToSet(Chunk(from)), {Resumed(from, Chunk(from))})
           /\ \A e \in space :
                /\ ~Less(e, from)
                /\ LastChunk(Chunk(from)) \/ Less(e, Resumed(from, Chunk(from)))
                => e \in ToSet(Chunk(from))
<1> DEFINE D == {e \in space : ~Less(e, from)}
           s == InOrder(D)
           n == IF Len(s) < ScanChunk THEN Len(s) ELSE ScanChunk
           kvs == Chunk(from)
           end == Resumed(from, kvs)
<1>1. D \subseteq Entry /\ IsFiniteSet(D)
  <2>1. space \subseteq Entry /\ IsFiniteSet(space)
    BY DEF ScanTypeOK
  <2>2. D \in SUBSET space
    OBVIOUS
  <2> HIDE DEF D
  <2> QED
    BY <2>1, <2>2, FS_Subset
<1>2. s \in Seq(Entry) /\ Sorted(s) /\ ToSet(s) = D
  <2> HIDE DEF D
  <2> QED
    BY <1>1, InOrderLists
<1>3. kvs = SubSeq(s, 1, n)
  BY DEF Chunk
<1>4. D \subseteq space /\ \A e \in space : e \in D <=> ~Less(e, from)
  OBVIOUS
<1> HIDE DEF D, s, kvs
<1>5. n \in Nat /\ n =< Len(s) /\ ScanChunk \in Nat \ {0} /\ Len(s) \in Nat
  BY <1>2, ScanAssumption
<1> HIDE DEF n
<1>6. kvs \in Seq(Entry) /\ Len(kvs) = n /\ \A i \in 1 .. n : kvs[i] = s[i]
  BY <1>2, <1>3, <1>5, PrefixOf
<1>7. DOMAIN s = 1 .. Len(s) /\ DOMAIN kvs = 1 .. n
  BY <1>2, <1>6, SeqElements
<1>8. Sorted(kvs)
  BY <1>2, <1>5, <1>6, <1>7 DEF Sorted
<1>9. \A e \in ToSet(kvs) : e \in D
  <2> SUFFICES ASSUME NEW e \in ToSet(kvs) PROVE e \in D
    OBVIOUS
  <2>1. PICK i \in 1 .. n : e = kvs[i]
    BY <1>6, SeqElements
  <2>2. i \in 1 .. Len(s) /\ e = s[i]
    BY <1>5, <1>6, <2>1
  <2> QED
    BY <1>2, <2>2, SeqElements
<1>10. ASSUME kvs = << >>
       PROVE  end = from /\ Len(s) = 0 /\ s = << >>
  <2>1. n = 0
    BY <1>6, <1>10
  <2> QED
    BY <1>2, <1>5, <1>10, <2>1 DEF Resumed, n
<1>11. ASSUME kvs # << >>
       PROVE  /\ n \in 1 .. n /\ n \in 1 .. Len(s) /\ Last(kvs) = s[n]
              /\ s[n] \in D /\ end = <<s[n][1], s[n][2] + 1>>
  <2>1. n \in 1 .. n /\ n \in 1 .. Len(s)
    BY <1>5, <1>6, <1>11
  <2>2. Last(kvs) = s[n] /\ s[n] \in D
    BY <1>2, <1>6, <2>1, SeqElements DEF Last
  <2> QED
    BY <1>11, <2>1, <2>2 DEF Resumed
<1>12. end \in Entry /\ ~Less(end, from)
  <2>1. CASE kvs = << >>
    BY <1>10, <2>1, LessOrder
  <2>2. CASE kvs # << >>
    <3>1. s[n] \in Entry /\ ~Less(s[n], from)
      BY <1>1, <1>4, <1>11, <2>2
    <3>2. end \in Entry /\ Less(s[n], end)
      BY <1>11, <2>2, <3>1, ResumeAfter
    <3> QED
      BY <3>1, <3>2, LessOrder
  <2> QED
    BY <2>1, <2>2
<1>13. ASSUME NEW e \in ToSet(kvs) PROVE Less(e, end)
  <2>1. kvs # << >>
    BY <1>6, <1>13, SeqElements
  <2>2. PICK i \in 1 .. n : e = kvs[i]
    BY <1>6, SeqElements
  <2>3. e \in Entry /\ s[n] \in Entry
    BY <1>1, <1>9, <1>11, <2>1
  <2>4. ~Less(s[n], e)
    <3>1. i = n \/ Less(s[i], s[n])
      BY <1>2, <1>5, <1>7, <1>11, <2>1 DEF Sorted
    <3> QED
      BY <1>6, <2>2, <2>3, <3>1, LessOrder
  <2> QED
    BY <1>11, <2>1, <2>3, <2>4, ResumeAfter
<1>14. ASSUME NEW e \in space, ~Less(e, from), LastChunk(kvs) \/ Less(e, end)
       PROVE  e \in ToSet(kvs)
  <2>1. e \in D /\ e \in Entry
    BY <1>1, <1>4, <1>14
  <2>2. PICK j \in 1 .. Len(s) : e = s[j]
    BY <1>2, <2>1, SeqElements
  <2>3. kvs # << >>
    <3>1. Len(s) # 0
      BY <1>5, <2>2
    <3> QED
      BY <1>10, <3>1
  <2>4. j =< n
    <3>1. CASE LastChunk(kvs)
      BY <1>5, <1>6, <2>2, <3>1 DEF LastChunk, n
    <3>2. CASE Less(e, end)
      <4>1. s[n] \in Entry /\ ~Less(s[n], e)
        BY <1>1, <1>11, <2>1, <2>3, <3>2, ResumeAfter
      <4> QED
        BY <1>2, <1>5, <1>7, <1>11, <2>2, <2>3, <4>1 DEF Sorted
    <3> QED
      BY <1>14, <3>1, <3>2
  <2>5. j \in 1 .. n /\ kvs[j] = e
    BY <1>5, <1>6, <2>2, <2>4
  <2> QED
    BY <1>6, <2>5, SeqElements
<1> QED
  BY <1>4, <1>6, <1>8, <1>9, <1>12, <1>13, <1>14 DEF kvs, Below

-----------------------------------------------------------------------------
(* What holds of every step.                                                *)

\* A step of the iterator changes neither the rows nor what is recorded of them.
StepOfIter ==
    /\ table' = table /\ space' = space /\ buf' = buf
    /\ it'.secondary = it.secondary /\ it'.reverse = it.reverse
    /\ it'.masks = it.masks /\ it'.always = it.always
    /\ it'.ever = it.ever /\ it'.stale = it.stale /\ it'.moved = it.moved

\* The overlay, and what the history variables say, survive such a step.
LEMMA HistoryKept ==
    ASSUME LivedThrough, StepOfIter
    PROVE  /\ LivedThrough'
           /\ OverlayAdds(it)' = OverlayAdds(it)
           /\ OverlayMasks(it)' = it.masks
           /\ it.masks = OverlayMasks(it)
           /\ Seen(Met)' = Seen(Met)
           /\ Met' = Met
<1>1. OverlayAdds(it)' = OverlayAdds(it) /\ OverlayMasks(it)' = OverlayMasks(it)
  BY DEF StepOfIter, OverlayAdds, OverlayMasks, EntryOf
<1>2. Stored(it, table)' = Stored(it, table)
  BY DEF StepOfIter, Stored, EntryOf
<1>3. Moved(table)' <=> Moved(table)
  BY DEF StepOfIter, Moved
<1>4. Met' = Met /\ Seen(Met)' = Seen(Met)
  BY <1>1 DEF StepOfIter, Met, Seen
<1> QED
  BY <1>1, <1>2, <1>3, <1>4 DEF StepOfIter, LivedThrough

\* Without a race an entry the transaction sees is that of the row it reads.
LEMMA SeenRow ==
    ASSUME ScanTypeOK, LivedThrough, it.ever = it.always, ~it.moved,
           NEW e \in Seen(it.ever)
    PROVE  /\ ReadRowTxn(e[2]) # Absent
           /\ e = EntryOf(it, e[2], ReadRowTxn(e[2]))
<1>0. it.secondary \in BOOLEAN
  BY DEF ScanTypeOK, Iter
<1>1. it.ever = Stored(it, table) /\ \A k \in DOMAIN buf : buf[k].old = table[k]
  BY DEF LivedThrough, Moved
<1>2. ASSUME e \in OverlayAdds(it)
      PROVE  ReadRowTxn(e[2]) # Absent /\ e = EntryOf(it, e[2], ReadRowTxn(e[2]))
  <2>1. PICK k \in DOMAIN buf : buf[k].new # Absent /\ e = EntryOf(it, k, buf[k].new)
    BY <1>2 DEF OverlayAdds
  <2>2. k \in ScanKeys /\ buf[k].new \in ScanVals
    BY <2>1 DEF ScanTypeOK, RowsTypeOK, ScanRow
  <2>3. e[2] = k
    BY <1>0, <2>1, <2>2, EntryIs
  <2> QED
    BY <2>1, <2>3 DEF ReadRowTxn
<1>3. CASE e \in Stored(it, table) /\ e \notin OverlayMasks(it)
  <2>1. PICK k \in ScanKeys : table[k] # Absent /\ e = EntryOf(it, k, table[k])
    BY <1>3 DEF Stored
  <2>2. table[k] \in ScanVals
    BY <2>1 DEF ScanTypeOK, RowsTypeOK, ScanRow
  <2>3. e[2] = k
    BY <1>0, <2>1, <2>2, EntryIs
  <2>4. CASE k \in DOMAIN buf
    <3>1. e = EntryOf(it, k, buf[k].old) /\ buf[k].old # Absent
      BY <1>1, <2>1, <2>4
    <3>2. e \in OverlayAdds(it)
      BY <1>3, <2>4, <3>1 DEF OverlayMasks
    <3> QED
      BY <1>2, <3>2
  <2>5. CASE k \notin DOMAIN buf
    BY <2>1, <2>3, <2>5 DEF ReadRowTxn
  <2> QED
    BY <2>4, <2>5
<1> QED
  BY <1>1, <1>2, <1>3 DEF Seen

\* Answering with an entry the transaction sees fails in a race only, or over an
\* entry that stands for no row.
LEMMA AnswerRaces ==
    ASSUME ScanTypeOK, LivedThrough, FailedInRace, it.state = "open", StepOfIter,
           NEW e \in Seen(Met),
           it'.state = "open" \/ (it'.state = "failed" /\ ReadRowTxn(e[2]) = Absent)
    PROVE  FailedInRace'
<1>1. e \in Seen(it.ever) \/ e \in it.stale \ it.masks
  BY DEF Seen, Met, LivedThrough
<1>2. ReadRowTxn(e[2]) = Absent => Raced \/ e \in it.stale \ it.masks
  BY <1>1, SeenRow DEF Raced
<1>3. /\ Raced' <=> Raced
      /\ it'.stale = it.stale /\ it'.masks = it.masks
      /\ ReadRowTxn(e[2])' = ReadRowTxn(e[2])
  BY DEF StepOfIter, Raced, ReadRowTxn
<1> QED
  BY <1>2, <1>3 DEF FailedInRace

-----------------------------------------------------------------------------
(* The initial states.                                                      *)

\* PartitionRows establishes the invariant: the overlay is listed, nothing is
\* read or answered yet, and no entry lies below the start.
LEMMA InitInv == ScanInit => ScanInv
<1> SUFFICES ASSUME ScanInit PROVE ScanInv
  OBVIOUS
<1>1. RowsTypeOK
  BY DEF ScanInit, RowsTypeOK
<1>2. PICK secondary \in BOOLEAN, reverse \in BOOLEAN,
           stale \in SUBSET (ScanVals \X ScanKeys) :
        /\ it = NewIter(secondary, reverse, stale)
        /\ IsFiniteSet(stale) /\ (secondary \/ stale = {})
        /\ space = Stored(it, table) \cup stale
  BY DEF ScanInit
<1> DEFINE i == [state |-> "open", secondary |-> secondary, reverse |-> reverse,
                 next |-> <<0, 0>>, buf |-> << >>, done |-> FALSE, adds |-> << >>,
                 masks |-> {}, out |-> << >>, always |-> {}, ever |-> {},
                 stale |-> stale, moved |-> Moved(table)]
<1>3. it = [i EXCEPT !.adds = InOrder(OverlayAdds(i)), !.masks = OverlayMasks(i),
                     !.always = Stored(i, table), !.ever = Stored(i, table)]
  BY <1>2 DEF NewIter
<1>4. i.secondary = secondary /\ i.secondary \in BOOLEAN
  OBVIOUS
<1>5. it = [state |-> "open", secondary |-> secondary, reverse |-> reverse,
            next |-> <<0, 0>>, buf |-> << >>, done |-> FALSE,
            adds |-> InOrder(OverlayAdds(i)), masks |-> OverlayMasks(i),
            out |-> << >>, always |-> Stored(i, table), ever |-> Stored(i, table),
            stale |-> stale, moved |-> Moved(table)]
  BY <1>3
<1> HIDE DEF i
<1>6. it.secondary = secondary
  BY <1>5
<1>7. OverlayAdds(it) = OverlayAdds(i) /\ OverlayMasks(it) = OverlayMasks(i)
      /\ Stored(it, table) = Stored(i, table)
  BY <1>4, <1>6, SameSpace
<1>8. /\ OverlayAdds(i) \subseteq Entry /\ IsFiniteSet(OverlayAdds(i))
      /\ OverlayMasks(i) \subseteq Entry
  BY <1>1, <1>4, OverlayEntries
<1>9. /\ Stored(i, table) \subseteq Entry /\ IsFiniteSet(Stored(i, table))
      /\ stale \subseteq Entry
  <2>1. ScanVals \subseteq Nat /\ ScanKeys \subseteq Nat
    BY ScanAssumption
  <2> QED
    BY <1>1, <1>4, <2>1, StoredEntries DEF RowsTypeOK, Entry
<1>10. /\ InOrder(OverlayAdds(i)) \in Seq(Entry) /\ Sorted(InOrder(OverlayAdds(i)))
       /\ ToSet(InOrder(OverlayAdds(i))) = OverlayAdds(i)
  BY <1>8, InOrderLists
<1>11. /\ it.state = "open" /\ it.secondary = secondary /\ it.reverse = reverse
       /\ it.next = <<0, 0>> /\ it.buf = << >> /\ it.done = FALSE
       /\ it.adds = InOrder(OverlayAdds(i)) /\ it.masks = OverlayMasks(i)
       /\ it.out = << >> /\ it.always = Stored(i, table) /\ it.ever = Stored(i, table)
       /\ it.stale = stale /\ it.moved = Moved(table)
  BY <1>5
<1>12. Moved(table) \in BOOLEAN
  BY DEF Moved
<1>13. <<0, 0>> \in Entry /\ \A e \in Entry : ~Less(e, <<0, 0>>)
  BY DEF Entry, Less
<1>14. it \in Iter
  BY <1>5, <1>8, <1>9, <1>10, <1>12, <1>13 DEF Iter
<1>15. LivedThrough /\ FailedInRace
  BY <1>2, <1>7, <1>11 DEF LivedThrough, FailedInRace
<1>19. space \subseteq Entry /\ IsFiniteSet(space)
  BY <1>2, <1>7, <1>9, FS_Union
<1>16. << >> \in Seq(Entry) /\ ToSet(<< >>) = {} /\ Sorted(<< >>)
  BY DEF ToSet, Sorted
<1>17. ForwardInv
  <2>1. Below({}, ToSet(it.adds)) /\ Below({}, {}) /\ Below({}, {it.next})
    BY DEF Below
  <2>2. \A e \in it.always \ it.masks : ~Less(e, it.next)
    BY <1>9, <1>11, <1>13
  <2> QED
    BY <1>7, <1>10, <1>11, <1>16, <2>1, <2>2 DEF ForwardInv, Seen, Met
<1>18. CollectInv
  <2>1. Below({}, {it.next})
    BY DEF Below
  <2>2. \A e \in it.always : ~Less(e, it.next)
    BY <1>9, <1>11, <1>13
  <2> QED
    BY <1>7, <1>10, <1>11, <1>16, <2>1, <2>2 DEF CollectInv
<1> QED
  BY <1>1, <1>11, <1>14, <1>15, <1>17, <1>18, <1>19 DEF ScanInv, ScanTypeOK

-----------------------------------------------------------------------------
(* The steps, forwards.                                                     *)

\* The parts of the iterator have their types.
LEMMA IterFields ==
    ASSUME ScanTypeOK
    PROVE  /\ it.next \in Entry /\ it.buf \in Seq(Entry) /\ it.adds \in Seq(Entry)
           /\ it.out \in Seq(Entry) /\ it.masks \subseteq Entry
           /\ it.always \subseteq Entry /\ it.ever \subseteq Entry
           /\ it.secondary \in BOOLEAN /\ it.reverse \in BOOLEAN /\ it.done \in BOOLEAN
           /\ ToSet(it.buf) \subseteq Entry /\ ToSet(it.adds) \subseteq Entry
           /\ ToSet(it.out) \subseteq Entry
<1>1. /\ it.next \in Entry /\ it.buf \in Seq(Entry) /\ it.adds \in Seq(Entry)
      /\ it.out \in Seq(Entry) /\ it.masks \subseteq Entry
      /\ it.always \subseteq Entry /\ it.ever \subseteq Entry
      /\ it.secondary \in BOOLEAN /\ it.reverse \in BOOLEAN /\ it.done \in BOOLEAN
  BY DEF ScanTypeOK, Iter
<1> QED
  BY <1>1, SeqElements

\* Reading the next chunk.
LEMMA NextChunkInv == ASSUME ScanInv, NextChunk PROVE ScanInv'
<1> DEFINE kvs == Chunk(it.next)
           end == Resumed(it.next, kvs)
           last == LastChunk(kvs)
<1>1. ScanTypeOK /\ LivedThrough /\ ForwardInv
  BY DEF ScanInv, NextChunk
<1>2. /\ it' = [it EXCEPT !.buf = kvs, !.next = end, !.done = last]
      /\ table' = table /\ space' = space /\ buf' = buf
      /\ it.state = "open" /\ it.buf = << >> /\ it.done = FALSE /\ it.reverse = FALSE
  BY <1>1, IterFields DEF NextChunk, SetIter
<1>3. /\ kvs \in Seq(Entry) /\ Sorted(kvs) /\ ToSet(kvs) \subseteq space
      /\ \A e \in ToSet(kvs) : ~Less(e, it.next)
      /\ end \in Entry /\ ~Less(end, it.next) /\ Below(ToSet(kvs), {end})
      /\ \A e \in space :
            ~Less(e, it.next) /\ (last \/ Less(e, end)) => e \in ToSet(kvs)
  BY <1>1, IterFields, ChunkIs
<1>4. last \in BOOLEAN
  BY DEF LastChunk
<1> HIDE DEF kvs, end, last
<1>5. /\ it'.buf = kvs /\ it'.next = end /\ it'.done = last /\ it'.adds = it.adds
      /\ it'.out = it.out /\ it'.state = "open" /\ it'.reverse = FALSE /\ it'.masks = it.masks
      /\ it'.always = it.always /\ it'.ever = it.ever /\ StepOfIter
  BY <1>1, <1>2 DEF ScanTypeOK, Iter, StepOfIter
<1>6. ScanTypeOK'
  BY <1>1, <1>2, <1>3, <1>4 DEF ScanTypeOK, RowsTypeOK, Iter
<1>7. LivedThrough' /\ OverlayAdds(it)' = OverlayAdds(it) /\ OverlayMasks(it)' = it.masks
      /\ it.masks = OverlayMasks(it) /\ Met' = Met /\ Seen(Met)' = Seen(Met)
  BY <1>1, <1>5, HistoryKept
<1>8. FailedInRace'
  BY <1>5 DEF FailedInRace
<1>9. /\ it.out \in Seq(Entry) /\ it.next \in Entry /\ ToSet(it.out) \subseteq Entry
      /\ it.always \subseteq Entry /\ ToSet(kvs) \subseteq Entry /\ ToSet(it.buf) = {}
  BY <1>1, <1>2, <1>3, IterFields, SeqElements
<1>10. /\ Sorted(it.adds) /\ Sorted(it.out) /\ Below(ToSet(it.out), ToSet(it.adds))
       /\ Below(ToSet(it.out), {it.next}) /\ ToSet(it.adds) \subseteq OverlayAdds(it)
       /\ ToSet(it.out) \subseteq Seen(Met)
       /\ OverlayAdds(it) \subseteq ToSet(it.adds) \cup ToSet(it.out)
       /\ \A e \in it.always \ it.masks :
             Less(e, it.next) => e \in ToSet(it.out) \cup OverlayAdds(it)
  BY <1>1, <1>2, <1>9 DEF ForwardInv
<1>11. Below(ToSet(it.out), ToSet(kvs)) /\ Below(ToSet(it.out), {end})
  BY <1>3, <1>9, <1>10, LessOrder DEF Below
<1>12. \A e \in it.always \ it.masks :
          last \/ Less(e, end) => e \in ToSet(it.out) \cup ToSet(kvs) \cup OverlayAdds(it)
  BY <1>1, <1>3, <1>10 DEF LivedThrough
<1>13. ToSet(kvs) \subseteq Met
  BY <1>1, <1>3 DEF LivedThrough, Met
<1>14. Seen(Met)' = Seen(Met)
  BY <1>7
<1>15. ForwardInv'
  BY <1>3, <1>5, <1>7, <1>10, <1>11, <1>12, <1>13, <1>14 DEF ForwardInv
<1> QED
  BY <1>5, <1>6, <1>7, <1>8, <1>15 DEF ScanInv

\* Answering from the overlay: its head is not above the chunk's.
LEMMA NextFromOverlayInv == ASSUME ScanInv, NextFromOverlay PROVE ScanInv'
<1> DEFINE e == Head(it.adds)
           same == it.buf # << >> /\ e = Head(it.buf)
           rest == IF same THEN Tail(it.buf) ELSE it.buf
           found == ReadRowTxn(e[2]) # Absent
<1>1. ScanTypeOK /\ LivedThrough /\ FailedInRace /\ ForwardInv
  BY DEF ScanInv, NextFromOverlay, Ready
<1>2. /\ it' = IF found THEN [it EXCEPT !.adds = Tail(it.adds), !.buf = rest,
                                        !.out = Append(it.out, e)]
               ELSE [it EXCEPT !.adds = Tail(it.adds), !.buf = rest, !.state = "failed"]
      /\ table' = table /\ space' = space /\ buf' = buf
      /\ it.state = "open" /\ it.reverse = FALSE /\ it.adds # << >>
      /\ it.buf # << >> \/ it.done
      /\ it.buf # << >> => ~Less(Head(it.buf), e)
  BY <1>1, IterFields DEF NextFromOverlay, Ready, Answer, SetIter, ScanTypeOK, Iter
<1>3. /\ it.adds \in Seq(Entry) /\ it.buf \in Seq(Entry) /\ it.out \in Seq(Entry)
      /\ it.next \in Entry /\ ToSet(it.out) \subseteq Entry /\ ToSet(it.buf) \subseteq Entry
      /\ it.done \in BOOLEAN
  BY <1>1, IterFields
<1>4. Sorted(it.adds) /\ Sorted(it.buf) /\ Sorted(it.out)
  BY <1>1 DEF ForwardInv
<1>5. /\ e \in Entry /\ Tail(it.adds) \in Seq(Entry) /\ Sorted(Tail(it.adds))
      /\ ToSet(it.adds) = {e} \cup ToSet(Tail(it.adds)) /\ Below({e}, ToSet(Tail(it.adds)))
  BY <1>2, <1>3, <1>4, HeadTail
<1>6. /\ rest \in Seq(Entry) /\ Sorted(rest) /\ ToSet(rest) \subseteq ToSet(it.buf)
      /\ ToSet(it.buf) \subseteq {e} \cup ToSet(rest)
      /\ Below({e}, ToSet(rest))
      /\ it.buf # << >> => Below({e}, {it.next})
  <2>1. CASE it.buf = << >>
    <3>1. ToSet(it.buf) = {} /\ rest = it.buf
      BY <1>3, <2>1, SeqElements
    <3> QED
      BY <1>3, <1>4, <2>1, <3>1 DEF Below
  <2>2. CASE it.buf # << >>
    <3>1. /\ Head(it.buf) \in Entry /\ Tail(it.buf) \in Seq(Entry) /\ Sorted(Tail(it.buf))
          /\ ToSet(it.buf) = {Head(it.buf)} \cup ToSet(Tail(it.buf))
          /\ Below({Head(it.buf)}, ToSet(Tail(it.buf)))
      BY <1>3, <1>4, <2>2, HeadTail
    <3>2. ~Less(Head(it.buf), e) /\ Below(ToSet(it.buf), {it.next})
      BY <1>1, <1>2, <2>2 DEF ForwardInv
    <3>3. Below({e}, {it.next})
      BY <1>3, <1>5, <3>1, <3>2, LessOrder DEF Below
    <3>4. CASE same
      <4>1. rest = Tail(it.buf) /\ e = Head(it.buf)
        BY <3>4
      <4> QED
        BY <3>1, <3>3, <4>1
    <3>5. CASE ~same
      <4>1. rest = it.buf /\ Less(e, Head(it.buf))
        BY <1>5, <2>2, <3>1, <3>2, <3>5, LessOrder
      <4>2. ToSet(Tail(it.buf)) \subseteq Entry
        BY <3>1, SeqElements
      <4>3. Below({e}, ToSet(rest))
        BY <1>5, <3>1, <4>1, <4>2, LessOrder DEF Below
      <4> QED
        BY <1>3, <1>4, <3>3, <4>1, <4>3
    <3> QED
      BY <3>4, <3>5
  <2> QED
    BY <2>1, <2>2
<1> HIDE DEF e, rest, found
<1>7. /\ Append(it.out, e) \in Seq(Entry) /\ ToSet(Append(it.out, e)) = ToSet(it.out) \cup {e}
  BY <1>3, <1>5, Appended
<1>8. /\ it'.adds = Tail(it.adds) /\ it'.buf = rest /\ it'.next = it.next
      /\ it'.done = it.done /\ it'.masks = it.masks /\ it'.always = it.always
      /\ it'.ever = it.ever /\ it'.reverse = FALSE /\ StepOfIter
  BY <1>1, <1>2 DEF ScanTypeOK, Iter, StepOfIter
<1>9. \/ it'.state = "open" /\ it'.out = Append(it.out, e)
      \/ it'.state = "failed" /\ it'.out = it.out /\ ReadRowTxn(e[2]) = Absent
  BY <1>1, <1>2 DEF ScanTypeOK, Iter, found
<1>10. ScanTypeOK'
  BY <1>1, <1>2, <1>5, <1>6, <1>7 DEF ScanTypeOK, RowsTypeOK, Iter
<1>11. LivedThrough' /\ OverlayAdds(it)' = OverlayAdds(it) /\ OverlayMasks(it)' = it.masks
       /\ it.masks = OverlayMasks(it) /\ Met' = Met /\ Seen(Met)' = Seen(Met)
  BY <1>1, <1>8, HistoryKept
<1>12. e \in OverlayAdds(it) /\ e \in Seen(Met)
  BY <1>1, <1>5 DEF ForwardInv, Seen
<1>13. FailedInRace'
  BY <1>1, <1>2, <1>8, <1>9, <1>12, AnswerRaces
<1>14. Seen(Met)' = Seen(Met)
  BY <1>11
<1>15. /\ Below(ToSet(it.out), ToSet(it.buf)) /\ Below(ToSet(it.out), ToSet(it.adds))
       /\ Below(ToSet(it.buf), {it.next})
       /\ ~it.done => Below(ToSet(it.out), {it.next})
       /\ ToSet(it.buf) \subseteq Met /\ ToSet(it.adds) \subseteq OverlayAdds(it)
       /\ ToSet(it.out) \subseteq Seen(Met)
       /\ OverlayAdds(it) \subseteq ToSet(it.adds) \cup ToSet(it.out)
       /\ \A d \in it.always \ it.masks :
            it.done \/ Less(d, it.next) =>
                d \in ToSet(it.out) \cup ToSet(it.buf) \cup OverlayAdds(it)
  BY <1>1, <1>2 DEF ForwardInv
<1>16. Below(ToSet(it.out), {e}) /\ Below(ToSet(it.out), ToSet(Tail(it.adds)))
       /\ Below(ToSet(it.out), ToSet(rest)) /\ Below(ToSet(rest), {it.next})
  BY <1>5, <1>6, <1>15 DEF Below
<1>17. CASE it'.state = "open" /\ it'.out = Append(it.out, e)
  <2>1. Sorted(Append(it.out, e))
    BY <1>3, <1>4, <1>5, <1>16, AppendSorted
  <2>2. /\ Below(ToSet(it'.out), ToSet(rest)) /\ Below(ToSet(it'.out), ToSet(Tail(it.adds)))
        /\ ~it.done => Below(ToSet(it'.out), {it.next})
    BY <1>2, <1>5, <1>6, <1>7, <1>15, <1>16, <1>17 DEF Below
  <2>3. /\ ToSet(it'.out) \subseteq Seen(Met)
        /\ OverlayAdds(it) \subseteq ToSet(Tail(it.adds)) \cup ToSet(it'.out)
        /\ \A d \in it.always \ it.masks :
            it.done \/ Less(d, it.next) =>
                d \in ToSet(it'.out) \cup ToSet(rest) \cup OverlayAdds(it)
    BY <1>5, <1>6, <1>7, <1>12, <1>15, <1>17
  <2>4. ForwardInv'
    BY <1>4, <1>5, <1>6, <1>8, <1>11, <1>14, <1>15, <1>16, <1>17, <2>1, <2>2, <2>3
    DEF ForwardInv
  <2> QED
    BY <1>8, <1>10, <1>11, <1>13, <2>4 DEF ScanInv
<1>18. CASE it'.state = "failed" /\ it'.out = it.out
  <2>1. ForwardInv'
    BY <1>4, <1>5, <1>6, <1>8, <1>11, <1>14, <1>15, <1>16, <1>18 DEF ForwardInv
  <2> QED
    BY <1>8, <1>10, <1>11, <1>13, <2>1 DEF ScanInv
<1> QED
  BY <1>9, <1>17, <1>18

\* Answering from the chunk, or passing over a hidden entry: its head is below
\* the overlay's.
LEMMA NextFromChunkInv == ASSUME ScanInv, NextFromChunk PROVE ScanInv'
<1> DEFINE e == Head(it.buf)
           rest == Tail(it.buf)
           found == ReadRowTxn(e[2]) # Absent
<1>1. ScanTypeOK /\ LivedThrough /\ FailedInRace /\ ForwardInv
  BY DEF ScanInv, NextFromChunk, Ready
<1>2. /\ it' = IF e \in it.masks THEN [it EXCEPT !.buf = rest]
               ELSE IF found THEN [it EXCEPT !.buf = rest, !.out = Append(it.out, e)]
               ELSE [it EXCEPT !.buf = rest, !.state = "failed"]
      /\ table' = table /\ space' = space /\ buf' = buf
      /\ it.state = "open" /\ it.reverse = FALSE /\ it.buf # << >>
      /\ it.adds # << >> => Less(e, Head(it.adds))
  BY <1>1, IterFields DEF NextFromChunk, Ready, Answer, SetIter, ScanTypeOK, Iter
<1>3. /\ it.adds \in Seq(Entry) /\ it.buf \in Seq(Entry) /\ it.out \in Seq(Entry)
      /\ it.next \in Entry /\ ToSet(it.out) \subseteq Entry /\ ToSet(it.adds) \subseteq Entry
      /\ it.done \in BOOLEAN
  BY <1>1, IterFields
<1>4. Sorted(it.adds) /\ Sorted(it.buf) /\ Sorted(it.out)
  BY <1>1 DEF ForwardInv
<1>5. /\ e \in Entry /\ rest \in Seq(Entry) /\ Sorted(rest)
      /\ ToSet(it.buf) = {e} \cup ToSet(rest) /\ Below({e}, ToSet(rest))
  BY <1>2, <1>3, <1>4, HeadTail
<1>6. Below({e}, ToSet(it.adds))
  <2>1. CASE it.adds = << >>
    BY <1>3, <2>1, SeqElements DEF Below
  <2>2. CASE it.adds # << >>
    <3>1. /\ Head(it.adds) \in Entry /\ Less(e, Head(it.adds))
          /\ ToSet(it.adds) = {Head(it.adds)} \cup ToSet(Tail(it.adds))
          /\ Below({Head(it.adds)}, ToSet(Tail(it.adds)))
      BY <1>2, <1>3, <1>4, <2>2, HeadTail
    <3> QED
      BY <1>3, <1>5, <3>1, LessOrder DEF Below
  <2> QED
    BY <2>1, <2>2
<1> HIDE DEF e, rest, found
<1>7. Append(it.out, e) \in Seq(Entry) /\ ToSet(Append(it.out, e)) = ToSet(it.out) \cup {e}
  BY <1>3, <1>5, Appended
<1>8. /\ it'.adds = it.adds /\ it'.buf = rest /\ it'.next = it.next
      /\ it'.done = it.done /\ it'.masks = it.masks /\ it'.always = it.always
      /\ it'.ever = it.ever /\ it'.reverse = FALSE /\ StepOfIter
  BY <1>1, <1>2 DEF ScanTypeOK, Iter, StepOfIter
<1>9. \/ e \in it.masks /\ it'.state = "open" /\ it'.out = it.out
      \/ e \notin it.masks /\ it'.state = "open" /\ it'.out = Append(it.out, e)
      \/ /\ e \notin it.masks /\ it'.state = "failed" /\ it'.out = it.out
         /\ ReadRowTxn(e[2]) = Absent
  BY <1>1, <1>2 DEF ScanTypeOK, Iter, found
<1>10. ScanTypeOK'
  BY <1>1, <1>2, <1>5, <1>7 DEF ScanTypeOK, RowsTypeOK, Iter
<1>11. LivedThrough' /\ OverlayAdds(it)' = OverlayAdds(it) /\ OverlayMasks(it)' = it.masks
       /\ it.masks = OverlayMasks(it) /\ Met' = Met /\ Seen(Met)' = Seen(Met)
  BY <1>1, <1>8, HistoryKept
<1>12. e \in Met /\ (e \notin it.masks => e \in Seen(Met))
  BY <1>1, <1>5, <1>11 DEF ForwardInv, Seen
<1>13. FailedInRace'
  <2>1. CASE e \in it.masks
    BY <1>9, <2>1 DEF FailedInRace
  <2>2. CASE e \notin it.masks
    BY <1>1, <1>2, <1>8, <1>9, <1>12, <2>2, AnswerRaces
  <2> QED
    BY <2>1, <2>2
<1>14. Seen(Met)' = Seen(Met)
  BY <1>11
<1>15. /\ Below(ToSet(it.out), ToSet(it.buf)) /\ Below(ToSet(it.out), ToSet(it.adds))
       /\ Below(ToSet(it.buf), {it.next})
       /\ ~it.done => Below(ToSet(it.out), {it.next})
       /\ ToSet(it.buf) \subseteq Met /\ ToSet(it.adds) \subseteq OverlayAdds(it)
       /\ ToSet(it.out) \subseteq Seen(Met)
       /\ OverlayAdds(it) \subseteq ToSet(it.adds) \cup ToSet(it.out)
       /\ \A d \in it.always \ it.masks :
            it.done \/ Less(d, it.next) =>
                d \in ToSet(it.out) \cup ToSet(it.buf) \cup OverlayAdds(it)
  BY <1>1, <1>2 DEF ForwardInv
<1>16. /\ Below(ToSet(it.out), {e}) /\ Below(ToSet(it.out), ToSet(rest))
       /\ Below(ToSet(rest), {it.next}) /\ Below({e}, {it.next})
  BY <1>5, <1>15 DEF Below
<1>17. CASE e \in it.masks /\ it'.state = "open" /\ it'.out = it.out
  <2>1. \A d \in it.always \ it.masks :
            it.done \/ Less(d, it.next) =>
                d \in ToSet(it.out) \cup ToSet(rest) \cup OverlayAdds(it)
    BY <1>5, <1>15, <1>17
  <2>2. ForwardInv'
    BY <1>4, <1>5, <1>8, <1>11, <1>14, <1>15, <1>16, <1>17, <2>1 DEF ForwardInv
  <2> QED
    BY <1>8, <1>10, <1>11, <1>13, <2>2 DEF ScanInv
<1>18. CASE e \notin it.masks /\ it'.state = "open" /\ it'.out = Append(it.out, e)
  <2>1. Sorted(Append(it.out, e))
    BY <1>3, <1>4, <1>5, <1>16, AppendSorted
  <2>2. /\ Below(ToSet(it'.out), ToSet(rest)) /\ Below(ToSet(it'.out), ToSet(it.adds))
        /\ ~it.done => Below(ToSet(it'.out), {it.next})
    BY <1>5, <1>6, <1>7, <1>15, <1>16, <1>18 DEF Below
  <2>3. /\ ToSet(it'.out) \subseteq Seen(Met)
        /\ OverlayAdds(it) \subseteq ToSet(it.adds) \cup ToSet(it'.out)
        /\ \A d \in it.always \ it.masks :
            it.done \/ Less(d, it.next) =>
                d \in ToSet(it'.out) \cup ToSet(rest) \cup OverlayAdds(it)
    BY <1>5, <1>7, <1>12, <1>15, <1>18
  <2>4. ForwardInv'
    BY <1>4, <1>5, <1>8, <1>11, <1>14, <1>15, <1>16, <1>18, <2>1, <2>2, <2>3
    DEF ForwardInv
  <2> QED
    BY <1>8, <1>10, <1>11, <1>13, <2>4 DEF ScanInv
<1>19. CASE it'.state = "failed" /\ it'.out = it.out
  <2>1. ForwardInv'
    BY <1>4, <1>5, <1>8, <1>11, <1>14, <1>15, <1>16, <1>19 DEF ForwardInv
  <2> QED
    BY <1>8, <1>10, <1>11, <1>13, <2>1 DEF ScanInv
<1> QED
  BY <1>9, <1>17, <1>18, <1>19

-----------------------------------------------------------------------------
(* The steps, backwards.                                                    *)

\* Collecting a chunk; the last one is merged with the overlay.
LEMMA ReverseChunkInv == ASSUME ScanInv, ReverseChunk PROVE ScanInv'
<1> DEFINE kvs == Chunk(it.next)
           end == Resumed(it.next, kvs)
           last == LastChunk(kvs)
           all == it.buf \o kvs
           S == (ToSet(all) \ it.masks) \cup ToSet(it.adds)
           new == IF last THEN InOrder(S) ELSE all
<1>1. /\ ScanTypeOK /\ LivedThrough /\ it.reverse = TRUE /\ it.done = FALSE
      /\ CollectInv
  BY IterFields DEF ScanInv, ReverseChunk
<1>2. /\ it' = [it EXCEPT !.next = end, !.done = last, !.buf = new]
      /\ table' = table /\ space' = space /\ buf' = buf
  BY DEF ReverseChunk, SetIter, MergeOverlay
<1>3. /\ kvs \in Seq(Entry) /\ Sorted(kvs) /\ ToSet(kvs) \subseteq space
      /\ \A e \in ToSet(kvs) : ~Less(e, it.next)
      /\ end \in Entry /\ ~Less(end, it.next) /\ Below(ToSet(kvs), {end})
      /\ \A e \in space :
            ~Less(e, it.next) /\ (last \/ Less(e, end)) => e \in ToSet(kvs)
  BY <1>1, IterFields, ChunkIs
<1>4. last \in BOOLEAN
  BY DEF LastChunk
<1> HIDE DEF kvs, end, last
<1>5. /\ it.out = << >> /\ it.state = "open" /\ Sorted(it.buf)
      /\ Below(ToSet(it.buf), {it.next}) /\ ToSet(it.buf) \subseteq Met
      /\ ToSet(it.adds) = OverlayAdds(it)
      /\ \A e \in it.always : Less(e, it.next) => e \in ToSet(it.buf)
  BY <1>1 DEF CollectInv
<1>6. /\ it.buf \in Seq(Entry) /\ it.next \in Entry /\ ToSet(it.buf) \subseteq Entry
      /\ it.always \subseteq Entry /\ ToSet(kvs) \subseteq Entry
  BY <1>1, <1>3, IterFields, SeqElements
<1>7. Below(ToSet(it.buf), ToSet(kvs)) /\ Below(ToSet(it.buf), {end})
  BY <1>3, <1>5, <1>6, LessOrder DEF Below
<1>8. all \in Seq(Entry) /\ ToSet(all) = ToSet(it.buf) \cup ToSet(kvs) /\ Sorted(all)
  BY <1>3, <1>5, <1>6, <1>7, ConcatSorted
<1> HIDE DEF all
<1>9. InOrder(S) \in Seq(Entry) /\ Sorted(InOrder(S)) /\ ToSet(InOrder(S)) = S
  <2>1. OverlayAdds(it) \subseteq Entry /\ IsFiniteSet(OverlayAdds(it))
    BY <1>1, IterFields, OverlayEntries DEF ScanTypeOK
  <2>2. IsFiniteSet(ToSet(all))
    <3>1. all \in Surjection(1 .. Len(all), ToSet(all)) /\ Len(all) \in Nat
      BY <1>8, SeqElements DEF Surjection
    <3>2. IsFiniteSet(1 .. Len(all))
      BY <3>1, FS_Interval
    <3> QED
      BY <3>1, <3>2, FS_Surjection
  <2>3. IsFiniteSet(ToSet(all) \ it.masks)
    BY <2>2, FS_Difference
  <2>4. S = (ToSet(all) \ it.masks) \cup OverlayAdds(it) /\ S \subseteq Entry
    BY <1>5, <1>8, <2>1, SeqElements
  <2>5. IsFiniteSet(S)
    BY <2>1, <2>3, <2>4, FS_Union
  <2> HIDE DEF S
  <2> QED
    BY <2>4, <2>5, InOrderLists
<1>10. new \in Seq(Entry)
  BY <1>8, <1>9
<1> HIDE DEF new
<1>11. /\ it'.buf = new /\ it'.next = end /\ it'.done = last /\ it'.adds = it.adds
       /\ it'.out = << >> /\ it'.state = "open" /\ it'.reverse = TRUE
       /\ it'.masks = it.masks /\ it'.always = it.always /\ it'.ever = it.ever
       /\ StepOfIter
  BY <1>1, <1>2, <1>5 DEF ScanTypeOK, Iter, StepOfIter
<1>12. ScanTypeOK'
  BY <1>1, <1>2, <1>3, <1>4, <1>10 DEF ScanTypeOK, RowsTypeOK, Iter
<1>13. LivedThrough' /\ OverlayAdds(it)' = OverlayAdds(it) /\ OverlayMasks(it)' = it.masks
       /\ it.masks = OverlayMasks(it) /\ Met' = Met /\ Seen(Met)' = Seen(Met)
  BY <1>1, <1>11, HistoryKept
<1>14. FailedInRace'
  BY <1>11 DEF FailedInRace
<1>15. /\ ToSet(all) \subseteq Met
       /\ \A e \in it.always : last \/ Less(e, end) => e \in ToSet(all)
  BY <1>1, <1>3, <1>5, <1>8 DEF LivedThrough, Met
<1>16. CASE ~last
  <2>1. new = all
    BY <1>16 DEF new
  <2>2. Below(ToSet(all), {end})
    BY <1>3, <1>7, <1>8 DEF Below
  <2>3. CollectInv'
    BY <1>5, <1>8, <1>11, <1>13, <1>15, <1>16, <2>1, <2>2 DEF CollectInv
  <2> QED
    BY <1>11, <1>12, <1>13, <1>14, <1>16, <2>3 DEF ScanInv
<1>17. CASE last
  <2>1. new = InOrder(S)
    BY <1>17 DEF new
  <2>2. ToSet(new) = S /\ S = (ToSet(all) \ it.masks) \cup OverlayAdds(it) /\ Sorted(new)
    BY <1>5, <1>9, <2>1
  <2> HIDE DEF S
  <2>3. ToSet(<< >>) = {} /\ DOMAIN << >> = {}
    BY DEF ToSet
  <2>4. Seen(Met)' = (Met \ it.masks) \cup OverlayAdds(it)
        /\ Seen(it.always)' = (it.always \ it.masks) \cup OverlayAdds(it)
    BY <1>11, <1>13 DEF Seen
  <2>5. Below(ToSet(new), {})
    BY DEF Below
  <2>6. BackwardInv'
    BY <1>11, <1>15, <1>17, <2>2, <2>3, <2>4, <2>5 DEF BackwardInv
  <2> QED
    BY <1>11, <1>12, <1>13, <1>14, <1>17, <2>6 DEF ScanInv
<1> QED
  BY <1>16, <1>17

\* Answering from the end of the merged entries.
LEMMA NextReverseInv == ASSUME ScanInv, NextReverse PROVE ScanInv'
<1> DEFINE e == Last(it.buf)
           rest == Front(it.buf)
           found == ReadRowTxn(e[2]) # Absent
<1>1. /\ ScanTypeOK /\ LivedThrough /\ FailedInRace /\ BackwardInv
      /\ it.reverse = TRUE /\ it.done = TRUE
  BY IterFields DEF ScanInv, NextReverse
<1>2. /\ it' = IF found THEN [it EXCEPT !.buf = rest, !.out = Append(it.out, e)]
               ELSE [it EXCEPT !.buf = rest, !.state = "failed"]
      /\ table' = table /\ space' = space /\ buf' = buf
      /\ it.state = "open" /\ it.buf # << >>
  BY <1>1 DEF NextReverse, Answer, SetIter, ScanTypeOK, Iter
<1>3. /\ it.buf \in Seq(Entry) /\ it.out \in Seq(Entry) /\ ToSet(it.out) \subseteq Entry
      /\ Sorted(it.buf) /\ Below(ToSet(it.buf), ToSet(it.out))
      /\ \A i, j \in DOMAIN it.out : i < j => Less(it.out[j], it.out[i])
      /\ ToSet(it.buf) \cup ToSet(it.out) \subseteq Seen(Met)
      /\ Seen(it.always) \subseteq ToSet(it.buf) \cup ToSet(it.out)
  BY <1>1, <1>2, IterFields DEF BackwardInv
<1>4. /\ e \in Entry /\ rest \in Seq(Entry) /\ Sorted(rest)
      /\ ToSet(it.buf) = {e} \cup ToSet(rest) /\ Below(ToSet(rest), {e})
  BY <1>2, <1>3, FrontLast
<1> HIDE DEF e, rest, found
<1>5. Append(it.out, e) \in Seq(Entry) /\ ToSet(Append(it.out, e)) = ToSet(it.out) \cup {e}
  BY <1>3, <1>4, Appended
<1>6. /\ it'.buf = rest /\ it'.done = TRUE /\ it'.reverse = TRUE /\ it'.masks = it.masks
      /\ it'.always = it.always /\ it'.ever = it.ever /\ StepOfIter
  BY <1>1, <1>2 DEF ScanTypeOK, Iter, StepOfIter
<1>7. \/ it'.state = "open" /\ it'.out = Append(it.out, e)
      \/ it'.state = "failed" /\ it'.out = it.out /\ ReadRowTxn(e[2]) = Absent
  BY <1>1, <1>2 DEF ScanTypeOK, Iter, found
<1>8. ScanTypeOK'
  BY <1>1, <1>2, <1>4, <1>5 DEF ScanTypeOK, RowsTypeOK, Iter
<1>9. LivedThrough' /\ OverlayAdds(it)' = OverlayAdds(it) /\ OverlayMasks(it)' = it.masks
      /\ it.masks = OverlayMasks(it) /\ Met' = Met /\ Seen(Met)' = Seen(Met)
  BY <1>1, <1>6, HistoryKept
<1>10. e \in Seen(Met)
  BY <1>3, <1>4
<1>11. FailedInRace'
  BY <1>1, <1>2, <1>6, <1>7, <1>10, AnswerRaces
<1>12. Seen(Met)' = Seen(Met) /\ Seen(it.always)' = Seen(it.always)
  BY <1>6, <1>9 DEF Seen
<1>13. Below(ToSet(rest), ToSet(it.out)) /\ Below({e}, ToSet(it.out))
  BY <1>3, <1>4 DEF Below
<1>14. CASE it'.state = "open" /\ it'.out = Append(it.out, e)
  <2>1. ASSUME NEW i \in DOMAIN it'.out, NEW j \in DOMAIN it'.out, i < j
        PROVE  Less(it'.out[j], it'.out[i])
    <3>1. i \in DOMAIN it.out
      BY <1>3, <1>4, <1>14, <2>1, Appended, SeqElements
    <3>2. it.out[i] \in ToSet(it.out) /\ it'.out[i] = it.out[i]
      BY <1>3, <1>4, <1>14, <3>1, Appended, SeqElements
    <3>3. CASE j \in DOMAIN it.out
      <4>1. it'.out[j] = it.out[j]
        BY <1>3, <1>4, <1>14, <3>3, Appended
      <4> QED
        BY <1>3, <2>1, <3>1, <3>2, <3>3, <4>1
    <3>4. CASE j = Len(it.out) + 1
      <4>1. it'.out[j] = e
        BY <1>3, <1>4, <1>14, <3>4, Appended
      <4> QED
        BY <1>13, <3>2, <4>1 DEF Below
    <3> QED
      BY <1>3, <1>4, <1>14, <3>3, <3>4, Appended
  <2>2. Below(ToSet(rest), ToSet(it'.out))
    BY <1>4, <1>5, <1>13, <1>14 DEF Below
  <2>3. /\ ToSet(rest) \cup ToSet(it'.out) \subseteq Seen(Met)
        /\ Seen(it.always) \subseteq ToSet(rest) \cup ToSet(it'.out)
    BY <1>3, <1>4, <1>5, <1>14
  <2>4. BackwardInv'
    BY <1>4, <1>6, <1>12, <1>14, <2>1, <2>2, <2>3 DEF BackwardInv
  <2> QED
    BY <1>6, <1>8, <1>9, <1>11, <2>4 DEF ScanInv
<1>15. CASE it'.state = "failed" /\ it'.out = it.out
  <2>1. ToSet(rest) \cup ToSet(it.out) \subseteq Seen(Met)
    BY <1>3, <1>4
  <2>2. BackwardInv'
    BY <1>3, <1>4, <1>6, <1>12, <1>13, <1>15, <2>1 DEF BackwardInv
  <2> QED
    BY <1>6, <1>8, <1>9, <1>11, <2>2 DEF ScanInv
<1> QED
  BY <1>7, <1>14, <1>15

-----------------------------------------------------------------------------
(* The end, and commits of other sessions.                                  *)

\* io.EOF, in either direction.
LEMMA EndOfScanInv == ASSUME ScanInv, EndOfScan PROVE ScanInv'
<1>1. ScanTypeOK /\ LivedThrough
  BY DEF ScanInv
<1>2. /\ it' = [it EXCEPT !.state = "ended"] /\ table' = table /\ space' = space /\ buf' = buf
      /\ it.state = "open" /\ it.done = TRUE /\ it.buf = << >>
      /\ it.reverse \/ it.adds = << >>
  BY <1>1, IterFields DEF EndOfScan, SetIter
<1>3. /\ it'.state = "ended" /\ it'.buf = it.buf /\ it'.adds = it.adds /\ it'.out = it.out
      /\ it'.next = it.next /\ it'.done = it.done /\ it'.masks = it.masks
      /\ it'.always = it.always /\ it'.ever = it.ever /\ it'.reverse = it.reverse
      /\ StepOfIter
  BY <1>1, <1>2 DEF ScanTypeOK, Iter, StepOfIter
<1>4. ScanTypeOK'
  BY <1>1, <1>2 DEF ScanTypeOK, RowsTypeOK, Iter
<1>5. LivedThrough' /\ OverlayAdds(it)' = OverlayAdds(it) /\ OverlayMasks(it)' = it.masks
      /\ it.masks = OverlayMasks(it) /\ Met' = Met /\ Seen(Met)' = Seen(Met)
  BY <1>1, <1>3, HistoryKept
<1>6. FailedInRace'
  BY <1>3 DEF FailedInRace
<1>7. Seen(it.always)' = Seen(it.always)
  BY <1>3, <1>5 DEF Seen
<1>8. CASE ~it.reverse
  <2>1. ForwardInv
    BY <1>8 DEF ScanInv
  <2>2. ForwardInv'
    BY <1>2, <1>3, <1>5, <1>7, <1>8, <2>1 DEF ForwardInv
  <2> QED
    BY <1>3, <1>4, <1>5, <1>6, <1>8, <2>2 DEF ScanInv
<1>9. CASE it.reverse
  <2>1. BackwardInv
    BY <1>2, <1>9 DEF ScanInv
  <2>2. BackwardInv'
    BY <1>2, <1>3, <1>5, <1>7, <1>9, <2>1 DEF BackwardInv
  <2> QED
    BY <1>2, <1>3, <1>4, <1>5, <1>6, <1>9, <2>2 DEF ScanInv
<1> QED
  BY <1>8, <1>9

\* Another session commits a row: what was there all along shrinks, what was
\* there at some moment grows, the iterator keeps what it has read.
LEMMA OtherCommitInv ==
    ASSUME ScanInv, NEW k \in ScanKeys, NEW o \in ScanRow, NEW r \in ScanRow,
           OtherCommit(k, o, r)
    PROVE  ScanInv'
<1> DEFINE Gone == IF o = Absent THEN {} ELSE {EntryOf(it, k, o)}
           Come == IF r = Absent THEN {} ELSE {EntryOf(it, k, r)}
           sp == (space \ Gone) \cup Come
<1>1. ScanTypeOK /\ LivedThrough
  BY DEF ScanInv
<1>2. PICK t : t = table'
  OBVIOUS
<1>3. /\ t = [table EXCEPT ![k] = r] /\ buf' = buf /\ it.state = "open"
      /\ o # Absent \/ r # Absent
      /\ space' = sp
      /\ it' = [it EXCEPT !.always = it.always \cap Stored(it, t),
                          !.ever = it.ever \cup Stored(it, t),
                          !.stale = it.stale \cup (sp \ Stored(it, t)),
                          !.moved = it.moved \/ Moved(t)]
  BY <1>1, <1>2 DEF OtherCommit, ScanTypeOK, Iter
<1>4. t \in [ScanKeys -> ScanRow] /\ t[k] = r /\ \A j \in ScanKeys : j # k => t[j] = table[j]
  BY <1>1, <1>3 DEF ScanTypeOK, RowsTypeOK
<1>5. Stored(it, t) \subseteq Entry
  BY <1>1, <1>4, IterFields, StoredEntries
<1>18. /\ Gone \subseteq Entry /\ \A e \in Gone : e[2] = k
       /\ Come \subseteq Entry /\ IsFiniteSet(Come)
  <2>1. it.secondary \in BOOLEAN
    BY <1>1, IterFields
  <2>2. /\ o # Absent => EntryOf(it, k, o) \in Entry /\ EntryOf(it, k, o)[2] = k
        /\ r # Absent => EntryOf(it, k, r) \in Entry
    BY <2>1, EntryIs DEF ScanRow
  <2>3. IsFiniteSet({}) /\ IsFiniteSet({EntryOf(it, k, r)})
    BY FS_EmptySet, FS_Singleton
  <2> QED
    BY <2>2, <2>3
<1>19. sp \subseteq Entry /\ IsFiniteSet(sp)
  <2>1. space \subseteq Entry /\ IsFiniteSet(space)
    BY <1>1 DEF ScanTypeOK
  <2>2. IsFiniteSet(space \ Gone)
    BY <2>1, FS_Difference
  <2> HIDE DEF Gone, Come
  <2> QED
    BY <1>18, <2>1, <2>2, FS_Union
<1>20. Stored(it, t) \subseteq sp
  <2> SUFFICES ASSUME NEW e \in Stored(it, t) PROVE e \in sp
    OBVIOUS
  <2>1. PICK j \in ScanKeys : t[j] # Absent /\ e = EntryOf(it, j, t[j])
    BY DEF Stored
  <2>2. CASE j = k
    BY <1>4, <2>1, <2>2
  <2>3. CASE j # k
    <3>1. t[j] = table[j] /\ t[j] \in ScanVals /\ it.secondary \in BOOLEAN
      BY <1>1, <1>4, <2>1, <2>3, IterFields DEF ScanRow
    <3>2. e \in Stored(it, table) /\ e[2] = j
      BY <2>1, <3>1, EntryIs DEF Stored
    <3>3. e \in space
      BY <1>1, <3>2 DEF LivedThrough
    <3> QED
      BY <1>18, <2>3, <3>2, <3>3
  <2> QED
    BY <2>2, <2>3
<1>21. ASSUME ~it.secondary PROVE it.stale = {} /\ sp \subseteq Stored(it, t)
  <2>1. it.stale = {} /\ space \subseteq Stored(it, table)
    BY <1>1, <1>21 DEF LivedThrough
  <2>2. \A x, j : EntryOf(it, j, x) = <<0, j>>
    BY <1>21 DEF EntryOf
  <2>3. ASSUME NEW e \in sp PROVE e \in Stored(it, t)
    <3>1. CASE e \in Come
      BY <1>4, <3>1 DEF Stored
    <3>2. CASE e \in space \ Gone
      <4>1. PICK j \in ScanKeys : table[j] # Absent /\ e = EntryOf(it, j, table[j])
        BY <2>1, <3>2 DEF Stored
      <4>2. CASE j # k
        BY <1>4, <4>1, <4>2 DEF Stored
      <4>3. CASE j = k
        <5>1. r # Absent
          BY <1>3, <2>2, <3>2, <4>1, <4>3
        <5> QED
          BY <1>4, <2>2, <4>1, <4>3, <5>1 DEF Stored
      <4> QED
        BY <4>2, <4>3
    <3> QED
      BY <3>1, <3>2
  <2> QED
    BY <2>1, <2>3
<1> HIDE DEF sp
<1>6. /\ it'.state = "open" /\ it'.buf = it.buf /\ it'.adds = it.adds /\ it'.out = it.out
      /\ it'.next = it.next /\ it'.done = it.done /\ it'.masks = it.masks
      /\ it'.reverse = it.reverse /\ it'.secondary = it.secondary
      /\ it'.always = it.always \cap Stored(it, t) /\ it'.ever = it.ever \cup Stored(it, t)
      /\ it'.stale = it.stale \cup (sp \ Stored(it, t))
      /\ it'.moved = (it.moved \/ Moved(t))
  BY <1>1, <1>3 DEF ScanTypeOK, Iter
<1>7. ScanTypeOK'
  <2>1. /\ it.always \cap Stored(it, t) \subseteq Entry /\ it.ever \cup Stored(it, t) \subseteq Entry
        /\ it.stale \cup (sp \ Stored(it, t)) \subseteq Entry
    BY <1>1, <1>5, <1>19, IterFields DEF ScanTypeOK, Iter
  <2>2. (it.moved \/ Moved(t)) \in BOOLEAN
    OBVIOUS
  <2>3. it' \in Iter
    BY <1>1, <1>3, <2>1, <2>2 DEF ScanTypeOK, Iter
  <2> QED
    BY <1>1, <1>2, <1>3, <1>4, <1>19, <2>3 DEF ScanTypeOK, RowsTypeOK
<1>8. OverlayAdds(it)' = OverlayAdds(it) /\ OverlayMasks(it)' = OverlayMasks(it)
  BY <1>3, <1>6 DEF OverlayAdds, OverlayMasks, EntryOf
<1>9. Stored(it, table)' = Stored(it, t)
  BY <1>2, <1>6 DEF Stored, EntryOf
<1>10. Moved(table)' <=> Moved(t)
  BY <1>2, <1>3 DEF Moved
<1>11. LivedThrough'
  BY <1>1, <1>3, <1>6, <1>8, <1>9, <1>10, <1>20, <1>21 DEF LivedThrough
<1>12. FailedInRace'
  BY <1>6 DEF FailedInRace
<1>13. /\ it'.always \subseteq it.always /\ Met \subseteq Met'
       /\ it.masks = OverlayMasks(it)
  BY <1>1, <1>6 DEF LivedThrough, Met
<1>14. Seen(Met) \subseteq Seen(Met)' /\ Seen(it.always)' \subseteq Seen(it.always)
  BY <1>8, <1>13 DEF Seen
<1>15. CASE ~it.reverse
  <2>1. ForwardInv
    BY <1>15 DEF ScanInv
  <2>2. ForwardInv'
    BY <1>3, <1>6, <1>8, <1>13, <1>14, <2>1 DEF ForwardInv
  <2> QED
    BY <1>6, <1>7, <1>11, <1>12, <1>15, <2>2 DEF ScanInv
<1>16. CASE it.reverse /\ ~it.done
  <2>1. CollectInv
    BY <1>16 DEF ScanInv
  <2>2. CollectInv'
    BY <1>6, <1>8, <1>13, <2>1 DEF CollectInv
  <2> QED
    BY <1>6, <1>7, <1>11, <1>12, <1>16, <2>2 DEF ScanInv
<1>17. CASE it.reverse /\ it.done
  <2>1. BackwardInv
    BY <1>17 DEF ScanInv
  <2>2. BackwardInv'
    BY <1>3, <1>6, <1>14, <2>1 DEF BackwardInv
  <2> QED
    BY <1>6, <1>7, <1>11, <1>12, <1>17, <2>2 DEF ScanInv
<1> QED
  BY <1>15, <1>16, <1>17

-----------------------------------------------------------------------------
(* The theorems.                                                            *)

\* Every step of the iterator and every commit of another session keeps the
\* invariant.
LEMMA NextInv == ScanInv /\ [ScanNext]_scanVars => ScanInv'
<1> SUFFICES ASSUME ScanInv, [ScanNext]_scanVars PROVE ScanInv'
  OBVIOUS
<1>1. CASE IterStep
  BY <1>1, NextChunkInv, ReverseChunkInv, NextFromOverlayInv, NextFromChunkInv,
     NextReverseInv, EndOfScanInv DEF IterStep
<1>2. CASE \E k \in ScanKeys, o, r \in ScanRow : OtherCommit(k, o, r)
  BY <1>2, OtherCommitInv
<1>3. CASE UNCHANGED scanVars
  <2>1. table' = table /\ space' = space /\ buf' = buf /\ it' = it
    BY <1>3 DEF scanVars
  <2> QED
    BY <2>1 DEF ScanInv, ScanTypeOK, RowsTypeOK, LivedThrough, FailedInRace, ForwardInv,
                CollectInv, BackwardInv, OverlayAdds, OverlayMasks, Stored, Moved, Seen,
                EntryOf, Met, Raced, ReadRowTxn
<1> QED
  BY <1>1, <1>2, <1>3 DEF ScanNext

\* The invariant holds of every scan: forwards, what is left of the overlay and
\* of the chunk lies between the answers and the part not read yet; backwards,
\* what is left of the merged entries lies below the answers; in both, nothing
\* that is due is missing (scanIter, reverseIter, mergeOverlay).
THEOREM ScanInvariant == ScanSpec => []ScanInv
<1>1. ScanInv /\ [ScanNext]_scanVars => ScanInv'
  BY NextInv
<1> QED
  BY <1>1, InitInv, PTL DEF ScanSpec

\* A scan answers in key order, misses no row that was there from its start to its
\* end, shows every row the transaction has buffered and none it has replaced, and
\* answers for no entry but those of rows that were there and those an index
\* kept without a row, whatever other sessions commit between its chunks and its
\* row reads (table.go scanIter.Next, reverseIter.Next).
THEOREM ScansAnswer == ScanSpec => []ScanAnswers
<1>1. ScanInv => ScanAnswers
  <2> SUFFICES ASSUME ScanInv PROVE ScanAnswers
    OBVIOUS
  <2>1. ScanTypeOK /\ LivedThrough
    BY DEF ScanInv
  <2>2. /\ it.reverse \in BOOLEAN /\ it.done \in BOOLEAN /\ it.out \in Seq(Entry)
        /\ it.masks = OverlayMasks(it) /\ ToSet(<< >>) = {}
    BY <2>1, IterFields DEF LivedThrough, ToSet
  <2>3. CASE ~it.reverse
    <3>1. ForwardInv
      BY <2>3 DEF ScanInv
    <3>2. InScanOrder(it.out)
      BY <2>3, <3>1 DEF ForwardInv, Sorted, InScanOrder
    <3> QED
      BY <2>2, <3>1, <3>2 DEF ForwardInv, ScanAnswers, Seen, Met
  <2>4. CASE it.reverse /\ ~it.done
    BY <2>4 DEF ScanInv, CollectInv, ScanAnswers, InScanOrder
  <2>5. CASE it.reverse /\ it.done
    <3>1. BackwardInv
      BY <2>5 DEF ScanInv
    <3>2. InScanOrder(it.out)
      BY <2>5, <3>1 DEF BackwardInv, InScanOrder
    <3> QED
      BY <2>2, <3>1, <3>2 DEF BackwardInv, ScanAnswers, Met
  <2> QED
    BY <2>3, <2>4, <2>5
<1> QED
  BY <1>1, ScanInvariant, PTL

\* A scan during which no row was committed, in a transaction whose buffered rows
\* are still based on the committed ones, answers two entries of one row only if
\* one of them is an index entry that stands for no row, and fails only over such
\* an entry; in the scan space it does neither (table.go scanIter.Next,
\* readRow; txn.go readRowTxn).
THEOREM ScansFailInRacesOnly == ScanSpec => []ScanRaces
<1>1. ScanInv => ScanRaces
  <2> SUFFICES ASSUME ScanInv, it.ever = it.always, ~it.moved
               PROVE  /\ \A i, j \in DOMAIN it.out :
                          i # j /\ it.out[i][2] = it.out[j][2] =>
                             {it.out[i], it.out[j]} \cap it.stale # {}
                      /\ it.state = "failed" =>
                          \E e \in it.stale \ OverlayMasks(it) : ReadRowTxn(e[2]) = Absent
                      /\ ~it.secondary => it.stale = {}
    BY DEF ScanRaces, Raced
  <2>1. ScanTypeOK /\ LivedThrough /\ FailedInRace
    BY DEF ScanInv
  <2>2. it.out \in Seq(Entry) /\ it.reverse \in BOOLEAN /\ it.done \in BOOLEAN
    BY <2>1, IterFields
  <2>3. /\ ToSet(it.out) \subseteq Seen(Met)
        /\ \A i, j \in DOMAIN it.out :
              i < j => Less(it.out[i], it.out[j]) \/ Less(it.out[j], it.out[i])
    <3>1. CASE ~it.reverse
      BY <3>1 DEF ScanInv, ForwardInv, Sorted
    <3>2. CASE it.reverse /\ ~it.done
      BY <3>2 DEF ScanInv, CollectInv, ToSet
    <3>3. CASE it.reverse /\ it.done
      BY <3>3 DEF ScanInv, BackwardInv
    <3> QED
      BY <3>1, <3>2, <3>3
  <2>4. ASSUME NEW i \in DOMAIN it.out, NEW j \in DOMAIN it.out, i # j,
               it.out[i][2] = it.out[j][2], it.out[i] \notin it.stale,
               it.out[j] \notin it.stale
        PROVE  FALSE
    <3>1. it.out[i] \in Seen(it.ever) /\ it.out[j] \in Seen(it.ever)
      BY <2>2, <2>3, <2>4, SeqElements DEF Seen, Met
    <3>2. it.out[i] = it.out[j]
      BY <2>1, <2>4, <3>1, SeenRow
    <3>3. it.out[i] \in Entry /\ i \in Nat /\ j \in Nat
      BY <2>2
    <3>4. i < j \/ j < i
      BY <2>4, <3>3
    <3> QED
      BY <2>3, <3>2, <3>3, <3>4, LessOrder
  <2>5. it.state = "failed" =>
            \E e \in it.stale \ OverlayMasks(it) : ReadRowTxn(e[2]) = Absent
    BY <2>1 DEF FailedInRace, LivedThrough, Raced
  <2> QED
    BY <2>1, <2>4, <2>5 DEF LivedThrough
<1> QED
  BY <1>1, ScanInvariant, PTL
=============================================================================

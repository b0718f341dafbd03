---------------------------- MODULE SqlTxnProofs ----------------------------
(***************************************************************************)
(* Proofs about SqlTxn: the invariant of transactions and keyspaces, that   *)
(* no COMMIT loses an update, that the marker never vouches for a wrong     *)
(* keyspace, and uniqueness across transactions, for any number of          *)
(* sessions, keys, values, savepoints, commits and crashes.                 *)
(***************************************************************************)
EXTENDS SqlTxn, WellFoundedInduction, TLAPS

-----------------------------------------------------------------------------
(* Extrema, write sets and savepoints.                                      *)

\* A set of naturals that is not empty has a least element.
LEMMA LeastOf ==
    ASSUME NEW S, S \subseteq Nat, S # {}
    PROVE  Min(S) \in S /\ \A y \in S : Min(S) =< y
<1> DEFINE R == OpToRel(<, Nat)
<1>1. IsWellFoundedOn(R, Nat)
  BY NatLessThanWellFounded
<1>2. PICK x \in S : \A y \in S : ~(<<y, x>> \in R)
  <2> HIDE DEF R
  <2> QED
    BY <1>1, WFMin
<1>3. ASSUME NEW y \in S PROVE x =< y
  <2>1. x \in Nat /\ y \in Nat
    OBVIOUS
  <2>2. y < x => <<y, x>> \in R
    BY <2>1 DEF OpToRel
  <2> HIDE DEF R
  <2> QED
    BY <1>2, <2>1, <2>2
<1> QED
  BY <1>3 DEF Min

\* A set of naturals up to n that is not empty has a greatest element.
LEMMA GreatestOf ==
    ASSUME NEW n \in Nat, NEW S, S \subseteq 1 .. n, S # {}
    PROVE  Max(S) \in S /\ \A y \in S : Max(S) >= y
<1> DEFINE T == {i \in Nat : \E x \in S : i = n - x}
<1>1. T \subseteq Nat /\ T # {}
  <2>1. PICK x \in S : TRUE
    OBVIOUS
  <2>2. n - x \in T
    BY <2>1
  <2> QED
    BY <2>2
<1>2. Min(T) \in T /\ \A i \in T : Min(T) =< i
  <2> HIDE DEF T
  <2> QED
    BY <1>1, LeastOf
<1>3. PICK x \in S : Min(T) = n - x
  BY <1>2
<1>4. \A y \in S : x >= y
  <2> SUFFICES ASSUME NEW y \in S PROVE x >= y
    OBVIOUS
  <2>1. n - y \in T
    OBVIOUS
  <2> QED
    BY <1>2, <1>3, <2>1
<1> QED
  BY <1>4 DEF Max

\* What a write set is.
LEMMA WriteSetIs ==
    ASSUME NEW ws \in WriteSet
    PROVE  DOMAIN ws \subseteq Keys /\ ws \in [DOMAIN ws -> Pending]
BY DEF WriteSet

\* A function from some of the keys to pending rows is a write set.
LEMMA WriteSetFrom ==
    ASSUME NEW D \in SUBSET Keys, NEW ws \in [D -> Pending]
    PROVE  ws \in WriteSet
BY DEF WriteSet

\* The empty write set, and when a write set is empty.
LEMMA EmptyIs ==
    /\ Empty \in WriteSet
    /\ DOMAIN Empty = {}
<1>1. Empty \in [{} -> Pending]
  BY DEF Empty
<1> QED
  BY <1>1, WriteSetFrom DEF Empty

\* Fold of write sets is a write set; it keeps the old rows of the buffer.
LEMMA FoldIs ==
    ASSUME NEW buf \in WriteSet, NEW stmt \in WriteSet
    PROVE  /\ Fold(buf, stmt) \in WriteSet
           /\ DOMAIN Fold(buf, stmt) = DOMAIN buf \cup DOMAIN stmt
           /\ \A k \in DOMAIN buf : Fold(buf, stmt)[k].old = buf[k].old
           /\ \A k \in DOMAIN stmt : Fold(buf, stmt)[k].new = stmt[k].new
           /\ \A k \in DOMAIN buf \ DOMAIN stmt : Fold(buf, stmt)[k] = buf[k]
           /\ \A k \in DOMAIN stmt \ DOMAIN buf : Fold(buf, stmt)[k].old = stmt[k].old
<1> DEFINE D == DOMAIN buf \cup DOMAIN stmt
           F == Fold(buf, stmt)
<1>1. /\ DOMAIN buf \subseteq Keys /\ buf \in [DOMAIN buf -> Pending]
      /\ DOMAIN stmt \subseteq Keys /\ stmt \in [DOMAIN stmt -> Pending]
  BY WriteSetIs
<1>2. F = [k \in D |-> IF k \notin DOMAIN stmt THEN buf[k]
                       ELSE [old |-> IF k \in DOMAIN buf THEN buf[k].old ELSE stmt[k].old,
                             new |-> stmt[k].new]]
  BY DEF Fold
<1>3. \A k \in D : F[k] \in Pending
  BY <1>1, <1>2 DEF Pending
<1>4. F \in [D -> Pending]
  BY <1>2, <1>3
<1>5. D \in SUBSET Keys
  BY <1>1
<1>6. F \in WriteSet
  <2> HIDE DEF D, F
  <2> QED
    BY <1>4, <1>5, WriteSetFrom
<1> QED
  BY <1>1, <1>2, <1>6 DEF Pending

\* A statement that has written nothing folds into the buffer as it is.
LEMMA FoldEmpty ==
    ASSUME NEW buf \in WriteSet
    PROVE  Fold(buf, Empty) = buf
<1>1. DOMAIN Empty = {}
  BY EmptyIs
<1>2. buf \in [DOMAIN buf -> Pending]
  BY WriteSetIs
<1> QED
  BY <1>1, <1>2 DEF Fold

\* One more row in a write set.
LEMMA WithIs ==
    ASSUME NEW ws \in WriteSet, NEW k \in Keys, NEW p \in Pending
    PROVE  /\ With(ws, k, p) \in WriteSet
           /\ DOMAIN With(ws, k, p) = DOMAIN ws \cup {k}
           /\ With(ws, k, p)[k] = p
           /\ \A j \in DOMAIN ws \ {k} : With(ws, k, p)[j] = ws[j]
<1> DEFINE D == DOMAIN ws \cup {k}
           W == With(ws, k, p)
<1>1. DOMAIN ws \subseteq Keys /\ ws \in [DOMAIN ws -> Pending]
  BY WriteSetIs
<1>2. W = [j \in D |-> IF j = k THEN p ELSE ws[j]]
  BY DEF With
<1>3. W \in [D -> Pending] /\ D \in SUBSET Keys
  BY <1>1, <1>2
<1>4. W \in WriteSet
  <2> HIDE DEF D, W
  <2> QED
    BY <1>3, WriteSetFrom
<1> QED
  BY <1>2, <1>4

\* dropSavepoint leaves savepoints that were there.
LEMMA DropIs ==
    ASSUME NEW saves \in Seq(Savepoint), NEW name
    PROVE  /\ DropSavepoint(saves, name) \in Seq(Savepoint)
           /\ \A i \in DOMAIN DropSavepoint(saves, name) :
                \E j \in DOMAIN saves : DropSavepoint(saves, name)[i] = saves[j]
<1>1. CASE Named(saves, name) = {}
  BY <1>1 DEF DropSavepoint
<1>2. CASE Named(saves, name) # {}
  <2> DEFINE m == Min(Named(saves, name))
             a == SubSeq(saves, 1, m - 1)
             b == SubSeq(saves, m + 1, Len(saves))
  <2>1. Named(saves, name) \subseteq 1 .. Len(saves)
    BY DEF Named
  <2>2. m \in 1 .. Len(saves)
    <3>1. Named(saves, name) \subseteq Nat
      BY <2>1
    <3> QED
      BY <1>2, <2>1, <3>1, LeastOf
  <2>3. DropSavepoint(saves, name) = a \o b
    BY <1>2 DEF DropSavepoint, RemoveAt
  <2> HIDE DEF m
  <2>4. /\ a \in Seq(Savepoint) /\ Len(a) = m - 1
        /\ \A i \in 1 .. m - 1 : a[i] = saves[i]
    BY <2>2
  <2>5. /\ b \in Seq(Savepoint) /\ Len(b) = Len(saves) - m
        /\ \A i \in 1 .. Len(saves) - m : b[i] = saves[i + m]
    BY <2>2
  <2> HIDE DEF a, b
  <2>0. m \in Nat /\ Len(saves) \in Nat /\ DOMAIN saves = 1 .. Len(saves)
    BY <2>2
  <2>6. /\ a \o b \in Seq(Savepoint) /\ Len(a \o b) = Len(saves) - 1
        /\ DOMAIN (a \o b) = 1 .. Len(saves) - 1
    <3>1. Len(a) + Len(b) = Len(saves) - 1
      BY <2>0, <2>4, <2>5
    <3>2. a \o b \in Seq(Savepoint) /\ Len(a \o b) = Len(a) + Len(b)
      BY <2>4, <2>5
    <3>3. DOMAIN (a \o b) = 1 .. Len(a \o b)
      BY <3>2
    <3> QED
      BY <3>1, <3>2, <3>3
  <2>7. ASSUME NEW i \in 1 .. Len(saves) - 1
        PROVE  \E j \in DOMAIN saves : (a \o b)[i] = saves[j]
    <3>1. CASE i =< m - 1
      <4>1. (a \o b)[i] = saves[i] /\ i \in DOMAIN saves
        BY <2>2, <2>4, <2>5, <3>1
      <4> QED
        BY <4>1
    <3>2. CASE i > m - 1
      <4>1. i - (m - 1) \in 1 .. Len(saves) - m
        BY <2>2, <3>2
      <4>2. (a \o b)[i] = b[i - (m - 1)]
        BY <2>2, <2>4, <2>5, <3>2
      <4>3. b[i - (m - 1)] = saves[i - (m - 1) + m]
        BY <2>5, <4>1
      <4>4. i - (m - 1) + m \in DOMAIN saves
        BY <2>2, <4>1
      <4> QED
        BY <4>2, <4>3, <4>4
    <3>3. i =< m - 1 \/ i > m - 1
      BY <2>0
    <3> QED
      BY <3>1, <3>2, <3>3
  <2> QED
    BY <2>3, <2>6, <2>7, <2>0
<1> QED
  BY <1>1, <1>2

\* The first savepoints of a sequence, and where a name is found.
LEMMA SavepointAtIs ==
    ASSUME TypeOK, NEW s \in Sessions, NEW name, SavepointAt(s, name) > 0
    PROVE  SavepointAt(s, name) \in 1 .. Len(txn[s].saves)
<1> DEFINE at == Named(txn[s].saves, name)
<1>1. txn[s].saves \in Seq(Savepoint)
  BY DEF TypeOK, Txn
<1>2. at # {} /\ SavepointAt(s, name) = Max(at)
  BY DEF SavepointAt
<1>3. at \subseteq 1 .. Len(txn[s].saves) /\ Len(txn[s].saves) \in Nat
  BY <1>1 DEF Named
<1> HIDE DEF at
<1> QED
  BY <1>2, <1>3, GreatestOf

-----------------------------------------------------------------------------
(* The invariant, transaction by transaction.                               *)

\* What TxnInv says of one transaction t, given the committed rows r and the
\* version v: the definitions of SqlTxn with the state as a parameter.
LiveIn(r) == {k \in Keys : r[k] # NoRow}

UniqueIn(r) == \A j, k \in LiveIn(r) : (r[j] = r[k] /\ r[j] # Null) => j = k

BasedIn(buf, r) == \A k \in DOMAIN buf : buf[k].old = r[k]

ClearIn(buf, due, r) ==
    \A k \in DOMAIN buf \ {due}, j \in LiveIn(r) \ DOMAIN buf :
        buf[k].new \notin {NoRow, Null} => r[j] # buf[k].new

Good(t, r, v) ==
    /\ t.base =< v
    /\ t.check # NoKey => t.check \in DOMAIN t.stmt
    /\ (t.open /\ t.base = v) =>
        \A buf \in {Fold(t.buf, t.stmt)} \cup SavedBufs(t) : BasedIn(buf, r)
    /\ (UniqueIn(r) /\ t.open /\ t.base = v) =>
        /\ ClearIn(Fold(t.buf, t.stmt), t.check, r)
        /\ \A buf \in {t.buf} \cup SavedBufs(t) : ClearIn(buf, NoKey, r)

\* The invariant in parts, before and after a step.
LEMMA InvParts ==
    /\ TxnInv <=> /\ TypeOK /\ KeyspacesInv
                  /\ \A s \in Sessions : Good(txn[s], rows, version)
    /\ TxnInv' <=> /\ TypeOK' /\ KeyspacesInv'
                   /\ \A s \in Sessions : Good(txn'[s], rows', version')
BY DEF TxnInv, BuffersBased, ValuesClear, TxnsFormed, Good, WellFormed, Current, Based,
       BasedOn, Clear, ClearOf, UniqueRows, Live, LiveIn, UniqueIn, BasedIn, ClearIn

\* A closed transaction is well-formed and claims nothing.
LEMMA NoTxnIs ==
    ASSUME NEW r, NEW v \in Nat
    PROVE  NoTxn \in Txn /\ ~NoTxn.open /\ Good(NoTxn, r, v)
<1>1. NoTxn \in Txn
  <2>1. << >> \in Seq(Savepoint)
    OBVIOUS
  <2> QED
    BY <2>1, EmptyIs DEF NoTxn, Txn
<1>2. ~NoTxn.open /\ NoTxn.base = 0 /\ NoTxn.check = NoKey
  BY DEF NoTxn
<1> QED
  BY <1>1, <1>2 DEF Good

\* A step that only replaces a session's transaction, while the store serves.
LEMMA SetTxnKeeps ==
    ASSUME TxnInv, Usable, NEW s \in Sessions, NEW t \in Txn, Good(t, rows, version),
           SetTxn(s, t)
    PROVE  TxnInv'
<1>1. TypeOK /\ KeyspacesInv /\ \A r \in Sessions : Good(txn[r], rows, version)
  BY InvParts
<1>2. /\ txn' = [txn EXCEPT ![s] = t]
      /\ rows' = rows /\ version' = version /\ scan' = scan /\ index' = index
      /\ marker' = marker /\ phase' = phase /\ todo' = todo /\ lock' = lock
      /\ crashes' = crashes
  BY DEF SetTxn, ledger, derived
<1>3. TypeOK'
  BY <1>1, <1>2 DEF TypeOK, Row
<1>4. KeyspacesInv'
  <2>1. lock = NoSession
    BY DEF Usable
  <2>2. Live' = Live /\ Usable' = Usable
    BY <1>2 DEF Live, Usable
  <2> QED
    BY <1>1, <1>2, <2>1, <2>2 DEF KeyspacesInv, InStepBut
<1>5. \A r \in Sessions : Good(txn'[r], rows', version')
  BY <1>1, <1>2 DEF TypeOK
<1> QED
  BY <1>3, <1>4, <1>5, InvParts

-----------------------------------------------------------------------------
(* What each operation of a session makes of its transaction.               *)

\* The fields of a transaction.
LEMMA TxnFields ==
    ASSUME NEW t \in Txn
    PROVE  /\ t.open \in BOOLEAN /\ t.base \in Nat
           /\ t.buf \in WriteSet /\ t.stmt \in WriteSet
           /\ t.saves \in Seq(Savepoint) /\ t.check \in Keys \cup {NoKey}
BY DEF Txn

\* A new transaction.
LEMMA StartGood ==
    ASSUME NEW r, NEW v \in Nat
    PROVE  /\ [NoTxn EXCEPT !.open = TRUE, !.base = v] \in Txn
           /\ Good([NoTxn EXCEPT !.open = TRUE, !.base = v], r, v)
<1> DEFINE u == [NoTxn EXCEPT !.open = TRUE, !.base = v]
<1>1. u \in Txn
  BY NoTxnIs DEF Txn
<1>2. u.base = v /\ u.check = NoKey /\ u.buf = Empty /\ u.stmt = Empty /\ u.saves = << >>
  BY DEF NoTxn
<1>3. Fold(Empty, Empty) = Empty /\ DOMAIN Empty = {}
  BY EmptyIs, FoldEmpty
<1>4. SavedBufs(u) = {}
  BY <1>2 DEF SavedBufs
<1> HIDE DEF u
<1>5. Good(u, r, v)
  BY <1>2, <1>3, <1>4 DEF Good, BasedIn, ClearIn
<1> QED
  BY <1>1, <1>5 DEF u

\* A transaction that keeps its rows and has no more buffers to return to than
\* the one before, its own included, keeps what is said of it.
LEMMA SavesGood ==
    ASSUME NEW t \in Txn, NEW r, NEW v \in Nat, Good(t, r, v), t.stmt = Empty,
           NEW u \in Txn, u.open = t.open, u.base = t.base, u.stmt = Empty,
           u.check = t.check,
           SavedBufs(u) \cup {u.buf} \subseteq SavedBufs(t) \cup {t.buf}
    PROVE  Good(u, r, v)
<1>1. Fold(t.buf, Empty) = t.buf /\ Fold(u.buf, Empty) = u.buf
  BY TxnFields, FoldEmpty
<1>2. DOMAIN Empty = {}
  BY EmptyIs
<1>3. t.check = NoKey
  BY <1>2 DEF Good
<1> QED
  BY <1>1, <1>3 DEF Good

\* CreateSavepoint.
LEMMA SavepointGood ==
    ASSUME NEW t \in Txn, NEW r, NEW v \in Nat, Good(t, r, v), t.stmt = Empty,
           NEW name \in UNION {Names[s] : s \in Sessions}
    PROVE  LET u == [t EXCEPT !.saves = Append(DropSavepoint(@, name),
                                               [name |-> name, buf |-> t.buf])]
           IN  u \in Txn /\ Good(u, r, v)
<1> DEFINE d == DropSavepoint(t.saves, name)
           p == [name |-> name, buf |-> t.buf]
           w == Append(d, p)
           u == [t EXCEPT !.saves = w]
<1>1. d \in Seq(Savepoint) /\ \A i \in DOMAIN d : \E j \in DOMAIN t.saves : d[i] = t.saves[j]
  BY TxnFields, DropIs
<1>2. p \in Savepoint
  BY TxnFields DEF Savepoint
<1> HIDE DEF d
<1>3. w \in Seq(Savepoint) /\ \A i \in DOMAIN w : w[i] = p \/ \E j \in DOMAIN d : w[i] = d[j]
  <2> HIDE DEF p
  <2>1. w \in Seq(Savepoint) /\ Len(w) = Len(d) + 1 /\ w[Len(d) + 1] = p
    BY <1>1, <1>2
  <2>2. \A i \in 1 .. Len(d) : w[i] = d[i] /\ i \in DOMAIN d
    BY <1>1
  <2>3. Len(d) \in Nat /\ DOMAIN w = 1 .. Len(w)
    BY <1>1, <2>1
  <2> QED
    BY <2>1, <2>2, <2>3
<1> HIDE DEF w
<1>4. u \in Txn
  BY <1>3 DEF Txn
<1>5. u.open = t.open /\ u.base = t.base /\ u.stmt = t.stmt /\ u.check = t.check
      /\ u.buf = t.buf /\ u.saves = w
  BY DEF Txn
<1>6. SavedBufs(u) \subseteq SavedBufs(t) \cup {t.buf}
  BY <1>1, <1>3, <1>5 DEF SavedBufs
<1> HIDE DEF u
<1>7. Good(u, r, v)
  BY <1>4, <1>5, <1>6, SavesGood
<1> QED
  BY <1>4, <1>7 DEF u, w, d, p

\* RollbackToSavepoint.
LEMMA BackGood ==
    ASSUME NEW t \in Txn, NEW r, NEW v \in Nat, Good(t, r, v), t.stmt = Empty,
           NEW i \in 1 .. Len(t.saves)
    PROVE  LET u == [t EXCEPT !.buf = t.saves[i].buf, !.saves = SubSeq(@, 1, i)]
           IN  u \in Txn /\ Good(u, r, v)
<1> DEFINE w == SubSeq(t.saves, 1, i)
           u == [t EXCEPT !.buf = t.saves[i].buf, !.saves = w]
<1>1. t.saves \in Seq(Savepoint) /\ DOMAIN t.saves = 1 .. Len(t.saves)
  BY TxnFields
<1>2. w \in Seq(Savepoint) /\ \A j \in DOMAIN w : j \in DOMAIN t.saves /\ w[j] = t.saves[j]
  BY <1>1
<1>3. t.saves[i] \in Savepoint
  BY <1>1
<1> HIDE DEF w
<1>4. u \in Txn
  BY <1>2, <1>3 DEF Txn, Savepoint
<1>5. u.open = t.open /\ u.base = t.base /\ u.stmt = t.stmt /\ u.check = t.check
      /\ u.buf = t.saves[i].buf /\ u.saves = w
  BY DEF Txn
<1>6. SavedBufs(u) \cup {u.buf} \subseteq SavedBufs(t)
  BY <1>1, <1>2, <1>5 DEF SavedBufs
<1> HIDE DEF u
<1>7. Good(u, r, v)
  BY <1>4, <1>5, <1>6, SavesGood
<1> QED
  BY <1>4, <1>7 DEF u, w

\* ReleaseSavepoint.
LEMMA ReleaseGood ==
    ASSUME NEW t \in Txn, NEW r, NEW v \in Nat, Good(t, r, v), t.stmt = Empty,
           NEW i \in 1 .. Len(t.saves)
    PROVE  LET u == [t EXCEPT !.saves = SubSeq(@, 1, i - 1)]
           IN  u \in Txn /\ Good(u, r, v)
<1> DEFINE w == SubSeq(t.saves, 1, i - 1)
           u == [t EXCEPT !.saves = w]
<1>1. t.saves \in Seq(Savepoint) /\ DOMAIN t.saves = 1 .. Len(t.saves)
  BY TxnFields
<1>2. w \in Seq(Savepoint) /\ \A j \in DOMAIN w : j \in DOMAIN t.saves /\ w[j] = t.saves[j]
  BY <1>1
<1> HIDE DEF w
<1>4. u \in Txn
  BY <1>2 DEF Txn
<1>5. u.open = t.open /\ u.base = t.base /\ u.stmt = t.stmt /\ u.check = t.check
      /\ u.buf = t.buf /\ u.saves = w
  BY DEF Txn
<1>6. SavedBufs(u) \subseteq SavedBufs(t)
  BY <1>1, <1>2, <1>5 DEF SavedBufs
<1> HIDE DEF u
<1>7. Good(u, r, v)
  BY <1>4, <1>5, <1>6, SavesGood
<1> QED
  BY <1>4, <1>7 DEF u, w

\* A row goes into the statement: its old row is what the statement, else the
\* transaction, else the ledger has, and its check is due unless it is a delete.
LEMMA RecordGood ==
    ASSUME NEW t \in Txn, NEW r, NEW v \in Nat, Good(t, r, v), t.check = NoKey,
           NEW k \in Keys, NEW p \in Pending, NEW due \in {k, NoKey},
           k \in DOMAIN t.stmt => p.old = t.stmt[k].old,
           k \notin DOMAIN t.stmt \cup DOMAIN t.buf => p.old = r[k],
           due = NoKey => p.new = NoRow
    PROVE  LET u == [t EXCEPT !.stmt = With(t.stmt, k, p), !.check = due]
           IN  u \in Txn /\ Good(u, r, v)
<1> DEFINE w == With(t.stmt, k, p)
           u == [t EXCEPT !.stmt = w, !.check = due]
           F == Fold(t.buf, t.stmt)
           G == Fold(t.buf, w)
<1>0. t.buf \in WriteSet /\ t.stmt \in WriteSet
  BY TxnFields
<1>1. /\ w \in WriteSet /\ DOMAIN w = DOMAIN t.stmt \cup {k} /\ w[k] = p
      /\ \A j \in DOMAIN t.stmt \ {k} : w[j] = t.stmt[j]
  BY <1>0, WithIs
<1> HIDE DEF w
<1>2. u \in Txn
  BY <1>1 DEF Txn
<1>3. /\ u.open = t.open /\ u.base = t.base /\ u.stmt = w /\ u.check = due
      /\ u.buf = t.buf /\ u.saves = t.saves
  BY DEF Txn
<1>4. SavedBufs(u) = SavedBufs(t)
  BY <1>3 DEF SavedBufs
<1>5. DOMAIN F = DOMAIN t.buf \cup DOMAIN t.stmt /\ DOMAIN G = DOMAIN F \cup {k}
  <2>1. DOMAIN F = DOMAIN t.buf \cup DOMAIN t.stmt
    BY <1>0, FoldIs
  <2>2. DOMAIN G = DOMAIN t.buf \cup DOMAIN w
    BY <1>0, <1>1, FoldIs
  <2> QED
    BY <1>1, <2>1, <2>2
<1>6. ASSUME NEW j \in DOMAIN F, j # k PROVE G[j] = F[j]
  <2>1. j \in DOMAIN G /\ (j \in DOMAIN w <=> j \in DOMAIN t.stmt)
    BY <1>1, <1>5, <1>6
  <2> QED
    BY <1>1, <1>5, <1>6, <2>1 DEF Fold
<1>7. G[k].old = IF k \in DOMAIN t.buf THEN t.buf[k].old ELSE p.old
  BY <1>1, <1>5 DEF Fold
<1>8. /\ k \in DOMAIN F => G[k].old = F[k].old
      /\ k \notin DOMAIN F => G[k].old = r[k]
  <2>1. k \in DOMAIN F => F[k].old = IF k \in DOMAIN t.buf THEN t.buf[k].old
                                    ELSE t.stmt[k].old
    BY <1>5 DEF Fold
  <2> QED
    BY <1>5, <1>7, <2>1
<1>9. G[k].new = p.new
  BY <1>1, <1>5 DEF Fold
<1>10. NoKey \notin DOMAIN F
  BY <1>0, <1>5, WriteSetIs, SqlNoRowAssumption
<1> HIDE DEF u, F, G
<1>11. BasedIn(F, r) => BasedIn(G, r)
  BY <1>5, <1>6, <1>8 DEF BasedIn
<1>12. ClearIn(F, NoKey, r) => ClearIn(G, due, r)
  <2> SUFFICES ASSUME ClearIn(F, NoKey, r),
                      NEW i \in DOMAIN G \ {due}, NEW j \in LiveIn(r) \ DOMAIN G,
                      G[i].new \notin {NoRow, Null}
               PROVE  r[j] # G[i].new
    BY DEF ClearIn
  <2>1. i # k
    BY <1>9
  <2>2. i \in DOMAIN F \ {NoKey} /\ j \in LiveIn(r) \ DOMAIN F /\ G[i] = F[i]
    BY <1>5, <1>6, <1>10, <2>1
  <2> QED
    BY <2>2 DEF ClearIn
<1>13. Good(u, r, v)
  <2>1. /\ t.base =< v
        /\ (t.open /\ t.base = v) => BasedIn(F, r) /\ \A buf \in SavedBufs(t) : BasedIn(buf, r)
        /\ (UniqueIn(r) /\ t.open /\ t.base = v) =>
             /\ ClearIn(F, NoKey, r)
             /\ \A buf \in {t.buf} \cup SavedBufs(t) : ClearIn(buf, NoKey, r)
    BY DEF Good, F
  <2>2. due # NoKey => due \in DOMAIN w
    BY <1>1
  <2> QED
    BY <1>3, <1>4, <1>11, <1>12, <2>1, <2>2 DEF Good, G
<1> QED
  BY <1>2, <1>13 DEF u, w

\* DiscardChanges.
LEMMA DiscardGood ==
    ASSUME NEW t \in Txn, NEW r, NEW v \in Nat, Good(t, r, v)
    PROVE  LET u == [t EXCEPT !.stmt = Empty, !.check = NoKey]
           IN  u \in Txn /\ Good(u, r, v)
<1> DEFINE u == [t EXCEPT !.stmt = Empty, !.check = NoKey]
           F == Fold(t.buf, t.stmt)
<1>1. u \in Txn
  BY EmptyIs DEF Txn
<1>2. /\ u.open = t.open /\ u.base = t.base /\ u.stmt = Empty /\ u.check = NoKey
      /\ u.buf = t.buf /\ u.saves = t.saves
  BY DEF Txn
<1>3. SavedBufs(u) = SavedBufs(t)
  BY <1>2 DEF SavedBufs
<1>4. Fold(t.buf, Empty) = t.buf
  BY TxnFields, FoldEmpty
<1>5. DOMAIN t.buf \subseteq DOMAIN F /\ \A k \in DOMAIN t.buf : F[k].old = t.buf[k].old
  BY DEF Fold
<1> HIDE DEF u, F
<1>6. BasedIn(F, r) => BasedIn(t.buf, r)
  BY <1>5 DEF BasedIn
<1>7. Good(u, r, v)
  BY <1>2, <1>3, <1>4, <1>6 DEF Good, F
<1> QED
  BY <1>1, <1>7 DEF u

\* tableEditor.Close.
LEMMA CloseGood ==
    ASSUME NEW t \in Txn, NEW r, NEW v \in Nat, Good(t, r, v), t.check = NoKey
    PROVE  LET u == [t EXCEPT !.buf = Fold(@, t.stmt), !.stmt = Empty]
           IN  u \in Txn /\ Good(u, r, v)
<1> DEFINE F == Fold(t.buf, t.stmt)
           u == [t EXCEPT !.buf = F, !.stmt = Empty]
<1>0. F \in WriteSet
  BY TxnFields, FoldIs
<1> HIDE DEF F
<1>1. u \in Txn
  BY <1>0, EmptyIs DEF Txn
<1>2. /\ u.open = t.open /\ u.base = t.base /\ u.stmt = Empty /\ u.check = t.check
      /\ u.buf = F /\ u.saves = t.saves
  BY DEF Txn
<1>3. SavedBufs(u) = SavedBufs(t)
  BY <1>2 DEF SavedBufs
<1>4. Fold(F, Empty) = F
  BY <1>0, FoldEmpty
<1> HIDE DEF u
<1>7. Good(u, r, v)
  BY <1>2, <1>3, <1>4 DEF Good, F
<1> QED
  BY <1>1, <1>7 DEF u, F

\* A unique check that finds no collision, with an index that has an entry for
\* every row: if another row outside the buffer had the value, its entry would
\* have been found, and only its own key could have excused it.
LEMMA CheckedGood ==
    ASSUME NEW t \in Txn, t.check # NoKey, Good(t, rows, version), version \in Nat,
           Entries \subseteq index,
           LET P == Fold(t.buf, t.stmt) IN ~Collides(P[t.check].new, t.check, P)
    PROVE  LET u == [t EXCEPT !.check = NoKey]
           IN  u \in Txn /\ Good(u, rows, version)
<1> DEFINE P == Fold(t.buf, t.stmt)
           c == t.check
           u == [t EXCEPT !.check = NoKey]
<1>1. u \in Txn
  BY DEF Txn
<1>2. /\ u.open = t.open /\ u.base = t.base /\ u.stmt = t.stmt /\ u.check = NoKey
      /\ u.buf = t.buf /\ u.saves = t.saves
  BY DEF Txn
<1>3. SavedBufs(u) = SavedBufs(t)
  BY <1>2 DEF SavedBufs
<1>0. t.buf \in WriteSet /\ t.stmt \in WriteSet
  BY TxnFields
<1>4. c \in DOMAIN P
  <2>1. c \in DOMAIN t.stmt
    BY DEF Good
  <2> QED
    BY <1>0, <2>1, FoldIs
<1>5. DOMAIN P \subseteq Keys
  <2>1. P \in WriteSet
    BY <1>0, FoldIs
  <2> QED
    BY <2>1, WriteSetIs
<1>6. ~Collides(P[c].new, c, P)
  OBVIOUS
<1> HIDE DEF u, P, c
<1>7. ASSUME UniqueIn(rows), BasedIn(P, rows), ClearIn(P, c, rows)
      PROVE  ClearIn(P, NoKey, rows)
  <2> SUFFICES ASSUME NEW j \in LiveIn(rows) \ DOMAIN P,
                      P[c].new \notin {NoRow, Null}, rows[j] = P[c].new
               PROVE  FALSE
    BY <1>7 DEF ClearIn
  <2>1. <<rows[j], j>> \in index /\ j # c
    BY <1>4 DEF Entries, Live, LiveIn
  <2>2. \E e \in index : e[1] = P[c].new /\ e[2] # c
    BY <2>1
  <2>3. PICK q \in DOMAIN P \ {c} : P[q].old = P[c].new /\ P[q].new # P[c].new
    BY <1>6, <2>2 DEF Collides
  <2>4. rows[q] = rows[j] /\ q \in LiveIn(rows)
    BY <1>5, <1>7, <2>3 DEF BasedIn, LiveIn
  <2>5. q = j
    BY <1>7, <2>4 DEF UniqueIn
  <2> QED
    BY <2>3, <2>5
<1>8. Good(u, rows, version)
  BY <1>2, <1>3, <1>7 DEF Good, P, c
<1> QED
  BY <1>1, <1>8 DEF u

-----------------------------------------------------------------------------
(* The invariant is inductive.                                              *)

\* What a session's operations start from.
LEMMA TxnHas ==
    ASSUME TxnInv, NEW s \in Sessions
    PROVE  /\ txn[s] \in Txn /\ Good(txn[s], rows, version)
           /\ version \in Nat /\ rows \in [Keys -> Row]
<1>1. TypeOK /\ \A r \in Sessions : Good(txn[r], rows, version)
  BY InvParts
<1> QED
  BY <1>1 DEF TypeOK

\* The row a session sees is a row.
LEMMA ViewIs ==
    ASSUME TxnInv, NEW s \in Sessions, NEW k \in Keys
    PROVE  View(s, k) \in Row /\ (k \notin DOMAIN txn[s].buf => View(s, k) = rows[k])
<1>1. txn[s].buf \in WriteSet /\ rows \in [Keys -> Row]
  BY TxnHas, TxnFields
<1>2. \A j \in DOMAIN txn[s].buf : txn[s].buf[j].new \in Row
  BY <1>1, WriteSetIs DEF Pending
<1> QED
  BY <1>1, <1>2 DEF View

\* Insert, Delete and Update record a row.
LEMMA RecordKeeps ==
    ASSUME TxnInv, NEW s \in Sessions, NEW k \in Keys, NEW p \in Pending,
           NEW due \in {k, NoKey}, Record(s, k, p, due),
           k \in DOMAIN txn[s].stmt => p.old = txn[s].stmt[k].old,
           k \notin DOMAIN txn[s].stmt \cup DOMAIN txn[s].buf => p.old = rows[k],
           due = NoKey => p.new = NoRow
    PROVE  TxnInv'
<1> DEFINE u == [txn[s] EXCEPT !.stmt = With(txn[s].stmt, k, p), !.check = due]
<1>1. txn[s] \in Txn /\ Good(txn[s], rows, version) /\ version \in Nat
  BY TxnHas
<1>2. Usable /\ txn[s].check = NoKey /\ SetTxn(s, u)
  BY DEF Record, InTxn
<1>3. u \in Txn /\ Good(u, rows, version)
  BY <1>1, <1>2, RecordGood
<1> HIDE DEF u
<1> QED
  BY <1>2, <1>3, SetTxnKeeps

\* A statement that fails is discarded.
LEMMA DiscardKeeps ==
    ASSUME TxnInv, NEW s \in Sessions, Usable, Discard(s)
    PROVE  TxnInv'
<1> DEFINE u == [txn[s] EXCEPT !.stmt = Empty, !.check = NoKey]
<1>1. txn[s] \in Txn /\ Good(txn[s], rows, version) /\ version \in Nat
  BY TxnHas
<1>2. SetTxn(s, u)
  BY DEF Discard
<1>3. u \in Txn /\ Good(u, rows, version)
  BY <1>1, DiscardGood
<1> HIDE DEF u
<1> QED
  BY <1>2, <1>3, SetTxnKeeps

\* A pending row with another new row.
LEMMA PendingWith ==
    ASSUME NEW p \in Pending, NEW a \in Row
    PROVE  /\ [p EXCEPT !.new = a] \in Pending
           /\ [p EXCEPT !.new = a].old = p.old
           /\ [p EXCEPT !.new = a].new = a
BY DEF Pending

\* The row editors.
LEMMA EditKeeps ==
    ASSUME TxnInv, NEW s \in Sessions, NEW k \in Keys, NEW v \in Row,
           Insert(s, k, v) \/ Update(s, k, v) \/ Delete(s, k)
    PROVE  TxnInv'
<1> DEFINE stmt == txn[s].stmt
<1>1. txn[s] \in Txn /\ rows \in [Keys -> Row]
  BY TxnHas
<1>2. stmt \in WriteSet
  BY <1>1, TxnFields
<1>3. k \in DOMAIN stmt => stmt[k] \in Pending
  BY <1>2, WriteSetIs
<1>4. v \in Row /\ NoRow \in Row
  BY DEF Row
<1>5. View(s, k) \in Row /\ (k \notin DOMAIN txn[s].buf => View(s, k) = rows[k])
  BY ViewIs
<1> HIDE DEF stmt
<1>6. ASSUME k \in DOMAIN stmt,
             \/ Record(s, k, [stmt[k] EXCEPT !.new = v], k)
             \/ Record(s, k, [stmt[k] EXCEPT !.new = NoRow], NoKey)
      PROVE  TxnInv'
  <2>1. CASE Record(s, k, [stmt[k] EXCEPT !.new = v], k)
    <3> DEFINE p == [stmt[k] EXCEPT !.new = v]
    <3>1. p \in Pending /\ p.old = stmt[k].old
      BY <1>3, <1>4, <1>6, PendingWith
    <3>2. Record(s, k, p, k) /\ k # NoKey
      BY <2>1, SqlNoRowAssumption
    <3> HIDE DEF p
    <3> QED
      BY <1>6, <3>1, <3>2, RecordKeeps DEF stmt
  <2>2. CASE Record(s, k, [stmt[k] EXCEPT !.new = NoRow], NoKey)
    <3> DEFINE p == [stmt[k] EXCEPT !.new = NoRow]
    <3>1. p \in Pending /\ p.old = stmt[k].old /\ p.new = NoRow
      BY <1>3, <1>4, <1>6, PendingWith
    <3>2. Record(s, k, p, NoKey)
      BY <2>2
    <3> HIDE DEF p
    <3> QED
      BY <1>6, <3>1, <3>2, RecordKeeps DEF stmt
  <2> QED
    BY <1>6, <2>1, <2>2
<1>7. ASSUME k \notin DOMAIN stmt, NEW o \in Row, k \notin DOMAIN txn[s].buf => o = rows[k],
             \/ Record(s, k, [old |-> o, new |-> v], k)
             \/ Record(s, k, [old |-> o, new |-> NoRow], NoKey)
      PROVE  TxnInv'
  <2>1. CASE Record(s, k, [old |-> o, new |-> v], k)
    <3> DEFINE p == [old |-> o, new |-> v]
    <3>1. p \in Pending /\ p.old = o
      BY <1>4 DEF Pending
    <3>2. Record(s, k, p, k) /\ k # NoKey
      BY <2>1, SqlNoRowAssumption
    <3> HIDE DEF p
    <3> QED
      BY <1>7, <3>1, <3>2, RecordKeeps DEF stmt
  <2>2. CASE Record(s, k, [old |-> o, new |-> NoRow], NoKey)
    <3> DEFINE p == [old |-> o, new |-> NoRow]
    <3>1. p \in Pending /\ p.old = o /\ p.new = NoRow
      BY <1>4 DEF Pending
    <3>2. Record(s, k, p, NoKey)
      BY <2>2
    <3> HIDE DEF p
    <3> QED
      BY <1>7, <3>1, <3>2, RecordKeeps DEF stmt
  <2> QED
    BY <1>7, <2>1, <2>2
<1>8. CASE Insert(s, k, v)
  <2>1. CASE k \in DOMAIN stmt
    BY <1>6, <1>8, <2>1 DEF Insert, stmt
  <2>2. CASE k \notin DOMAIN stmt
    BY <1>4, <1>5, <1>7, <1>8, <2>2 DEF Insert, stmt
  <2> QED
    BY <2>1, <2>2
<1>9. CASE Update(s, k, v)
  <2>1. CASE k \in DOMAIN stmt
    BY <1>6, <1>9, <2>1 DEF Update, stmt
  <2>2. CASE k \notin DOMAIN stmt
    BY <1>5, <1>7, <1>9, <2>2 DEF Update, stmt
  <2> QED
    BY <2>1, <2>2
<1>10. CASE Delete(s, k)
  <2>1. CASE k \in DOMAIN stmt
    BY <1>6, <1>10, <2>1 DEF Delete, stmt
  <2>2. CASE k \notin DOMAIN stmt
    BY <1>5, <1>7, <1>10, <2>2 DEF Delete, stmt
  <2> QED
    BY <2>1, <2>2
<1> QED
  BY <1>8, <1>9, <1>10

\* Savepoints, checks and the other operations of a session that only change
\* its transaction.
LEMMA SessionKeeps ==
    ASSUME TxnInv, NEW s \in Sessions,
           \/ StartTransaction(s)
           \/ Rollback(s)
           \/ \E name \in Names[s] : \/ CreateSavepoint(s, name)
                                  \/ RollbackToSavepoint(s, name)
                                  \/ ReleaseSavepoint(s, name)
           \/ \E k \in Keys : InsertDuplicate(s, k)
           \/ CheckUnique(s)
           \/ Close(s)
           \/ CommitNothing(s)
    PROVE  TxnInv'
<1> DEFINE t == txn[s]
<1>1. t \in Txn /\ Good(t, rows, version) /\ version \in Nat
  BY TxnHas
<1>2. TypeOK /\ KeyspacesInv
  BY InvParts
<1>3. NoTxn \in Txn /\ Good(NoTxn, rows, version)
  BY <1>1, NoTxnIs
<1>4. CASE StartTransaction(s)
  <2> DEFINE u == [NoTxn EXCEPT !.open = TRUE, !.base = version]
  <2>1. Usable /\ SetTxn(s, u)
    BY <1>4 DEF StartTransaction
  <2>2. u \in Txn /\ Good(u, rows, version)
    BY <1>1, StartGood
  <2> HIDE DEF u
  <2> QED
    BY <2>1, <2>2, SetTxnKeeps
<1>5. CASE Rollback(s) \/ CommitNothing(s)
  <2>1. Usable /\ SetTxn(s, NoTxn)
    BY <1>5 DEF Rollback, CommitNothing, Between, InTxn
  <2> QED
    BY <1>3, <2>1, SetTxnKeeps
<1>6. ASSUME NEW name \in Names[s],
             \/ CreateSavepoint(s, name)
             \/ RollbackToSavepoint(s, name)
             \/ ReleaseSavepoint(s, name)
      PROVE  TxnInv'
  <2>1. Usable /\ t.stmt = Empty
    BY <1>6 DEF CreateSavepoint, RollbackToSavepoint, ReleaseSavepoint, Between, InTxn
  <2>2. CASE CreateSavepoint(s, name)
    <3> DEFINE u == [t EXCEPT !.saves = Append(DropSavepoint(@, name),
                                               [name |-> name, buf |-> t.buf])]
    <3>1. SetTxn(s, u)
      BY <2>2 DEF CreateSavepoint
    <3>2. name \in UNION {Names[r] : r \in Sessions}
      BY <1>6
    <3> HIDE DEF t
    <3>3. u \in Txn /\ Good(u, rows, version)
      BY <1>1, <2>1, <3>2, SavepointGood
    <3> HIDE DEF u
    <3> QED
      BY <2>1, <3>1, <3>3, SetTxnKeeps
  <2>3. CASE RollbackToSavepoint(s, name)
    <3> DEFINE i == SavepointAt(s, name)
               u == [t EXCEPT !.buf = t.saves[i].buf, !.saves = SubSeq(@, 1, i)]
    <3>1. SetTxn(s, u) /\ i > 0
      BY <2>3 DEF RollbackToSavepoint
    <3>2. i \in 1 .. Len(t.saves)
      BY <1>2, <3>1, SavepointAtIs
    <3> HIDE DEF t, i
    <3>3. u \in Txn /\ Good(u, rows, version)
      BY <1>1, <2>1, <3>2, BackGood
    <3> HIDE DEF u
    <3> QED
      BY <2>1, <3>1, <3>3, SetTxnKeeps
  <2>4. CASE ReleaseSavepoint(s, name)
    <3> DEFINE i == SavepointAt(s, name)
               u == [t EXCEPT !.saves = SubSeq(@, 1, i - 1)]
    <3>1. SetTxn(s, u) /\ i > 0
      BY <2>4 DEF ReleaseSavepoint
    <3>2. i \in 1 .. Len(t.saves)
      BY <1>2, <3>1, SavepointAtIs
    <3> HIDE DEF t, i
    <3>3. u \in Txn /\ Good(u, rows, version)
      BY <1>1, <2>1, <3>2, ReleaseGood
    <3> HIDE DEF u
    <3> QED
      BY <2>1, <3>1, <3>3, SetTxnKeeps
  <2> QED
    BY <1>6, <2>2, <2>3, <2>4
<1>7. ASSUME NEW k \in Keys, InsertDuplicate(s, k)
      PROVE  TxnInv'
  BY <1>7, DiscardKeeps DEF InsertDuplicate, InTxn
<1>8. CASE CheckUnique(s)
  <2> DEFINE P == Fold(t.buf, t.stmt)
             u == [t EXCEPT !.check = NoKey]
  <2>1. Usable /\ t.check # NoKey
    BY <1>8 DEF CheckUnique, InTxn
  <2>2. CASE Collides(P[t.check].new, t.check, P)
    <3>1. Discard(s)
      BY <1>8, <2>2 DEF CheckUnique
    <3> QED
      BY <2>1, <3>1, DiscardKeeps
  <2>3. CASE ~Collides(P[t.check].new, t.check, P)
    <3>1. SetTxn(s, u)
      BY <1>8, <2>3 DEF CheckUnique
    <3>2. Entries \subseteq index
      BY <1>2, <2>1 DEF KeyspacesInv, InStepBut, Entries
    <3> HIDE DEF t
    <3>3. u \in Txn /\ Good(u, rows, version)
      BY <1>1, <2>1, <2>3, <3>2, CheckedGood
    <3> HIDE DEF u
    <3> QED
      BY <2>1, <3>1, <3>3, SetTxnKeeps
  <2> QED
    BY <2>2, <2>3
<1>9. CASE Close(s)
  <2> DEFINE u == [t EXCEPT !.buf = Fold(@, t.stmt), !.stmt = Empty]
  <2>1. Usable /\ t.check = NoKey /\ SetTxn(s, u)
    BY <1>9 DEF Close, InTxn
  <2> HIDE DEF t
  <2>2. u \in Txn /\ Good(u, rows, version)
    BY <1>1, <2>1, CloseGood
  <2> HIDE DEF u
  <2> QED
    BY <2>1, <2>2, SetTxnKeeps
<1> QED
  BY <1>4, <1>5, <1>6, <1>7, <1>8, <1>9

\* The first write of a COMMIT: the rows it writes are the only ones out of
\* step, and transactions that are still running are behind, if any row changed.
LEMMA CommitLedgerKeeps ==
    ASSUME TxnInv, NEW s \in Sessions, CommitLedger(s)
    PROVE  TxnInv'
<1> DEFINE buf == txn[s].buf
           E == Effective(buf)
<1>1. TypeOK /\ KeyspacesInv /\ \A r \in Sessions : Good(txn[r], rows, version)
  BY InvParts
<1>2. /\ Usable
      /\ rows' = [k \in Keys |-> IF k \in E THEN buf[k].new ELSE rows[k]]
      /\ version' = IF rows' = rows THEN version ELSE version + 1
      /\ lock' = s /\ txn' = txn
      /\ scan' = scan /\ index' = index /\ marker' = marker
      /\ phase' = phase /\ todo' = todo /\ crashes' = crashes
  BY DEF CommitLedger, Between, InTxn, derived
<1>3. buf \in WriteSet
  BY TxnHas, TxnFields
<1>4. DOMAIN buf \subseteq Keys /\ \A k \in DOMAIN buf : buf[k].new \in Row
  BY <1>3, WriteSetIs DEF Pending
<1>5. E \subseteq DOMAIN buf
  BY DEF Effective
<1>6. Effective(txn'[lock'].buf) = E
  BY <1>2
<1> HIDE DEF buf, E
<1>7. TypeOK'
  BY <1>1, <1>2, <1>4, <1>5 DEF TypeOK
<1>8. \A k \in Keys \ E : rows'[k] = rows[k]
  BY <1>2
<1>9. KeyspacesInv'
  <2>1. marker = version /\ InStepBut({}) /\ phase = "up" /\ lock = NoSession
    BY <1>1, <1>2 DEF KeyspacesInv, Usable
  <2>2. version \in Nat /\ marker \in Nat
    BY <1>1 DEF TypeOK
  <2>3. marker' =< version' /\ (marker' = version' => rows' = rows)
    BY <1>2, <2>1, <2>2
  <2>4. rows' = rows => InStepBut({})'
    <3>1. rows' = rows => Live' = Live
      BY DEF Live
    <3> QED
      BY <1>2, <2>1, <3>1 DEF InStepBut
  <2>5. Live' \ E = Live \ E
    BY <1>8 DEF Live
  <2>6. scan' \ E = Live' \ E /\ \A k \in Live' \ E : <<rows'[k], k>> \in index'
    BY <1>2, <1>8, <2>1, <2>5 DEF InStepBut, Live
  <2>7. \A k \in E : rows'[k] = buf[k].new
    BY <1>2, <1>4, <1>5
  <2>8. lock' # NoSession
    BY <1>2, SqlNoSessionAssumption
  <2>9. todo = {}
    BY <1>1, <2>1 DEF KeyspacesInv
  <2>10. /\ scan' \ Effective(txn'[lock'].buf) = Live' \ Effective(txn'[lock'].buf)
         /\ \A k \in Live' \ Effective(txn'[lock'].buf) : <<rows'[k], k>> \in index'
         /\ \A k \in Effective(txn'[lock'].buf) : rows'[k] = txn'[lock'].buf[k].new
    BY <1>2, <1>6, <2>6, <2>7 DEF buf
  <2>11. phase' = "up" /\ todo' = {}
    BY <1>2, <2>1, <2>9
  <2> QED
    BY <2>3, <2>4, <2>8, <2>10, <2>11 DEF KeyspacesInv, InStepBut, Usable
<1>10. ASSUME NEW r \in Sessions PROVE Good(txn'[r], rows', version')
  <2>1. CASE rows' = rows
    BY <1>1, <1>2, <2>1
  <2>2. CASE rows' # rows
    <3>1. txn[r].base =< version /\ txn[r].base \in Nat /\ version \in Nat
      BY <1>1, TxnFields DEF Good, TypeOK
    <3>2. txn[r].base =< version' /\ txn[r].base # version'
      BY <1>2, <2>2, <3>1
    <3> QED
      BY <1>1, <1>2, <3>2 DEF Good
  <2> QED
    BY <2>1, <2>2
<1> QED
  BY <1>7, <1>9, <1>10, InvParts

\* The second write of a COMMIT brings the entries of the rows it wrote in step.
LEMMA CommitDerivedKeeps ==
    ASSUME TxnInv, NEW s \in Sessions, CommitDerived(s)
    PROVE  TxnInv'
<1> DEFINE buf == txn[s].buf
           E == Effective(buf)
<1>1. TypeOK /\ KeyspacesInv /\ \A r \in Sessions : Good(txn[r], rows, version)
  BY InvParts
<1>2. /\ lock = s
      /\ scan' = (scan \ {k \in E : buf[k].new = NoRow}) \cup {k \in E : buf[k].new # NoRow}
      /\ index' = (index \ {<<buf[k].old, k>> : k \in {j \in E : buf[j].old # NoRow}})
                      \cup {<<buf[k].new, k>> : k \in {j \in E : buf[j].new # NoRow}}
      /\ marker' = version
      /\ lock' = NoSession
      /\ txn' = [txn EXCEPT ![s] = NoTxn]
      /\ rows' = rows /\ version' = version
      /\ phase' = phase /\ todo' = todo /\ crashes' = crashes
  BY DEF CommitDerived, ledger
<1>3. buf \in WriteSet
  BY TxnHas, TxnFields
<1>4. /\ DOMAIN buf \subseteq Keys
      /\ \A k \in DOMAIN buf : buf[k].new \in Row /\ buf[k].old \in Row
  BY <1>3, WriteSetIs DEF Pending
<1>5. E \subseteq Keys /\ \A k \in E : buf[k].new # NoRow => buf[k].new \in Vals
  BY <1>4 DEF Effective, Row
<1>6. /\ phase = "up"
      /\ scan \ E = Live \ E
      /\ \A k \in Live \ E : <<rows[k], k>> \in index
      /\ \A k \in E : rows[k] = buf[k].new
  <2>1. lock # NoSession
    BY <1>2, SqlNoSessionAssumption
  <2> QED
    BY <1>1, <1>2, <2>1 DEF KeyspacesInv, InStepBut
<1>7. NoTxn \in Txn /\ Good(NoTxn, rows, version)
  BY <1>1, NoTxnIs DEF TypeOK
<1> HIDE DEF buf, E
<1>8. TypeOK'
  <2>1. scan' \subseteq Keys
    BY <1>1, <1>2, <1>5 DEF TypeOK
  <2>2. index' \subseteq Vals \X Keys
    BY <1>1, <1>2, <1>5 DEF TypeOK
  <2> QED
    BY <1>1, <1>2, <1>7, <2>1, <2>2 DEF TypeOK
<1>9. Live' = Live
  BY <1>2 DEF Live
<1>10. scan' = Live
  <2>1. ASSUME NEW k \in Keys PROVE k \in scan' <=> k \in Live
    BY <1>2, <1>6, <2>1 DEF Live
  <2>2. scan' \subseteq Keys /\ Live \subseteq Keys
    BY <1>8 DEF TypeOK, Live
  <2> QED
    BY <2>1, <2>2
<1>11. ASSUME NEW k \in Live PROVE <<rows[k], k>> \in index'
  <2>1. CASE k \in E
    <3>1. buf[k].new = rows[k] /\ rows[k] # NoRow
      BY <1>6, <2>1 DEF Live
    <3> QED
      BY <1>2, <2>1, <3>1
  <2>2. CASE k \notin E
    <3>1. <<rows[k], k>> \in index
      BY <1>6, <2>2
    <3>2. \A j \in E : <<buf[j].old, j>> # <<rows[k], k>>
      BY <2>2
    <3> QED
      BY <1>2, <3>1, <3>2
  <2> QED
    BY <2>1, <2>2
<1>12. KeyspacesInv'
  <2>1. InStepBut({})'
    BY <1>2, <1>9, <1>10, <1>11 DEF InStepBut
  <2>2. version \in Nat /\ todo' = {} /\ phase' = "up"
    BY <1>1, <1>2, <1>6 DEF TypeOK, KeyspacesInv
  <2> QED
    BY <1>2, <2>1, <2>2 DEF KeyspacesInv
<1>13. \A r \in Sessions : Good(txn'[r], rows', version')
  BY <1>1, <1>2, <1>7 DEF TypeOK
<1> QED
  BY <1>8, <1>12, <1>13, InvParts

\* A crash ends the transactions and leaves the backend as it is.
LEMMA CrashKeeps ==
    ASSUME TxnInv, Crash
    PROVE  TxnInv'
<1>1. TypeOK /\ KeyspacesInv
  BY InvParts
<1>2. /\ phase' = "down" /\ todo' = {} /\ lock' = NoSession
      /\ txn' = [s \in Sessions |-> NoTxn] /\ crashes' = crashes + 1
      /\ rows' = rows /\ version' = version
      /\ scan' = scan /\ index' = index /\ marker' = marker
  BY DEF Crash, ledger, derived
<1>3. NoTxn \in Txn /\ Good(NoTxn, rows, version)
  BY <1>1, NoTxnIs DEF TypeOK
<1>4. TypeOK'
  BY <1>1, <1>2, <1>3 DEF TypeOK, Row
<1>5. KeyspacesInv'
  <2>1. Live' = Live
    BY <1>2 DEF Live
  <2> QED
    BY <1>1, <1>2, <2>1 DEF KeyspacesInv, InStepBut, Usable
<1> QED
  BY <1>2, <1>3, <1>4, <1>5, InvParts

\* Open, and the rebuild it may start: every row not still to do is entered.
LEMMA ReconcileKeeps ==
    ASSUME TxnInv, Open \/ ReconcileDrop \/ ReconcileBuild
    PROVE  TxnInv'
<1>1. TypeOK /\ KeyspacesInv /\ \A r \in Sessions : Good(txn[r], rows, version)
  BY InvParts
<1>2. /\ rows' = rows /\ version' = version /\ txn' = txn /\ lock' = lock
      /\ crashes' = crashes /\ phase # "up" /\ lock = NoSession
  <2>1. rows' = rows /\ version' = version /\ txn' = txn /\ lock' = lock
        /\ crashes' = crashes /\ phase # "up"
    BY DEF Open, ReconcileDrop, ReconcileBuild, ledger
  <2> QED
    BY <1>1, <2>1 DEF KeyspacesInv
<1>3. Live' = Live /\ Live \subseteq Keys /\ version \in Nat
  BY <1>1, <1>2 DEF Live, TypeOK
<1>4. TypeOK' /\ KeyspacesInv'
  <2>1. CASE Open
    <3>1. /\ phase = "down" /\ phase' = IF marker = version THEN "up" ELSE "drop"
          /\ scan' = scan /\ index' = index /\ marker' = marker /\ todo' = todo
      BY <2>1 DEF Open, derived
    <3>2. TypeOK'
      BY <1>1, <1>2, <3>1 DEF TypeOK, Row
    <3>3. InStepBut({})' <=> InStepBut({})
      BY <1>2, <1>3, <3>1 DEF InStepBut
    <3>4. KeyspacesInv'
      BY <1>1, <1>2, <3>1, <3>3 DEF KeyspacesInv, Usable
    <3> QED
      BY <3>2, <3>4
  <2>2. CASE ReconcileDrop
    <3>1. /\ phase = "drop" /\ index' = index /\ marker' = marker
          /\ \/ scan = {} /\ phase' = "build" /\ todo' = Live /\ scan' = scan
             \/ scan' \subseteq scan /\ phase' = phase /\ todo' = todo
      BY <2>2 DEF ReconcileDrop
    <3>2. TypeOK'
      BY <1>1, <1>2, <1>3, <3>1 DEF TypeOK, Row
    <3>3. marker # version /\ marker =< version
      BY <1>1, <3>1 DEF KeyspacesInv
    <3>4. todo' = Live => InStepBut(todo)' \/ scan # {}
      BY <1>3, <3>1 DEF InStepBut
    <3>5. phase' = "build" => /\ todo' \subseteq Live' /\ scan' \cap todo' = {}
                              /\ InStepBut(todo)'
      BY <1>3, <3>1, <3>4
    <3>6. phase' # "build" => todo' = {}
      BY <1>1, <3>1 DEF KeyspacesInv
    <3>7. phase' \in {"drop", "build"}
      BY <3>1
    <3> QED
      BY <1>2, <3>1, <3>2, <3>3, <3>5, <3>6, <3>7 DEF KeyspacesInv, Usable
  <2>3. CASE ReconcileBuild /\ todo = {}
    <3>1. /\ phase = "build" /\ phase' = "up" /\ marker' = version
          /\ scan' = scan /\ index' = index /\ todo' = todo
      BY <2>3 DEF ReconcileBuild
    <3>2. TypeOK'
      BY <1>1, <1>2, <3>1 DEF TypeOK, Row
    <3>3. InStepBut({})
      BY <1>1, <2>3, <3>1 DEF KeyspacesInv
    <3>4. InStepBut({})'
      BY <1>2, <1>3, <3>1, <3>3 DEF InStepBut
    <3> QED
      BY <1>2, <1>3, <2>3, <3>1, <3>2, <3>4 DEF KeyspacesInv, Usable
  <2>4. CASE ReconcileBuild /\ todo # {}
    <3>1. phase = "build"
      BY <2>4 DEF ReconcileBuild
    <3>2. PICK k \in todo : /\ scan' = scan \cup {k}
                            /\ index' = index \cup {<<rows[k], k>>}
                            /\ todo' = todo \ {k}
                            /\ phase' = phase /\ marker' = marker
      BY <2>4 DEF ReconcileBuild
    <3>3. /\ todo \subseteq Live /\ scan \cap todo = {}
          /\ scan \ todo = Live \ todo
          /\ \A j \in Live \ todo : <<rows[j], j>> \in index
          /\ marker # version /\ marker =< version
      BY <1>1, <3>1 DEF KeyspacesInv, InStepBut
    <3>4. rows[k] \in Vals
      BY <1>1, <3>2, <3>3 DEF TypeOK, Live, Row
    <3>5. TypeOK'
      <4>1. index' \subseteq Vals \X Keys
        BY <1>1, <1>3, <3>2, <3>3, <3>4 DEF TypeOK
      <4> QED
        BY <1>1, <1>2, <1>3, <3>2, <3>3, <4>1 DEF TypeOK, Row
    <3>6. /\ todo' \subseteq Live' /\ scan' \cap todo' = {}
          /\ scan' \ todo' = Live' \ todo'
      BY <1>3, <3>2, <3>3
    <3>7. \A j \in Live' \ todo' : <<rows'[j], j>> \in index'
      BY <1>2, <1>3, <3>2, <3>3
    <3>8. InStepBut(todo)'
      BY <3>6, <3>7 DEF InStepBut
    <3> QED
      BY <1>2, <3>1, <3>2, <3>3, <3>5, <3>6, <3>8 DEF KeyspacesInv, Usable
  <2> QED
    BY <2>1, <2>2, <2>3, <2>4
<1> QED
  BY <1>1, <1>2, <1>4, InvParts

\* Every step keeps the invariant.
LEMMA NextKeeps ==
    TxnInv /\ [Next]_vars => TxnInv'
<1> SUFFICES ASSUME TxnInv, [Next]_vars PROVE TxnInv'
  OBVIOUS
<1>1. ASSUME NEW s \in Sessions, SessionStep(s)
      PROVE  TxnInv'
  <2>1. ASSUME NEW k \in Keys, NEW v \in Vals, Insert(s, k, v) \/ Update(s, k, v)
        PROVE  TxnInv'
    <3>1. v \in Row
      BY DEF Row
    <3> QED
      BY <2>1, <3>1, EditKeeps
  <2>2. ASSUME NEW k \in Keys, Delete(s, k) PROVE TxnInv'
    <3>1. NoRow \in Row
      BY DEF Row
    <3> QED
      BY <2>2, <3>1, EditKeeps
  <2>3. CASE CommitLedger(s)
    BY <2>3, CommitLedgerKeeps
  <2>4. CASE CommitDerived(s)
    BY <2>4, CommitDerivedKeeps
  <2> QED
    BY <1>1, <2>1, <2>2, <2>3, <2>4, SessionKeeps DEF SessionStep
<1>2. CASE Crash
  BY <1>2, CrashKeeps
<1>3. CASE Open \/ ReconcileDrop \/ ReconcileBuild
  BY <1>3, ReconcileKeeps
<1>4. CASE UNCHANGED vars
  <2>1. /\ rows' = rows /\ version' = version /\ scan' = scan /\ index' = index
        /\ marker' = marker /\ phase' = phase /\ todo' = todo /\ lock' = lock
        /\ txn' = txn /\ crashes' = crashes
    BY <1>4 DEF vars, ledger, derived
  <2>2. TypeOK /\ KeyspacesInv /\ \A r \in Sessions : Good(txn[r], rows, version)
    BY InvParts
  <2>3. TypeOK'
    BY <2>1, <2>2 DEF TypeOK, Row
  <2>4. Live' = Live
    BY <2>1 DEF Live
  <2>5. KeyspacesInv'
    BY <2>1, <2>2, <2>4 DEF KeyspacesInv, InStepBut, Usable, Effective
  <2> QED
    BY <2>1, <2>2, <2>3, <2>5, InvParts
<1> QED
  BY <1>1, <1>2, <1>3, <1>4 DEF Next

\* The empty database.
LEMMA InitKeeps ==
    Init => TxnInv
<1> SUFFICES ASSUME Init PROVE TxnInv
  OBVIOUS
<1>1. version \in Nat /\ rows \in [Keys -> Row]
  BY DEF Init, Row
<1>2. NoTxn \in Txn /\ Good(NoTxn, rows, version)
  BY <1>1, NoTxnIs
<1>3. TypeOK
  BY <1>1, <1>2 DEF Init, TypeOK
<1>4. Live = {}
  BY DEF Init, Live
<1>5. KeyspacesInv
  BY <1>4 DEF Init, KeyspacesInv, InStepBut
<1>6. \A s \in Sessions : Good(txn[s], rows, version)
  BY <1>2 DEF Init
<1> QED
  BY <1>3, <1>5, <1>6, InvParts

-----------------------------------------------------------------------------
(* Theorems.                                                                *)

\* The invariant of transactions and keyspaces holds in every reachable state:
\* buffers are based on the committed rows while nothing was committed, unique
\* checks stay true until the next commit, and at every step of a commit or a
\* rebuild (txn.go, store.go) the entries out of step are the ones expected.
THEOREM TxnInvariance == Spec => []TxnInv
<1>1. Init => TxnInv
  BY InitKeeps
<1>2. TxnInv /\ [Next]_vars => TxnInv'
  BY NextKeeps
<1> QED
  BY <1>1, <1>2, PTL DEF Spec

\* The marker of store.go never vouches for a wrong keyspace: whenever Open
\* would take the keyspaces as they are, and whenever the store serves, the scan
\* space is exact and no row misses its secondary entry.
THEOREM MarkerSafe == Spec => []MarkerSound
<1>1. TxnInv => MarkerSound
  <2> SUFFICES ASSUME TxnInv, marker = version \/ Usable
               PROVE  scan = Live /\ Entries \subseteq index
    BY DEF MarkerSound
  <2>1. InStepBut({})
    BY InvParts DEF KeyspacesInv
  <2> QED
    BY <2>1 DEF InStepBut, Entries
<1> QED
  BY <1>1, TxnInvariance, PTL

\* The lock is taken by the first write of a COMMIT and by nothing else.
LEMMA LockTaken ==
    ASSUME [Next]_vars, NEW s \in Sessions, lock = NoSession, lock' = s
    PROVE  CommitLedger(s)
<1>1. lock' # lock
  BY SqlNoSessionAssumption
<1>2. ASSUME NEW r \in Sessions, NEW t, SetTxn(r, t) PROVE FALSE
  BY <1>1, <1>2 DEF SetTxn
<1>3. ASSUME NEW r \in Sessions, SessionStep(r) PROVE CommitLedger(s)
  <2>1. ~CommitDerived(r)
    BY <1>1 DEF CommitDerived
  <2>2. CommitLedger(r) => r = s
    BY DEF CommitLedger
  <2>3. CommitLedger(r)
    BY <1>2, <1>3, <2>1 DEF SessionStep, StartTransaction, Rollback, CreateSavepoint,
       RollbackToSavepoint, ReleaseSavepoint, Insert, Update, Delete, Record,
       InsertDuplicate, Discard, CheckUnique, Close, CommitNothing
  <2> QED
    BY <2>2, <2>3
<1>4. ~Crash /\ ~Open /\ ~ReconcileDrop /\ ~ReconcileBuild /\ ~UNCHANGED vars
  BY <1>1 DEF Crash, Open, ReconcileDrop, ReconcileBuild, vars
<1> QED
  BY <1>3, <1>4 DEF Next

\* What a COMMIT that goes through was based on: validated when the ledger has
\* moved, kept by the invariant when it has not.
LEMMA CommitBased ==
    ASSUME TxnInv, NEW s \in Sessions, CommitLedger(s)
    PROVE  \A k \in Effective(txn[s].buf) : rows[k] = txn[s].buf[k].old
<1>1. txn[s].open /\ txn[s].stmt = Empty /\ Valid(txn[s])
  BY DEF CommitLedger, Between, InTxn
<1>2. CASE version # txn[s].base
  BY <1>1, <1>2 DEF Valid, PendingValid
<1>3. CASE version = txn[s].base
  <2>1. Good(txn[s], rows, version) /\ txn[s].buf \in WriteSet
    BY TxnHas, TxnFields
  <2>2. Fold(txn[s].buf, Empty) = txn[s].buf
    BY <2>1, FoldEmpty
  <2>3. BasedIn(txn[s].buf, rows)
    BY <1>1, <1>3, <2>1, <2>2 DEF Good
  <2> QED
    BY <2>3 DEF BasedIn, Effective
<1> QED
  BY <1>2, <1>3

\* First committer wins (commitTxn, validatePendingLocked): no COMMIT replaces
\* a row other than the one its transaction was based on.
THEOREM NoUpdateLost == Spec => NoLostUpdate
<1> DEFINE A == \A s \in Sessions :
                  (lock = NoSession /\ lock' = s) =>
                      \A k \in Effective(txn[s].buf) : rows[k] = txn[s].buf[k].old
<1>1. TxnInv /\ [Next]_vars => [A]_vars
  <2> SUFFICES ASSUME TxnInv, [Next]_vars, NEW s \in Sessions,
                      lock = NoSession, lock' = s
               PROVE  \A k \in Effective(txn[s].buf) : rows[k] = txn[s].buf[k].old
    OBVIOUS
  <2> QED
    BY LockTaken, CommitBased
<1>2. Spec => [][A]_vars
  <2> HIDE DEF A
  <2> QED
    BY <1>1, TxnInvariance, PTL DEF Spec
<1> QED
  BY <1>2 DEF NoLostUpdate

\* A COMMIT over unique rows gives no row the value of a row under a key that
\* its transaction does not name, revalidated (revalidateUniqueLocked) or not.
LEMMA CommitUnique ==
    ASSUME TxnInv, NEW s \in Sessions, CommitLedger(s), UniqueRows,
           NEW k \in Live', NEW j \in Live' \ DOMAIN txn[s].buf,
           rows'[j] = rows'[k], rows'[j] # Null
    PROVE  j = k
<1> DEFINE buf == txn[s].buf
           E == Effective(buf)
<1>1. /\ Usable /\ txn[s].open /\ txn[s].stmt = Empty /\ Valid(txn[s])
      /\ rows' = [i \in Keys |-> IF i \in E THEN buf[i].new ELSE rows[i]]
  BY DEF CommitLedger, Between, InTxn
<1>2. E \subseteq DOMAIN buf
  BY DEF Effective
<1>3. j \in Keys /\ k \in Keys /\ rows'[j] # NoRow
  BY DEF Live
<1>4. rows'[j] = rows[j] /\ j \in Live
  BY <1>1, <1>2, <1>3 DEF Live
<1>5. CASE k \notin E
  <2>1. rows'[k] = rows[k] /\ k \in Live
    BY <1>1, <1>3, <1>5 DEF Live
  <2> QED
    BY <1>4, <2>1 DEF UniqueRows
<1>6. CASE k \in E
  <2>1. buf[k].new = rows[j] /\ k \in DOMAIN buf /\ buf[k].new \notin {NoRow, Null}
    BY <1>1, <1>2, <1>3, <1>4, <1>6
  <2>2. CASE version # txn[s].base
    <3>1. UniqueValid(buf)
      BY <1>1, <2>2 DEF Valid
    <3>2. <<rows[j], j>> \in index
      BY <1>1, <1>4, InvParts DEF KeyspacesInv, InStepBut
    <3>3. \A e \in index : (e[1] = buf[k].new /\ e[2] # k) => e[2] \in DOMAIN buf
      BY <2>1, <3>1 DEF UniqueValid
    <3> QED
      BY <2>1, <3>2, <3>3
  <2>3. CASE version = txn[s].base
    <3>1. Good(txn[s], rows, version) /\ buf \in WriteSet
      BY TxnHas, TxnFields
    <3>2. UniqueIn(rows)
      BY DEF UniqueRows, UniqueIn, Live, LiveIn
    <3>3. ClearIn(buf, NoKey, rows)
      BY <1>1, <2>3, <3>1, <3>2 DEF Good
    <3>4. k # NoKey
      BY <1>3, SqlNoRowAssumption
    <3>5. j \in LiveIn(rows) \ DOMAIN buf
      BY <1>4 DEF Live, LiveIn
    <3>6. rows[j] # buf[k].new
      BY <2>1, <3>3, <3>4, <3>5 DEF ClearIn
    <3> QED
      BY <2>1, <3>6
  <2> QED
    BY <2>2, <2>3
<1> QED
  BY <1>5, <1>6

\* Uniqueness across transactions: whatever was committed between a
\* transaction's checks and its COMMIT.
THEOREM UniqueSafe == Spec => UniqueAcross
<1> DEFINE A == \A s \in Sessions :
                  (lock = NoSession /\ lock' = s /\ UniqueRows) =>
                      \A k \in Live', j \in Live' \ DOMAIN txn[s].buf :
                          (rows'[j] = rows'[k] /\ rows'[j] # Null) => j = k
<1>1. TxnInv /\ [Next]_vars => [A]_vars
  <2> SUFFICES ASSUME TxnInv, [Next]_vars, NEW s \in Sessions,
                      lock = NoSession, lock' = s, UniqueRows
               PROVE  \A k \in Live', j \in Live' \ DOMAIN txn[s].buf :
                          (rows'[j] = rows'[k] /\ rows'[j] # Null) => j = k
    OBVIOUS
  <2>1. CommitLedger(s)
    BY LockTaken
  <2> QED
    BY <2>1, CommitUnique
<1>2. Spec => [][A]_vars
  <2> HIDE DEF A
  <2> QED
    BY <1>1, TxnInvariance, PTL DEF Spec
<1> QED
  BY <1>2 DEF UniqueAcross
=============================================================================

------------------------------ MODULE SqlScan -------------------------------
(***************************************************************************)
(* Scans of one table (sqlledger/table.go PartitionRows, scanIter,          *)
(* reverseIter; txn.go scanOverlay, readRowTxn): a SELECT walks the scan    *)
(* space 'i' or a secondary space 'x' in chunks, merges the rows its        *)
(* transaction has buffered, and resolves each entry to its row.  The       *)
(* store's lock is held inside a chunk read and inside a row read only, so  *)
(* other sessions commit in between.                                        *)
(*                                                                         *)
(* A commit holds the lock over both of its writes, so that a reader never  *)
(* sees the ledger and the keyspaces apart.  The scan space then holds       *)
(* exactly the keys of the rows and an index at least their entries          *)
(* (SqlTxn!MarkerSound).  An index may hold more: the rebuild after a crash  *)
(* leaves it what was there, and a writer that did not know the committed    *)
(* row retracts the entry of another.  An entry is <<value, key>>, with      *)
(* value 0 in the scan space, ordered as its encoding (KeyCodec).            *)
(*                                                                         *)
(* always, ever, stale and moved record what the scan lives through: the     *)
(* entries of rows that were there all along, those that were there at some  *)
(* moment, the entries that at some moment stood for no row, and whether a   *)
(* row that the transaction has buffered is not, or has not been, the        *)
(* committed row it was based on.  The code has no such state.               *)
(***************************************************************************)
EXTENDS Integers, Sequences, FiniteSets, SequencesExt

CONSTANTS
    ScanKeys,       \* primary keys
    ScanVals,       \* values of the indexed column
    Absent,         \* no row
    ScanChunk,      \* scanChunkSize
    MaxBuffered,    \* bound: rows buffered in the transaction
    MaxStale,       \* bound: entries of an index that stand for no row
    MaxCommits      \* bound: commits of other sessions

ASSUME ScanAssumption ==
    /\ ScanKeys \subseteq Nat /\ IsFiniteSet(ScanKeys)
    /\ ScanVals \subseteq Nat \ {0}
    /\ Absent \notin ScanVals
    /\ ScanChunk \in Nat \ {0}
    /\ MaxBuffered \in Nat
    /\ MaxStale \in Nat
    /\ MaxCommits \in Nat

VARIABLES
    table,      \* the committed rows: key -> value or Absent
    space,      \* the entries of the keyspace that is scanned
    buf,        \* tableTxn: key -> [old, new]
    it,         \* the iterator
    commits     \* number of commits of other sessions so far

scanVars == <<table, space, buf, it, commits>>

ScanRow == ScanVals \cup {Absent}

Less(d, e) == d[1] < e[1] \/ (d[1] = e[1] /\ d[2] < e[2])

\* A set of entries in key order: the n-th has n - 1 of the others below it.
InOrder(S) ==
    [n \in 1..Cardinality(S) |->
        CHOOSE e \in S : Cardinality({d \in S : Less(d, e)}) = n - 1]

\* The entry of row r under key k, in the space the iterator i scans.
EntryOf(i, k, r) == <<IF i.secondary THEN r ELSE 0, k>>

\* The entries that the committed rows t have in that space.
Stored(i, t) == {EntryOf(i, k, t[k]) : k \in {j \in ScanKeys : t[j] # Absent}}

-----------------------------------------------------------------------------
(* The overlay.                                                             *)

OverlayAdds(i) ==
    {EntryOf(i, k, buf[k].new) : k \in {j \in DOMAIN buf : buf[j].new # Absent}}

\* Mutant of OverlayMasks: a rewritten row keeps its committed entry.
OverlayMasksDeleted(i) ==
    {EntryOf(i, k, buf[k].old) :
        k \in {j \in DOMAIN buf : buf[j].old # Absent /\ buf[j].new = Absent}}

\* buildOverlay: the committed entries to hide (an add and a mask on the same
\* entry resolve to the add).
OverlayMasks(i) ==
    {EntryOf(i, k, buf[k].old) : k \in {j \in DOMAIN buf : buf[j].old # Absent}}
        \ OverlayAdds(i)

\* mergeOverlay: the entries that are not hidden and the buffered ones, an
\* entry of both once.
MergeOverlay(entries, i) ==
    InOrder((ToSet(entries) \ i.masks) \cup ToSet(i.adds))

-----------------------------------------------------------------------------
(* The iterator.                                                            *)

\* Is a buffered row based on something else than the committed row?
Moved(t) == \E k \in DOMAIN buf : buf[k].old # t[k]

\* PartitionRows: the overlay is built once, before the first chunk.
NewIter(secondary, reverse, stale) ==
    LET i == [state |-> "open", secondary |-> secondary, reverse |-> reverse,
              next |-> <<0, 0>>, buf |-> << >>, done |-> FALSE, adds |-> << >>,
              masks |-> {}, out |-> << >>, always |-> {}, ever |-> {},
              stale |-> stale, moved |-> Moved(table)]
    IN  [i EXCEPT !.adds = InOrder(OverlayAdds(i)), !.masks = OverlayMasks(i),
                  !.always = Stored(i, table), !.ever = Stored(i, table)]

ScanInit ==
    /\ table \in [ScanKeys -> ScanRow]
    /\ \E D \in {S \in SUBSET ScanKeys : Cardinality(S) =< MaxBuffered} :
            buf \in [D -> [old : ScanRow, new : ScanRow]]
    /\ \E secondary, reverse \in BOOLEAN, stale \in SUBSET (ScanVals \X ScanKeys) :
        /\ IsFiniteSet(stale) /\ Cardinality(stale) =< MaxStale
        /\ secondary \/ stale = {}
        /\ it = NewIter(secondary, reverse, stale)
        /\ stale \cap Stored(it, table) = {}
        /\ space = Stored(it, table) \cup stale
    /\ commits = 0

SetIter(i) == it' = i /\ UNCHANGED <<table, space, buf, commits>>

\* Backend.Scan from an entry on, at most ScanChunk entries, under the read
\* lock.
Chunk(from) ==
    LET kvs == InOrder({e \in space : ~Less(e, from)})
    IN  SubSeq(kvs, 1, IF Len(kvs) < ScanChunk THEN Len(kvs) ELSE ScanChunk)

\* Resume strictly after the last entry of the chunk.
Resumed(from, kvs) ==
    IF kvs = << >> THEN from ELSE <<Last(kvs)[1], Last(kvs)[2] + 1>>

\* Mutant of LastChunk: a full chunk ends the scan.
LastChunkFull(kvs) == Len(kvs) =< ScanChunk

\* A short chunk is the last one.
LastChunk(kvs) == Len(kvs) < ScanChunk

\* scanIter.Next, the buffer is used up: read the next chunk.
NextChunk ==
    /\ it.state = "open"
    /\ ~it.reverse
    /\ it.buf = << >>
    /\ ~it.done
    /\ LET kvs == Chunk(it.next)
       IN  SetIter([it EXCEPT !.buf = kvs,
                              !.next = Resumed(it.next, kvs),
                              !.done = LastChunk(kvs)])

\* newReverseScanIter: all chunks are read first, then merged.
ReverseChunk ==
    /\ it.state = "open"
    /\ it.reverse
    /\ ~it.done
    /\ LET kvs == Chunk(it.next)
           all == it.buf \o kvs
       IN  SetIter([it EXCEPT !.next = Resumed(it.next, kvs),
                              !.done = LastChunk(kvs),
                              !.buf = IF LastChunk(kvs)
                                      THEN MergeOverlay(all, it)
                                      ELSE all])

\* readRowTxn: the buffered row of a key, else the committed one.
ReadRowTxn(k) == IF k \in DOMAIN buf THEN buf[k].new ELSE table[k]

\* The iterator i answers with the row entry e resolves to, or fails: the
\* transaction has deleted the row, or the ledger has none any more.
Answer(i, e) ==
    SetIter(IF ReadRowTxn(e[2]) # Absent
            THEN [i EXCEPT !.out = Append(@, e)]
            ELSE [i EXCEPT !.state = "failed"])

Ready == it.state = "open" /\ ~it.reverse /\ (it.buf # << >> \/ it.done)

\* The overlay head comes first: it is smaller, or equal (and shadows the
\* committed entry), or the committed stream has ended.
NextFromOverlay ==
    /\ Ready
    /\ it.adds # << >>
    /\ it.buf # << >> => ~Less(Head(it.buf), Head(it.adds))
    /\ LET same == it.buf # << >> /\ Head(it.adds) = Head(it.buf)
       IN  Answer([it EXCEPT !.adds = Tail(@),
                             !.buf = IF same THEN Tail(@) ELSE @],
                  Head(it.adds))

\* The committed head comes first.  A hidden entry is passed over.
NextFromChunk ==
    /\ Ready
    /\ it.buf # << >>
    /\ it.adds # << >> => Less(Head(it.buf), Head(it.adds))
    /\ LET i == [it EXCEPT !.buf = Tail(@)]
       IN  IF Head(it.buf) \in it.masks
           THEN SetIter(i)
           ELSE Answer(i, Head(it.buf))

\* reverseIter.Next.
NextReverse ==
    /\ it.state = "open"
    /\ it.reverse
    /\ it.done
    /\ it.buf # << >>
    /\ Answer([it EXCEPT !.buf = Front(@)], Last(it.buf))

\* io.EOF.
EndOfScan ==
    /\ it.state = "open"
    /\ it.done
    /\ it.buf = << >>
    /\ it.reverse \/ it.adds = << >>
    /\ SetIter([it EXCEPT !.state = "ended"])

IterStep ==
    \/ NextChunk
    \/ ReverseChunk
    \/ NextFromOverlay
    \/ NextFromChunk
    \/ NextReverse
    \/ EndOfScan

\* buildRowOps and commit, of another session: row r under key k in the place of
\* row o.  A transaction has validated that o is the committed row; an editor
\* without one has not.  The entry of o goes and the entry of r comes.  (A write
\* that changes nothing is not counted.)
OtherCommit(k, o, r) ==
    LET EntriesOf(x) == IF x = Absent THEN {} ELSE {EntryOf(it, k, x)}
    IN  /\ it.state = "open"
        /\ o # Absent \/ r # Absent
        /\ commits < MaxCommits
        /\ commits' = commits + 1
        /\ table' = [table EXCEPT ![k] = r]
        /\ space' = (space \ EntriesOf(o)) \cup EntriesOf(r)
        /\ <<table, space>>' # <<table, space>>
        /\ Cardinality(space' \ Stored(it, table')) =< MaxStale
        /\ it' = [it EXCEPT !.always = @ \cap Stored(it, table'),
                            !.ever = @ \cup Stored(it, table'),
                            !.stale = @ \cup (space' \ Stored(it, table')),
                            !.moved = @ \/ Moved(table')]
        /\ UNCHANGED buf

ScanNext ==
    \/ IterStep
    \/ \E k \in ScanKeys, o, r \in ScanRow : OtherCommit(k, o, r)

ScanSpec == ScanInit /\ [][ScanNext]_scanVars

-----------------------------------------------------------------------------
(* Properties.                                                              *)

\* What the transaction sees of a set of committed entries.
Seen(S) == (S \ OverlayMasks(it)) \cup OverlayAdds(it)

\* The entries of a scan come in key order, forwards or backwards, each once,
\* across chunks and the merge with the overlay.
InScanOrder(out) ==
    \A i, j \in DOMAIN out :
        i < j => IF it.reverse THEN Less(out[j], out[i]) ELSE Less(out[i], out[j])

\* A scan answers in order, and one that reaches its end has answered with every
\* row that was there all along (and that the transaction has not deleted or
\* moved) and every row the transaction buffered, and for no entry but those of
\* rows that were there and those that stood for no row.
ScanAnswers ==
    /\ InScanOrder(it.out)
    /\ it.state = "ended" =>
        /\ Seen(it.always) \subseteq ToSet(it.out)
        /\ ToSet(it.out) \subseteq Seen(it.ever \cup it.stale)

\* A row was committed while the scan ran, or under a row the transaction has
\* buffered.
Raced == it.ever # it.always \/ it.moved

\* Without a race, a scan answers a row twice only if one of the two entries
\* stood for no row, and fails (readRow: "scan entry without a ledger row") only
\* over such an entry: one that the transaction does not hide and whose key has
\* no row that it sees.  A scan of the scan space does neither.
ScanRaces ==
    ~Raced =>
        /\ \A i, j \in DOMAIN it.out :
            i # j /\ it.out[i][2] = it.out[j][2] =>
                {it.out[i], it.out[j]} \cap it.stale # {}
        /\ it.state = "failed" =>
            \E e \in it.stale \ OverlayMasks(it) : ReadRowTxn(e[2]) = Absent
        /\ ~it.secondary => it.stale = {}
=============================================================================

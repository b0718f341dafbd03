------------------------------ MODULE KeyCodec ------------------------------
(***************************************************************************)
(* The key and row codecs of the SQL layer (sqlledger/codec.go) and the     *)
(* index ranges built on them (index.go rangeBounds): byte order of the     *)
(* encoded keys is to be the SQL order of the columns, and a range          *)
(* predicate a range of keys.                                               *)
(*                                                                         *)
(* A byte has Base values instead of 256: 0 stands for 0x00, 1 for 0x01,    *)
(* Base - 1 for 0xFF.  A 64-bit word is two bytes, so that carries and sign *)
(* flips happen as they do in eight.  Floats are bit patterns, sign bit     *)
(* first; not-a-number and negative zero are left out (a negative zero has  *)
(* a key of its own, although SQL holds it equal to zero).  Datetimes are   *)
(* integers (UnixNano), byte strings are strings.                           *)
(***************************************************************************)
EXTENDS Integers, Sequences, FiniteSets, SequencesExt

CONSTANTS
    Base,       \* values of a byte
    Strings,    \* the strings of the instance, sequences of bytes
    Schemas,    \* sequences of column kinds
    SqlNull     \* SQL NULL

ASSUME CodecAssumption ==
    /\ Base \in Nat /\ Base > 3 /\ Base % 2 = 0
    /\ \A s \in Strings : Len(s) < Base /\ \A i \in DOMAIN s : s[i] \in 0..Base - 1

Byte == 0..Base - 1
FF   == Base - 1
Word == Base * Base         \* 2^64
Sign == Word \div 2         \* 1 << 63

Values(kind) ==
    CASE kind = "int"    -> -Sign..Sign - 1
      [] kind = "uint"   -> 0..Word - 1
      [] kind = "float"  -> (0..Word - 1) \ {Sign}
      [] kind = "string" -> Strings

-----------------------------------------------------------------------------
(* Scalars.                                                                 *)

BigEndian(w) == <<w \div Base, w % Base>>
FromBytes(b) == b[1] * Base + b[2]

\* The sign bit of the two's complement is flipped.
EncInt64(v) == BigEndian(((v % Word) + Sign) % Word)

DecInt64(b) ==
    LET w == (FromBytes(b) + Sign) % Word
    IN  IF w < Sign THEN w ELSE w - Word

EncUint64(v) == BigEndian(v)

\* All bits flip below zero, the sign bit flips from zero on.
EncFloat64(bits) ==
    BigEndian(IF bits >= Sign THEN Word - 1 - bits ELSE bits + Sign)

DecFloat64(b) ==
    LET w == FromBytes(b) IN IF w >= Sign THEN w - Sign ELSE Word - 1 - w

\* Mutant of AppendEscaped: a zero byte of the data is not escaped.
AppendEscapedRaw(buf, data) == buf \o data \o <<0, 0>>

\* 0x00 becomes 0x00 0xFF; 0x00 0x00 terminates.
AppendEscaped(buf, data) ==
    FoldLeft(LAMBDA b, x : IF x = 0 THEN b \o <<0, FF>> ELSE Append(b, x),
             buf, data)
        \o <<0, 0>>

EncodeKeyCol(buf, kind, v) ==
    CASE kind = "int"    -> buf \o EncInt64(v)
      [] kind = "uint"   -> buf \o EncUint64(v)
      [] kind = "float"  -> buf \o EncFloat64(v)
      [] kind = "string" -> AppendEscaped(buf, v)

\* encodePK: the columns of a primary key (never NULL) one after the other.
EncodePK(kinds, row) ==
    FoldLeft(LAMBDA b, i : EncodeKeyCol(b, kinds[i], row[i]), << >>,
             [i \in DOMAIN kinds |-> i])

\* encodeIndexCols: a marker before each column, 0x00 for NULL.
EncodeIndexCols(kinds, row) ==
    FoldLeft(LAMBDA b, i : IF row[i] = SqlNull
                           THEN Append(b, 0)
                           ELSE EncodeKeyCol(Append(b, 1), kinds[i], row[i]),
             << >>, [i \in DOMAIN kinds |-> i])

\* Byte order.
BytesLess(a, b) ==
    \/ a # b /\ IsPrefix(a, b)
    \/ \E i \in 1..Len(a) : /\ i =< Len(b)
                            /\ a[i] < b[i]
                            /\ \A j \in 1..i - 1 : a[j] = b[j]

\* incBytes: the smallest byte string above every string with prefix b (b is
\* not all 0xFF: every key starts with the letter of its space).
IncBytes(b) ==
    LET i == Max({j \in DOMAIN b : b[j] # FF})
    IN  Append(SubSeq(b, 1, i - 1), b[i] + 1)

-----------------------------------------------------------------------------
(* Index ranges.  A cut lies between values: below or above NULL, below or  *)
(* above a value, above everything.  A range is a pair of cuts for each of  *)
(* the first columns of the index.                                          *)

Cut(at, v) == [at |-> at, v |-> v]

Space == <<2>>      \* 'x' and the index id, or 'i' and the table id

\* withMarker: a column's key after the prefix.
Marked(secondary, prefix, kind, v) ==
    EncodeKeyCol(IF secondary THEN Append(prefix, 1) ELSE prefix, kind, v)

NoBounds == [ok |-> FALSE]

\* Mutant of LowerKey: the scan starts at a value the range is above of.
LowerKeyAtValue(secondary, prefix, kind, lo) ==
    CASE lo.at = "belowNull" -> prefix
      [] lo.at = "aboveNull" -> IF secondary THEN Append(prefix, 1) ELSE prefix
      [] lo.at = "below"     -> Marked(secondary, prefix, kind, lo.v)
      [] lo.at = "above"     -> Marked(secondary, prefix, kind, lo.v)

\* boundedColumn: where the scan starts ...
LowerKey(secondary, prefix, kind, lo) ==
    CASE lo.at = "belowNull" -> prefix
      [] lo.at = "aboveNull" -> IF secondary THEN Append(prefix, 1) ELSE prefix
      [] lo.at = "below"     -> Marked(secondary, prefix, kind, lo.v)
      [] lo.at = "above"     -> IncBytes(Marked(secondary, prefix, kind, lo.v))

\* ... and the first key past it.
UpperKey(secondary, prefix, kind, hi) ==
    CASE hi.at = "aboveAll"  -> IncBytes(prefix)
      [] hi.at = "above"     -> IncBytes(Marked(secondary, prefix, kind, hi.v))
      [] hi.at = "below"     -> Marked(secondary, prefix, kind, hi.v)
      [] hi.at = "aboveNull" -> Append(prefix, 1)

BoundedColumn(secondary, prefix, kind, lo, hi) ==
    IF \/ lo.at = "aboveAll"
       \/ hi.at = "belowNull"
       \/ hi.at = "aboveNull" /\ ~secondary
    THEN NoBounds
    ELSE [ok |-> TRUE, start |-> LowerKey(secondary, prefix, kind, lo),
                       end |-> UpperKey(secondary, prefix, kind, hi)]

\* A column pinned to one value, or to NULL (in a secondary index).
ExactNull(secondary, c) ==
    secondary /\ c.lo.at = "belowNull" /\ c.hi.at = "aboveNull"
ExactValue(c) == c.lo.at = "below" /\ c.hi.at = "above" /\ c.lo.v = c.hi.v
Exact(secondary, c) == ExactNull(secondary, c) \/ ExactValue(c)

\* rangeBounds: exact columns extend the prefix, the first other one bounds the
\* scan, the columns after it are left to the engine's filter.
RangeBounds(secondary, kinds, rng) ==
    LET pinned == CHOOSE n \in 0..Len(rng) :
                    /\ \A i \in 1..n : Exact(secondary, rng[i])
                    /\ n < Len(rng) => ~Exact(secondary, rng[n + 1])
        prefix == FoldLeft(LAMBDA b, i : IF ExactNull(secondary, rng[i])
                                         THEN Append(b, 0)
                                         ELSE Marked(secondary, b, kinds[i], rng[i].lo.v),
                           Space, [i \in 1..pinned |-> i])
    IN  IF pinned = Len(rng)
        THEN [ok |-> TRUE, start |-> prefix, end |-> IncBytes(prefix)]
        ELSE BoundedColumn(secondary, prefix, kinds[pinned + 1],
                           rng[pinned + 1].lo, rng[pinned + 1].hi)

-----------------------------------------------------------------------------
(* Rows.                                                                    *)

\* encodeRow: a presence byte per column, words, strings behind their length.
EncodeRow(kinds, row) ==
    FoldLeft(LAMBDA b, i :
                IF row[i] = SqlNull THEN Append(b, 0)
                ELSE Append(b, 1) \o
                     (CASE kinds[i] = "int"    -> EncInt64(row[i])
                        [] kinds[i] = "uint"   -> EncUint64(row[i])
                        [] kinds[i] = "float"  -> EncFloat64(row[i])
                        [] kinds[i] = "string" -> <<Len(row[i])>> \o row[i]),
             << >>, [i \in DOMAIN kinds |-> i])

Corrupt == "corrupt"

DecodeWord(kind, b) ==
    CASE kind = "int"   -> DecInt64(b)
      [] kind = "uint"  -> FromBytes(b)
      [] kind = "float" -> DecFloat64(b)

\* One column of decodeRow: d is the row so far and the bytes left.
DecodeCol(d, kind) ==
    LET marker == Head(d.rest)
        rest   == Tail(d.rest)
        size   == IF kind = "string" THEN Head(rest) + 1 ELSE 2
        Step(v, n) == [ok |-> TRUE, row |-> Append(d.row, v),
                       rest |-> SubSeq(rest, n + 1, Len(rest))]
        Fail == [d EXCEPT !.ok = FALSE]
    IN  IF ~d.ok \/ d.rest = << >> THEN Fail
        ELSE IF marker = 0 THEN Step(SqlNull, 0)
        ELSE IF marker # 1 \/ rest = << >> THEN Fail
        ELSE IF size > Len(rest) THEN Fail
        ELSE IF kind = "string" THEN Step(SubSeq(rest, 2, size), size)
        ELSE Step(DecodeWord(kind, SubSeq(rest, 1, 2)), 2)

\* Mutant of DecodeRow: trailing bytes are ignored.
DecodeRowPrefix(kinds, data) ==
    LET d == FoldLeft(DecodeCol, [ok |-> TRUE, row |-> << >>, rest |-> data], kinds)
    IN  IF d.ok THEN d.row ELSE Corrupt

\* decodeRow: every column, and nothing behind the last one.
DecodeRow(kinds, data) ==
    LET d == FoldLeft(DecodeCol, [ok |-> TRUE, row |-> << >>, rest |-> data], kinds)
    IN  IF d.ok /\ d.rest = << >> THEN d.row ELSE Corrupt

-----------------------------------------------------------------------------
(* The SQL order and the questions the properties ask of the codec.         *)

\* The SQL order of two values of a column: NULL first, floats by what their
\* bits denote, strings by binary collation.
FloatOf(bits) == IF bits < Sign THEN bits ELSE Sign - bits
SqlLess(kind, a, b) ==
    IF SqlNull \in {a, b}    THEN a = SqlNull /\ b # SqlNull
    ELSE IF kind = "string" THEN BytesLess(a, b)
    ELSE IF kind = "float"  THEN FloatOf(a) < FloatOf(b)
    ELSE a < b

RowLess(kinds, a, b) ==
    \E i \in DOMAIN kinds : /\ SqlLess(kinds[i], a[i], b[i])
                            /\ \A j \in 1..i - 1 : a[j] = b[j]

\* The rows of a schema of two columns.
RowsOf(kinds) == {<<a, b>> : a \in Values(kinds[1]), b \in Values(kinds[2])}
NullableRowsOf(kinds) ==
    {<<a, b>> : a \in Values(kinds[1]) \cup {SqlNull},
                b \in Values(kinds[2]) \cup {SqlNull}}

InRange(key, bounds) == ~BytesLess(key, bounds.start) /\ BytesLess(key, bounds.end)

PrimaryKeysOrdered ==
    \A kinds \in Schemas : \A a, b \in RowsOf(kinds) :
        RowLess(kinds, a, b) <=> BytesLess(EncodePK(kinds, a), EncodePK(kinds, b))

IndexKeysOrdered ==
    \A kinds \in Schemas : \A a, b \in NullableRowsOf(kinds) :
        RowLess(kinds, a, b) <=>
            BytesLess(EncodeIndexCols(kinds, a), EncodeIndexCols(kinds, b))

\* Does the scan of a's column values meet the entry of row b and key pk?
UniqueScanMeets(kinds, a, b, pk) ==
    LET start == Space \o EncodeIndexCols(kinds, a)
    IN  InRange(Space \o EncodeIndexCols(kinds, b) \o pk,
                [start |-> start, end |-> IncBytes(start)])

UniqueScanFinds ==
    \A kinds \in Schemas : \A a \in NullableRowsOf(kinds), pk \in Byte \X Byte :
        UniqueScanMeets(kinds, a, a, pk)

UniqueScanSpares ==
    \A kinds \in Schemas : \A a, b \in NullableRowsOf(kinds) :
        a # b => \A pk \in {<<0, 0>>, <<FF, FF>>} : ~UniqueScanMeets(kinds, a, b, pk)

\* Does a column's value lie between two cuts?
Between(kind, c, v) ==
    /\ CASE c.lo.at = "belowNull" -> TRUE
         [] c.lo.at = "aboveNull" -> v # SqlNull
         [] c.lo.at = "below"     -> ~SqlLess(kind, v, c.lo.v)
         [] c.lo.at = "above"     -> SqlLess(kind, c.lo.v, v)
    /\ CASE c.hi.at = "aboveAll"  -> TRUE
         [] c.hi.at = "aboveNull" -> v = SqlNull
         [] c.hi.at = "below"     -> SqlLess(kind, v, c.hi.v)
         [] c.hi.at = "above"     -> ~SqlLess(kind, c.hi.v, v)

\* The values at and around which ranges are cut.
Edges(kind) ==
    CASE kind = "int"    -> {-Sign, -1, Sign - 1}
      [] kind = "uint"   -> {0, Sign, Word - 1}
      [] kind = "float"  -> {0, Sign + 1, Sign - 1}
      [] kind = "string" -> {s \in Strings : Len(s) < 2 /\ 1 \notin ToSet(s)}

Columns(kind) ==
    [lo : {Cut("belowNull", SqlNull), Cut("aboveNull", SqlNull)}
            \cup {Cut(at, v) : at \in {"below", "above"}, v \in Edges(kind)},
     hi : {Cut("aboveAll", SqlNull), Cut("aboveNull", SqlNull)}
            \cup {Cut(at, v) : at \in {"below", "above"}, v \in Edges(kind)}]

RangesOf(kinds) ==
    {<<c>> : c \in Columns(kinds[1])}
        \cup {<<c, d>> : c \in {e \in Columns(kinds[1]) : e.lo.v = e.hi.v},
                         d \in Columns(kinds[2])}

EdgeRows(secondary, kinds) ==
    (Edges(kinds[1]) \X Edges(kinds[2]))
        \cup (IF secondary THEN {SqlNull} \X (Edges(kinds[2]) \cup {SqlNull})
                          ELSE {})

\* Is the row in the range, and does the scan of the range meet its key?
Within(kinds, rng, row) == \A i \in DOMAIN rng : Between(kinds[i], rng[i], row[i])
Met(secondary, kinds, bounds, row) ==
    InRange(Space \o (IF secondary THEN EncodeIndexCols(kinds, row) \o <<FF, FF>>
                                   ELSE EncodePK(kinds, row)), bounds)

RangesIncluded ==
    \A kinds \in Schemas, secondary \in BOOLEAN : \A rng \in RangesOf(kinds) :
        LET bounds == RangeBounds(secondary, kinds, rng)
        IN  bounds.ok => \A row \in EdgeRows(secondary, kinds) :
                Within(kinds, rng, row) => Met(secondary, kinds, bounds, row)

PinnedRangesExact ==
    \A kinds \in Schemas, secondary \in BOOLEAN : \A rng \in RangesOf(kinds) :
        LET bounds == RangeBounds(secondary, kinds, rng)
        IN  (bounds.ok /\ (Len(rng) = 1 \/ Exact(secondary, rng[1]))) =>
                \A row \in EdgeRows(secondary, kinds) :
                    Met(secondary, kinds, bounds, row) => Within(kinds, rng, row)

RowsDecode ==
    \A kinds \in Schemas : \A row \in NullableRowsOf(kinds) :
        DecodeRow(kinds, EncodeRow(kinds, row)) = row

DamagedRowsRefused ==
    \A kinds \in Schemas : \A row \in NullableRowsOf(kinds) :
        LET data == EncodeRow(kinds, row)
        IN  /\ \A n \in 0..Len(data) - 1 : DecodeRow(kinds, SubSeq(data, 1, n)) = Corrupt
            /\ \A x \in Byte : DecodeRow(kinds, Append(data, x)) = Corrupt

=============================================================================

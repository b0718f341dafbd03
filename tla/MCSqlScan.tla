----------------------------- MODULE MCSqlScan ------------------------------
(***************************************************************************)
(* SqlScan and KeyCodec for TLC: scans over keys in order, and the encoding  *)
(* that puts them in order, over bytes of four values.                       *)
(***************************************************************************)
EXTENDS SqlScan, KeyCodec

MCStrings == {<< >>, <<0>>, <<1>>, <<3>>, <<0, 0>>, <<0, 3>>, <<1, 0>>, <<3, 3>>}

MCSchemas == {<<"string", "int">>, <<"string", "string">>, <<"float", "string">>,
              <<"uint", "int">>}

\* The codec has no state: its properties are evaluated in one initial state, a
\* scan of the empty table.
AtStart ==
    /\ \A k \in ScanKeys : table[k] = Absent
    /\ DOMAIN buf = {}
    /\ it = NewIter(FALSE, FALSE, {})

\* "byte comparison = SQL ordering, binary collation" (codec.go): the keys of
\* two rows compare as the rows do, column by column, in the primary space and,
\* with NULLs, in a secondary one.  Different rows have different keys.
KeyOrder == AtStart => PrimaryKeysOrdered /\ IndexKeysOrdered

\* CanSupport: "the range shapes the keyspace can serve as a SUPERSET scan"
\* (index.go).  The keys from start to end include every row of the range, and
\* they are exactly its rows when only the last column of the range is not
\* pinned.  uniqueConflict and revalidateUniqueLocked scan from the encoded
\* columns up to incBytes of them: the entries they meet, whatever primary key
\* follows, are exactly those with the same column values.
RangeServed ==
    AtStart => RangesIncluded /\ PinnedRangesExact /\ UniqueScanFinds /\ UniqueScanSpares

\* A stored row decodes to the row that was written, and no truncation or
\* extension of its bytes decodes to any row.
RowRoundTrip == AtStart => RowsDecode /\ DamagedRowsRefused
=============================================================================

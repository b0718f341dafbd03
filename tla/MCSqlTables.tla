---------------------------- MODULE MCSqlTables -----------------------------
(***************************************************************************)
(* SqlTables for TLC.  Sessions, table names and index names are            *)
(* interchangeable.                                                          *)
(***************************************************************************)
EXTENDS SqlTables

Symmetry ==
    Permutations(Sessions) \cup Permutations(Tables) \cup Permutations(Indexes)

\* Bound: once a row is not below its table's counter, the behaviour is followed
\* only while no index has been created.  Index statements neither read nor
\* change a counter.
CountersApart == lowered \cup skipped = {} \/ led.nextIndex = 1
=============================================================================

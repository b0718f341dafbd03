--------------------------- MODULE MCLedgerRestore ---------------------------
(***************************************************************************)
(* A chained replica of a source with two keys and the head leaf, which     *)
(* comes after both of them in path order.                                  *)
(***************************************************************************)
EXTENDS LedgerRestore

MCPaths == {<<0, 0, 0>>, <<0, 0, 1>>}

MCHistoryPath == <<0, 1, 1>>
=============================================================================

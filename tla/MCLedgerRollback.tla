-------------------------- MODULE MCLedgerRollback --------------------------
(***************************************************************************)
(* LedgerRollback for TLC: two keys, one value.                             *)
(***************************************************************************)
EXTENDS LedgerRollback

MCPaths == {<<0, 0>>, <<1, 0>>}

MCHistoryPath == <<0, 1>>
=============================================================================

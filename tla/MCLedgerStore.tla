---------------------------- MODULE MCLedgerStore ----------------------------
(***************************************************************************)
(* LedgerStore for TLC: a binary tree of depth 3 with two user keys and the *)
(* head leaf, which share prefixes of different lengths, so that commits    *)
(* split, collapse and re-home leaves.                                      *)
(***************************************************************************)
EXTENDS LedgerStore

MCPaths == {<<0, 0, 0>>, <<0, 0, 1>>}

MCHistoryPath == <<0, 1, 1>>

Symmetry == Permutations(Values)
=============================================================================

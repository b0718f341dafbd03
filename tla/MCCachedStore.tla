---------------------------- MODULE MCCachedStore ----------------------------
(***************************************************************************)
(* CachedStore for TLC.  A cache of two nodes is smaller than a tree with   *)
(* both keys.                                                               *)
(***************************************************************************)
EXTENDS CachedStore

MCPaths == {<<0, 0>>, <<0, 1>>}

MCHistoryPath == <<1, 1>>
=============================================================================

----------------------------- MODULE MCTreeFold -----------------------------
(***************************************************************************)
(* The tree algorithms for TLC, on keys that share prefixes of every length *)
(* with each other and with the history leaf.  With four slots a node has   *)
(* ranges of width 4, 2 and 1, so leaves are alone in a half as well as in  *)
(* a slot.                                                                  *)
(***************************************************************************)
EXTENDS TreeFold, MerkleProof, TreeDiff

MCPaths == {<<0, 0, 1>>, <<1, 1, 0>>, <<1, 2, 1>>}

MCHistoryPath == <<0, 0, 0>>

Symmetry == Permutations(Values)
=============================================================================

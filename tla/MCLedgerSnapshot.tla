-------------------------- MODULE MCLedgerSnapshot --------------------------
(***************************************************************************)
(* Two streams over an unchained store with three keys, two of them deep in *)
(* one subtree, so that a chunk of one leaf resumes at every level.         *)
(***************************************************************************)
EXTENDS LedgerSnapshot

MCPaths == {<<0, 0, 1>>, <<1, 0, 0>>, <<1, 0, 1>>}

MCHistoryPath == <<0, 1, 1>>

Symmetry == Permutations(Values) \cup Permutations(Streams)
=============================================================================

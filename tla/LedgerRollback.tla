--------------------------- MODULE LedgerRollback ---------------------------
(***************************************************************************)
(* LedgerStore reopened with Open at a (root, version) the caller anchored  *)
(* outside the store.  An anchor is taken after the commit it names, so     *)
(* after a crash it may name an earlier version than the checkpoint does;   *)
(* Open accepts every pair whose root node the backend still holds, and the *)
(* store goes on committing from there.                                     *)
(***************************************************************************)
EXTENDS LedgerStore

\* Open at an anchored version: (root, version) as that version committed it.
Open(v) ==
    /\ v \in Retained
    /\ OpenAt(lineage[v].val, v)
    /\ UNCHANGED ghosts

RollbackNext == Next \/ \E v \in Committed : Open(v)

RollbackSpec == Init /\ [][RollbackNext]_vars

\* "The live tree is never touched" by Prune (store.go): between calls, Get
\* returns what the current version holds, for every key.
LiveTreeReadable ==
    Ready => \A x \in AllPaths :
                GetFrom(root, version, x) = Truth(version, x)
=============================================================================

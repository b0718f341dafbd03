------------------------ MODULE MCSqlKeyspaceFailure ------------------------
(***************************************************************************)
(* SqlKeyspaceFailure for TLC, with the bounds of MCSqlTxn.                  *)
(***************************************************************************)
EXTENDS SqlKeyspaceFailure, MCSqlTxn
=============================================================================

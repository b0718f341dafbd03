------------------------- MODULE SqlKeyspaceFailure -------------------------
(***************************************************************************)
(* SqlTxn with a backend whose second write of a commit may return an       *)
(* error.  Store.commit has made the ledger version durable by then; it     *)
(* hands the error to the caller, and the store goes on serving.            *)
(***************************************************************************)
EXTENDS SqlTxn

\* WriteBatch(scanOps) fails: no entry and no marker is written, COMMIT
\* returns the error, the transaction is gone.
CommitDerivedFails(s) ==
    /\ lock = s
    /\ lock' = NoSession
    /\ txn' = [txn EXCEPT ![s] = NoTxn]
    /\ UNCHANGED <<ledger, derived, phase, todo, crashes>>

FailNext == Next \/ \E s \in Sessions : CommitDerivedFails(s)

FailSpec == Init /\ [][FailNext]_vars

\* The scan keyspace is "maintained alongside each commit and rebuilt from the
\* ledger whenever it does not match the ledger's version" (sqlledger/store.go):
\* a keyspace that carries the ledger's version holds the ledger's rows.
ScanMaintained == marker = version => scan = Live
=============================================================================

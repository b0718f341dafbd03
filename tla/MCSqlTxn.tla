------------------------------ MODULE MCSqlTxn ------------------------------
(***************************************************************************)
(* SqlTxn for TLC.  Keys and values are interchangeable.  In the main run    *)
(* one session writes two rows and uses a savepoint while the other commits  *)
(* single rows against it; in the other runs the sessions are alike.         *)
(***************************************************************************)
EXTENDS SqlTxn

CONSTANTS s1, n1

MainNames == [s \in Sessions |-> IF s = s1 THEN {n1} ELSE {}]
MainTouched == [s \in Sessions |-> IF s = s1 THEN 2 ELSE 1]

NoNames == [s \in Sessions |-> {}]
ThreeRows == [s \in Sessions |-> 3]
OneRow == [s \in Sessions |-> 1]

Symmetry == Permutations(Keys) \cup Permutations(Vals \ {Null})
=============================================================================

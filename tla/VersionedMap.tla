---------------------------- MODULE VersionedMap ----------------------------
(***************************************************************************)
(* What the ledger promises its reader: a map with history.  Every          *)
(* effective commit appends one version; old versions are forgotten from    *)
(* the front, all of them below some horizon at once; nothing else ever     *)
(* changes, and a crash changes nothing.                                    *)
(***************************************************************************)
EXTENDS Integers

CONSTANTS
    Keys,       \* the user's keys
    Values      \* the user's values

VARIABLE hist   \* readable version -> content at that version

Content == UNION {[D -> Values] : D \in SUBSET Keys}

Init == hist = [w \in {} |-> {}]

\* Steps from the history h to the history g.

\* The store comes into being, empty, at version 0.
Create(h, g) ==
    /\ DOMAIN h = {}
    /\ g = [w \in {0} |-> [k \in {} |-> {}]]

\* A commit that changes the content appends the next version.
Commit(h, g) ==
    \E v \in DOMAIN h :
        /\ \A w \in DOMAIN h : w =< v
        /\ DOMAIN g = DOMAIN h \cup {v + 1}
        /\ \A w \in DOMAIN h : g[w] = h[w]
        /\ g[v + 1] \in Content \ {h[v]}

\* The versions below a readable one are forgotten.
Forget(h, g) ==
    \E b \in DOMAIN h : g = [w \in {u \in DOMAIN h : u >= b} |-> h[w]]

Next ==
    \E h \in {hist}, g \in {hist'} : Create(h, g) \/ Commit(h, g) \/ Forget(h, g)

Spec == Init /\ [][Next]_hist
=============================================================================

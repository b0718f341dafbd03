------------------------------ MODULE TreeDiff ------------------------------
(***************************************************************************)
(* ChangesAt of ledger/audit.go: what a commit changed, extracted by        *)
(* walking the trees of two consecutive versions in lockstep and skipping   *)
(* subtrees with equal hashes.  A pointer that may be nil (a child, a       *)
(* loaded node) is a set of at most one element here.                       *)
(***************************************************************************)
EXTENDS LedgerStore

\* A call of diffChildren: the children of both sides at one position.
Pair(p, a, b) == [at |-> p, old |-> a, new |-> b]

\* diffLoad.
DiffLoad(p, C) == {LoadNode(NodeKey(p, c.ver), c.hash) : c \in C}

OldLoad(v) == DiffLoad(v.at, v.old)
NewLoad(v) == DiffLoad(v.at, v.new)

\* The leaf, and the child in slot n, of a node that was loaded.
LeafOf(L) == {r.out : r \in {q \in L : q.st = "found" /\ q.out.isLeaf}}

KidOf(L, n) ==
    {r.out.kids[n] : r \in {q \in L : /\ q.st = "found" /\ ~q.out.isLeaf
                                     /\ n \in DOMAIN q.out.kids}}

\* diffChildren returns at once: there is no child, or two with one hash.
Same(v) == {c.hash : c \in v.old} = {c.hash : c \in v.new}

\* The calls for the slots below a pair, those that return at once left out.
SlotPairs(v) ==
    {u \in {Pair(Append(v.at, n), KidOf(OldLoad(v), n), KidOf(NewLoad(v), n)) : n \in Nibbles} :
        ~Same(u)}

\* diffChildren from the root children a and b: the calls that load nodes, level
\* by level.
DiffChildren(a, b) ==
    LET level[i \in 0 .. Depth] ==
            IF i = 0 THEN {v \in {Pair(<< >>, a, b)} : ~Same(v)}
            ELSE UNION {SlotPairs(v) : v \in level[i - 1]}
    IN  UNION {level[i] : i \in 0 .. Depth}

\* The leaves of both sides in the regions whose hashes differ.
OldLeaves(D) == UNION {LeafOf(OldLoad(v)) : v \in D}
NewLeaves(D) == UNION {LeafOf(NewLoad(v)) : v \in D}

\* Mutant of Written: a leaf that only moved to another position is reported.
WrittenWithMoves(D) == {l \in NewLeaves(D) : l.path # HistoryPath}

\* The leaves with a new value.
Written(D) ==
    {l \in NewLeaves(D) :
        /\ l.path # HistoryPath
        /\ ~\E o \in OldLeaves(D) : o.path = l.path /\ o.val = l.val}

\* The paths without a leaf any more.
Gone(D) ==
    {l.path : l \in OldLeaves(D)} \ ({l.path : l \in NewLeaves(D)} \cup {HistoryPath})

Put(x, a)  == [path |-> x, val |-> a]
Deleted(x) == [path |-> x, val |-> Absent]

ValueOf(l) == ReadValue(l.path, l.val, l.vv)

\* The loads and reads that did not succeed.
DiffErrors(D) ==
    {r \in UNION {OldLoad(v) \cup NewLoad(v) : v \in D} : r.st # "found"}
      \cup {r \in {ValueOf(l) : l \in Written(D)} : r.st # "found"}

Report(D) ==
    {Put(l.path, ValueOf(l).out) : l \in Written(D)} \cup {Deleted(x) : x \in Gone(D)}

\* The root child of version w.
RootLoad(w) == LoadRootChild(roots[w], w)
RootRef(w)  == IF roots[w] = Placeholder THEN {} ELSE {RootLoad(w).out}

Refused == [st |-> "refused", out |-> Absent]

\* ChangesAt: an error, or the set of changes.  A node or a value that does not
\* load ends it with that error (of several, any one).
ChangesAt(w) ==
    LET D == DiffChildren(RootRef(w - 1), RootRef(w))
    IN  IF w \notin 1 .. version THEN Refused
        ELSE IF ~({w - 1, w} \subseteq DOMAIN roots) THEN Missing
        ELSE IF RootLoad(w - 1).st # "found" THEN RootLoad(w - 1)
        ELSE IF RootLoad(w).st # "found" THEN RootLoad(w)
        ELSE IF DiffErrors(D) # {} THEN CHOOSE r \in DiffErrors(D) : TRUE
        ELSE Found(Report(D))

-----------------------------------------------------------------------------
\* The user's keys whose value differs between two versions, with the new value.
ChangesBetween(old, new) ==
    {Put(x, new[x]) : x \in {y \in DOMAIN new \cap Paths :
                                y \notin DOMAIN old \/ old[y] # new[y]}}
      \cup {Deleted(x) : x \in (DOMAIN old \ DOMAIN new) \cap Paths}

\* ChangesAt reports, for every version, exactly the keys whose value differs
\* from the version before, with the new value: no leaf that was split off,
\* collapsed or re-homed by its neighbours, and never the history leaf.  It
\* fails, instead of leaving a change out, only if the version before is pruned.
ChangesExact ==
    up => \A w \in 1 .. version :
        \/ ChangesAt(w) = Found(ChangesBetween(lineage[w - 1].val, lineage[w].val))
        \/ ChangesAt(w) = Missing /\ w - 1 < horizon
=============================================================================

--------------------------- MODULE LedgerSnapshot ---------------------------
(***************************************************************************)
(* Leaf export of ledger/snapshot.go.  A stream is a caller that pins a     *)
(* version, collects its leaves with SnapshotLeaves chunk by chunk, resuming *)
(* after the last path it has, and releases the pin.  The store has a single *)
(* pin, which all streams share; commits, prunes and crashes go on between   *)
(* any two calls.                                                           *)
(***************************************************************************)
EXTENDS LedgerStore

CONSTANTS
    Streams,        \* callers that export
    MaxLeaves       \* the chunk size they ask for

ASSUME MaxLeavesAssumption == MaxLeaves \in Nat \ {0}
ASSUME NoneNoPath == None \notin Path  \* a nil startAfter is no path

VARIABLE
    streams     \* stream -> its phase, version, the leaves it has, and (a
                \* history variable) whether a pin protected it all along

svars == <<vars, streams>>

NoStream == [phase |-> "idle", at |-> 0, got |-> << >>, held |-> FALSE]

SnapshotInit == Init /\ streams = [s \in Streams |-> NoStream]

-----------------------------------------------------------------------------
(* Collecting leaves.                                                       *)

\* pathGreater.  Of two positions, neither above the other: the one that a
\* traversal in nibble order comes to later.
PathGreater(x, y) ==
    \E i \in DOMAIN x \cap DOMAIN y : x[i] > y[i] /\ \A j \in 1 .. i - 1 : x[j] = y[j]

\* The leaves of a content in path order: the n-th has n - 1 below it.
InPathOrder(c) ==
    [n \in 1 .. Cardinality(DOMAIN c) |->
        LET x == CHOOSE y \in DOMAIN c :
                    Cardinality({z \in DOMAIN c : PathGreater(y, z)}) = n - 1
        IN  [path |-> x, val |-> c[x]]]

Collected(out, done) == [st |-> "found", out |-> out, done |-> done]
Failed(r)            == [st |-> r.st, out |-> << >>, done |-> FALSE]

\* A call of collectLeaves: the child, its position (the prefix), and whether it
\* still has the bound startAfter.
Visit(p, c, bounded) == [at |-> p, child |-> c, bounded |-> bounded]

Visited(v) == LoadNode(NodeKey(v.at, v.child.ver), v.child.hash)

Internal(v) == Visited(v).st = "found" /\ ~Visited(v).out.isLeaf

\* Mutant of Descents: every later child keeps the resume bound.
DescentsBounded(v, after) ==
    LET kids == Visited(v).out.kids
        from == {n \in DOMAIN kids : v.bounded => n >= after[Len(v.at) + 1]}
    IN  {Visit(Append(v.at, n), kids[n], v.bounded) : n \in from}

\* The calls for the children of an internal node: those below the resume nibble
\* are skipped, and only the resume child keeps the bound.
Descents(v, after) ==
    LET kids == Visited(v).out.kids
        from == {n \in DOMAIN kids : v.bounded => n >= after[Len(v.at) + 1]}
    IN  {Visit(Append(v.at, n), kids[n], v.bounded /\ n = after[Len(v.at) + 1]) :
            n \in from}

\* The calls, level by level from the root child c, that reach a leaf or an error.
Ends(c, after) ==
    LET level[i \in 0 .. Depth] ==
            IF i = 0 THEN {Visit(<< >>, c, after # None)}
            ELSE UNION {Descents(v, after) : v \in {u \in level[i - 1] : Internal(u)}}
    IN  {v \in UNION {level[i] : i \in 0 .. Depth} : ~Internal(v)}

\* What such a call finds: a leaf, one that was streamed already, or an error.
EndOf(v, after) ==
    LET n == Visited(v)
    IN  IF n.st # "found" THEN n
        ELSE IF v.bounded /\ ~PathGreater(n.out.path, after) THEN NotFound
        ELSE ReadValue(n.out.path, n.out.val, n.out.vv)

\* The calls of E that are made before the chunk is full: a traversal in nibble
\* order comes to them with fewer than MaxLeaves leaves collected.
BeforeFull(E, after) ==
    {v \in E : Cardinality({u \in E : /\ EndOf(u, after).st = "found"
                                     /\ PathGreater(v.at, u.at)}) < MaxLeaves}

\* collectLeaves from the root child c: the leaves that follow the path after
\* (None: all of them) in path order until the chunk is full.  The first error
\* ends it; it is done when no call was left out.
CollectLeaves(c, after) ==
    LET E   == Ends(c, after)
        C   == BeforeFull(E, after)
        bad == {v \in C : EndOf(v, after).st \notin {"found", "absent"}}
        got == {v \in C : EndOf(v, after).st = "found"}
        leaves == [x \in {Visited(v).out.path : v \in got} |->
                    EndOf(CHOOSE v \in got : Visited(v).out.path = x, after).out]
    IN  IF bad # {}
        THEN Failed(EndOf(CHOOSE v \in bad : \A u \in bad : ~PathGreater(v.at, u.at), after))
        ELSE Collected(InPathOrder(leaves), C = E)

SnapshotLeaves(w, after) ==
    IF w \notin DOMAIN roots THEN Failed(Missing)
    ELSE LET c == LoadRootChild(roots[w], w)
         IN  IF c.st # "found" THEN Failed(c)
             ELSE IF roots[w] = Placeholder THEN Collected(<< >>, TRUE)
             ELSE CollectLeaves(c.out, after)

-----------------------------------------------------------------------------
(* Streams.                                                                 *)

\* An open stream stays protected while the pin is at or below its version.
Protected(w) == pin' # None /\ pin' =< w

StreamOpen(s, w) ==
    /\ streams[s].phase = "idle"
    /\ PinVersion(w)
    /\ streams' = [z \in Streams |->
         IF z = s
         THEN [phase |-> "open", at |-> w, got |-> << >>, held |-> w >= horizon]
         ELSE [streams[z] EXCEPT !.held = @ /\ Protected(streams[z].at)]]

StreamRead(s) ==
    /\ Ready
    /\ streams[s].phase = "open"
    /\ LET got == streams[s].got
       IN  \E r \in {SnapshotLeaves(streams[s].at,
                         IF got = << >> THEN None ELSE Last(got).path)} :
             streams' = [streams EXCEPT ![s].got = got \o r.out,
                                        ![s].phase = CASE r.st # "found" -> "failed"
                                                       [] r.done -> "complete"
                                                       [] OTHER  -> "open"]
    /\ UNCHANGED vars

\* The stream is finished or given up; its caller releases the pin.
StreamClose(s) ==
    /\ streams[s].phase # "idle"
    /\ PinVersion(None)
    /\ streams' = [z \in Streams |->
         IF z = s THEN NoStream ELSE [streams[z] EXCEPT !.held = FALSE]]

SnapshotCrash == Crash /\ streams' = [s \in Streams |-> NoStream]

StoreStep ==
    /\ \/ Create
       \/ OpenLatest
       \/ \E upd \in Batches : PutBatch(upd)
       \/ \E before \in 0 .. MaxVersion : PruneStart(before)
       \/ PruneStale
       \/ PruneRoots
       \/ PruneFails
    /\ UNCHANGED streams

SnapshotNext ==
    \/ StoreStep
    \/ SnapshotCrash
    \/ \E s \in Streams :
         \/ \E w \in DOMAIN roots : StreamOpen(s, w)
         \/ StreamRead(s)
         \/ StreamClose(s)

SnapshotSpec == SnapshotInit /\ [][SnapshotNext]_svars

-----------------------------------------------------------------------------
(* Properties.                                                              *)

\* What a stream has received is a prefix, in path order, of the leaves of the
\* version it asked for, and all of them when SnapshotLeaves said done:
\* resuming after a path neither skips nor repeats a leaf, and commits and
\* prunes between two chunks never mix versions.
SnapshotExact ==
    \A s \in Streams :
        streams[s].phase # "idle" =>
            \E all \in {InPathOrder(lineage[streams[s].at].val)} :
                IF streams[s].phase = "complete" THEN streams[s].got = all
                ELSE IsPrefix(streams[s].got, all)

\* A stream fails only if its version was below the horizon when it started or
\* another stream moved or released the one pin meanwhile; a stream that the
\* pin protects all along is served to its end.
PinnedStreamServed ==
    \A s \in Streams : streams[s].phase = "failed" => ~streams[s].held
=============================================================================

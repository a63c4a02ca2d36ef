------------------------------ MODULE FrameRoute ------------------------------
(***************************************************************************)
(* Forests of frames and the route between two frames, as the topology     *)
(* (tf_tree_core/src/topology.rs) stores and plan compilation              *)
(* (tf_tree_core/src/plan.rs) understands them.                            *)
(***************************************************************************)
EXTENDS Integers, FiniteSets

CONSTANTS
    Frames,       \* frame ids, from 1
    MaxPath       \* MAX_PATH_EDGES

ASSUME FramesAssumption == Frames \subseteq Nat \ {0} /\ IsFiniteSet(Frames)
ASSUME PathAssumption == MaxPath \in Nat

NoFrame == 0      \* the parent of a root
NoEdge  == 0      \* the edge of a frame that was never attached

\* parent[f] and edge[f], the edge whose child is f.
Forests == [parent : [Frames -> Frames \cup {NoFrame}], edge : [Frames -> Nat]]

-------------------------------------------------------------------------------
(* Walking up.  A block has one row more than there are frames (max_frames). *)

Budget == 0 .. Cardinality(Frames)

\* parent[f], its parent and so on; a root's parent is NoFrame.
Climb(parent, f) ==
    LET up[n \in Budget] ==
            IF n = 0 THEN parent[f]
            ELSE IF up[n - 1] = NoFrame THEN NoFrame ELSE parent[up[n - 1]]
    IN  up

\* The walk from c ends at a root before it meets c again and within its budget.
creates_cycle(parent, c) ==
    LET up == Climb(parent, c) IN
    ~ \E n \in Budget : up[n] = NoFrame /\ \A m \in 0 .. n - 1 : up[m] # c

\* The number of steps to a root.
depth_of(parent, f) ==
    LET up == Climb(parent, f) IN Cardinality({n \in Budget : up[n] # NoFrame})

-------------------------------------------------------------------------------
(* What the walks are meant to establish. *)

\* No set of frames has all its parents among its members.
Acyclic(parent) ==
    \A S \in SUBSET Frames : S # {} => \E f \in S : parent[f] \notin S

\* A frame and what it hangs from.
Ancestors(parent, f) ==
    {f} \cup ({Climb(parent, f)[n] : n \in Budget} \ {NoFrame})

\* The edges above the frames of a chain, the lowest frame first.
EdgesUp(forest, chain) ==
    LET height(f) == Cardinality(Ancestors(forest.parent, f))
        nth(i) == CHOOSE f \in chain : Cardinality({g \in chain : height(g) >= height(f)}) = i
    IN  [i \in 1 .. Cardinality(chain) |-> forest.edge[nth(i)]]

Found(up, down) == [status |-> "ok", up |-> up, down |-> down]
Refused(error)  == [status |-> error, up |-> <<>>, down |-> <<>>]

\* The route from q.target up to the lowest common ancestor and from there down
\* to q.source, the latter listed upwards as the walk meets it.
Route(forest, q) ==
    LET T == Ancestors(forest.parent, q.target)
        S == Ancestors(forest.parent, q.source)
        climbed == {f \in (T \ S) \cup (S \ T) : forest.parent[f] # NoFrame}
    IN  IF Cardinality(climbed) > MaxPath THEN Refused("TreeTooDeep")
        ELSE IF T \cap S = {} THEN Refused("Disconnected")
        ELSE Found(EdgesUp(forest, T \ S), EdgesUp(forest, S \ T))

\* The forest with c attached below p through edge e.
Attach(forest, c, p, e) ==
    [parent |-> [forest.parent EXCEPT ![c] = p], edge |-> [forest.edge EXCEPT ![c] = e]]

-------------------------------------------------------------------------------
(* A lookup as its caller sees it: its query, the generation it began at and, *)
(* once it is done, its answer.                                               *)

Idle == [phase |-> "idle"]
Called(q, g) == [phase |-> "called", q |-> q, since |-> g]
Answered(q, g, r) == [phase |-> "answered", q |-> q, since |-> g, r |-> r]
===============================================================================

------------------------------- MODULE ForestLog -------------------------------
(***************************************************************************)
(* What the topology promises: a sequence of forests, one per generation,  *)
(* extended atomically by moving one attached frame, and a lookup that is  *)
(* answered by the route of a forest that was current while it ran.  It    *)
(* may instead report that the topology moved, but only when it did.       *)
(***************************************************************************)
EXTENDS FrameRoute

CONSTANTS
    Moves,        \* [child, parent]: what reparent may be asked
    Queries,      \* [target, source]: what a lookup may be asked
    BuildSteps,   \* how many edges the arena was built with
    Built         \* the forests that building it went through

VARIABLES
    hist,         \* the forest of every generation
    generation,   \* the current one
    call          \* the reader: its phase, its query, the generation it began at
                  \* and, once it is done, its answer

logvars == <<hist, generation, call>>

LogInit ==
    /\ generation = BuildSteps
    /\ hist = Built
    /\ call = Idle

Move(m) ==
    LET now  == hist[generation]
        next == Attach(now, m.child, m.parent, now.edge[m.child])
    IN  /\ generation' = generation + 1
        /\ now.edge[m.child] # NoEdge
        /\ Acyclic(next.parent)
        /\ hist' = [g \in 0 .. generation + 1 |-> IF g = generation + 1 THEN next ELSE hist[g]]
        /\ UNCHANGED call

Call(q) ==
    /\ call.phase = "idle"
    /\ call' = Called(q, generation)
    /\ UNCHANGED <<hist, generation>>

\* What a lookup may report when the topology moved under it.
Interrupted == {"TopologyChanged", "FrameOutOfRange"}

Answer ==
    /\ call.phase = "called"
    /\ call'.phase = "answered"
    /\ call' = Answered(call.q, call.since, call'.r)
    /\ \/ \E g \in call.since .. generation : call'.r = Route(hist[g], call.q)
       \/ generation > call.since /\ call'.r.status \in Interrupted
    /\ UNCHANGED <<hist, generation>>

Leave ==
    /\ call.phase = "answered"
    /\ call' = Idle
    /\ UNCHANGED <<hist, generation>>

LogNext ==
    \/ \E m \in Moves : Move(m)
    \/ \E q \in Queries : Call(q)
    \/ Answer \/ Leave

LogSpec == LogInit /\ [][LogNext]_logvars
===============================================================================

------------------------------ MODULE MCTopology ------------------------------
(* Small instances of Topology for TLC. *)
EXTENDS Topology, TLC

CONSTANTS p1, p2

TwoProcs == {p1, p2}

MV(c, p) == [child |-> c, parent |-> p]
Ask(t, s) == [target |-> t, source |-> s]

Bare == [parent |-> [f \in Frames |-> 0], edge |-> [f \in Frames |-> 0]]
Plus(forest, c, p) == Attach(forest, c, p, c)

\* 1 is the root, 2 hangs from 1 and 3 from 2.
ThreeFrames == 1 .. 3
Chain == 0 :> Bare @@ 1 :> Plus(Bare, 2, 1) @@ 2 :> Plus(Plus(Bare, 2, 1), 3, 2)

\* 3 to the root, 2 below 3 (a cycle unless 3 was moved), and the root itself,
\* which has no edge.
ChainMoves == {MV(3, 1), MV(2, 3), MV(1, 2)}
Siblings == {Ask(2, 3)}
===============================================================================

---------------------------- MODULE MCBagIngest ----------------------------
(* Small instances of BagIngest for TLC. *)
EXTENDS BagIngest

Moving(e, t) == [edge |-> e, static |-> FALSE, stamp |-> t]
Fixed(e)     == [edge |-> e, static |-> TRUE, stamp |-> 1]

\* Everything a record can be: a static, a stamp of zero, a reset from 3 to 1.
Records == {Moving(e, t) : e \in Edges, t \in 0 .. 3} \cup {Fixed(e) : e \in Edges}
           \cup {Moving(NoName, 1)}

\* Short recordings of anything; two edges that share a group or do not; one
\* edge so long that its runs are reduced twice before the last merge.
MCRecordings ==
    BoundedSeq(Records, 3)
    \cup [1 .. 6 -> {Moving(e, t) : e \in Edges, t \in {1, 2}}]
    \cup [1 .. 9 -> {Moving(1, t) : t \in {1, 2}}]
=============================================================================

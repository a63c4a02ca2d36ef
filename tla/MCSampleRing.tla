---------------------------- MODULE MCSampleRing ----------------------------
(* Small instances of SampleRing for TLC. *)
EXTENDS SampleRingInv, TLC

CONSTANTS w1, w2, x, y, zero

TwoWords == {w1, w2}
OneWord  == {w1}
MCVals   == {x, y, zero}

\* Poses whose words are all alike, so that a torn pose shows.
Whole(v, W) == [w \in W |-> v]

\* Two stamps, two poses, in every combination: equal stamps may come with
\* different poses.
TwoByTwo == [stamp : {1, 3}, pose : {Whole(x, TwoWords), Whole(y, TwoWords)}]

\* Stamps far enough apart for a query to fall between any two of them; the
\* pose alternates, so that neighbouring samples differ.
Spread == { [stamp |-> 1, pose |-> Whole(x, OneWord)],
            [stamp |-> 3, pose |-> Whole(y, OneWord)],
            [stamp |-> 5, pose |-> Whole(x, OneWord)] }

Ask(ops, policies, seeks, ts) == [op : ops, policy : policies, seek : seeks, t : ts]

\* Between the two stamps and beyond them.
Few == Ask({"sample"}, {"Error", "ConstantTwist"}, {"bisect"}, {2, 4})

\* The two searches, at and between the spread stamps; the policies, at and
\* beyond the newest stamp.
Bisections == Ask({"sample", "twist"}, {"Error"}, {"bisect"}, {1, 2, 4})
Gallops    == Ask({"sample"}, {"Error"}, {"gallop"}, {1, 2, 3, 4})
Extensions == Ask({"sample", "twist"}, {"Hold", "ConstantTwist"}, {"bisect"}, {3, 6})
Every      == Bisections \cup Gallops \cup Extensions
=============================================================================

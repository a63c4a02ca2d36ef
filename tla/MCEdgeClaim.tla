----------------------------- MODULE MCEdgeClaim -----------------------------
(* Small instances of EdgeClaim for TLC. *)
EXTENDS EdgeClaim, TLC

CONSTANTS p1, p2, t1, t2, t3

TwoProcs     == {p1, p2}
ThreeThreads == {t1, t2, t3}
TwoThreads   == {t1, t2}

\* One claiming thread in each process.
OneEach == t1 :> p1 @@ t2 :> p2

\* Two threads of p1 claim the edge, one of p2.
Crowded == t1 :> p1 @@ t2 :> p1 @@ t3 :> p2
==============================================================================

------------------------------ MODULE MCBridge ------------------------------
(* Small instances of Bridge for TLC. *)
EXTENDS Bridge, TLC

CONSTANTS a, b, u

MCSenders == {a, b, u}

\* Two endpoints with a GID of their own, and one without.
MCWho == (a :> "A") @@ (b :> "B") @@ (u :> "anonymous")

\* b dates its transforms ahead; u stands for two endpoints that are a long way
\* apart and that the middleware does not tell apart.
MCLead == (a :> {0}) @@ (b :> {40}) @@ (u :> {0, 40})

Moving(e)   == [edge |-> e, topic |-> "tf", pose |-> "other"]
Fixed(e, p) == [edge |-> e, topic |-> "tf_static", pose |-> p]
Unusable(e) == [edge |-> e, topic |-> "tf", pose |-> "unusable"]

\* Two publishers with an edge each, and a third that contends for one.
Clocks == (a :> {Moving("x")}) @@ (b :> {Moving("y")}) @@ (u :> {Moving("x")})

\* Two publishers of one edge.
Shared == (a :> {Moving("x")}) @@ (b :> {}) @@ (u :> {Moving("x")})

\* Three publishers of one edge, and everything that is not a sample of it.
Tables == (a :> {Moving("x"), Moving("fixed"), Unusable("x"), Moving("")})
          @@ (b :> {Moving("x"), Moving("undeclared"), Fixed("fixed", "other"),
                    Fixed("fixed", "declared")})
          @@ (u :> {Moving("x")})

MCTransforms == UNION ({Clocks[s] : s \in MCSenders} \cup {Tables[s] : s \in MCSenders})

\* A rewind and a seek, well past the threshold.
MCJumps == {-64, 64}

Mode(p, r, l, c, j, t) ==
    [policy |-> p, on_reset |-> r, listening |-> l, receipts |-> c, jumps |-> j,
     traffic |-> t]

\* No clock jumps, and the source would report it if it did.
Steady == { Mode("FirstWriterWins", "halt", TRUE, TRUE, {}, Clocks) }

MCModes == { Mode("FirstWriterWins", "halt", FALSE, TRUE, MCJumps, Clocks),
             Mode("LastWriterWins", "recreate", TRUE, TRUE, MCJumps, Shared),
             Mode("Strict", "halt", TRUE, FALSE, {-64}, Tables) }
=============================================================================

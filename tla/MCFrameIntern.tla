---------------------------- MODULE MCFrameIntern ----------------------------
(* Small instances of FrameIntern for TLC. *)
EXTENDS FrameIntern, TLC

CONSTANTS t1, t2, t3

MCThreads == {t1, t2, t3}

\* Two participants and an anonymous view.
MCMe == (t1 :> 1) @@ (t2 :> 2) @@ (t3 :> 0)

\* "x" and "y" have one hash, and "z", with another, has the same home.
MCNames  == {"x", "y", "z"}
MCHash   == [n \in MCNames |-> IF n = "z" THEN "g" ELSE "h"]
MCHome   == [h \in {"g", "h"} |-> 3]
MCStored == [n \in MCNames |-> n]

MCPlans == (t1 :> {<<"intern", "x">>})
           @@ (t2 :> {<<"intern", "y">>, <<"intern", "z">>})
           @@ (t3 :> {<<"intern", "x">>, <<"find", "x">>})
=============================================================================

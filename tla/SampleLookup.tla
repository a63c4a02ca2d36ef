----------------------------- MODULE SampleLookup -----------------------------
(***************************************************************************)
(* What a lookup on one dynamic edge means: the window of retained samples *)
(* and the answer a log of published samples gives to a request, stated    *)
(* without the ring that stores them (tf_tree_core/src/sample.rs).         *)
(***************************************************************************)
EXTENDS Integers

CONSTANT Capacity      \* physical slots of the ring; a power of two in the code

\* A one-slot ring is out of contract (buffer.rs, retained).
ASSUME CapacityAssumption == Capacity \in Nat /\ Capacity >= 2

\* A lookup: sample (without a cursor: bisect, with one: gallop) or
\* sample_with_twist, at stamp t under an extrapolation policy.
Request == [op     : {"sample", "twist"},
            policy : {"Error", "Hold", "ConstantTwist"},
            seek   : {"bisect", "gallop"},
            t      : Int]

-------------------------------------------------------------------------------
(* The window of logical indices a head value n gives access to. *)

\* Fault: the slot being overwritten is counted in.
retainedAll == Capacity

\* One slot less than the capacity: the remaining one is being overwritten.
retained == Capacity - (IF Capacity > 1 THEN 1 ELSE 0)

Oldest(n) == n - (IF n <= retained THEN n ELSE retained)
Newest(n) == n - 1

-------------------------------------------------------------------------------
(* Results. *)

Err(kind)           == [status |-> kind]
Extrapolation(o, n) == [status |-> "Extrapolation", oldest |-> o, newest |-> n]
Exact(p)            == [status |-> "Exact", pose |-> p]
\* The interpolation (or extension) of two samples: position num/den.
Between(a, b, n, d) == [status |-> "Between", a |-> a, b |-> b, num |-> n, den |-> d]
Ok(r)               == r.status \in {"Exact", "Between"}

\* The segment from sample k of a log to sample k + 1, evaluated at t.
Segment(log, k, t) ==
    Between(log[k].pose, log[k + 1].pose,
            t - log[k].stamp, log[k + 1].stamp - log[k].stamp)

\* The phases of a lookup: asked, working from a log of n samples, answered.
Idle              == [phase |-> "idle"]
Called(q)         == [phase |-> "called", q |-> q]
Working(q, n)     == [phase |-> "working", q |-> q, n |-> n]
Answered(q, n, r) == [phase |-> "answered", q |-> q, n |-> n, r |-> r]

-------------------------------------------------------------------------------
(* The answers, one operator per place t can have relative to the window.   *)

\* t is outside the window and nothing may be extended.
AnswersOutside(log, q, n, r) ==
    /\ \/ q.t < log[Oldest(n)].stamp
       \/ q.t > log[Newest(n)].stamp /\ q.policy = "Error"
    /\ r = Extrapolation(log[Oldest(n)].stamp, log[Newest(n)].stamp)

\* t is newer than every sample: hold the newest one, or extend the segment
\* that ends with it.
AnswersBeyond(log, q, n, r) ==
    /\ q.t >= log[Oldest(n)].stamp
    /\ q.t > log[Newest(n)].stamp
    /\ \/ q.policy = "Hold" /\ r = Exact(log[Newest(n)].pose)
       \/ /\ q.policy = "ConstantTwist"
          /\ Oldest(n) = Newest(n)
          /\ r = IF q.op = "twist" THEN Err("NoSegment") ELSE Exact(log[Newest(n)].pose)
       \/ /\ q.policy = "ConstantTwist"
          /\ Oldest(n) # Newest(n)
          /\ r = IF log[Newest(n) - 1].stamp = log[Newest(n)].stamp
                 THEN Exact(log[Newest(n)].pose)
                 ELSE Segment(log, Newest(n) - 1, q.t)

\* k is the last index of the window whose stamp is at most t.
LastAtMost(log, n, t, k) ==
    /\ log[k].stamp <= t
    /\ \A j \in k + 1 .. Newest(n) : log[j].stamp > t

\* t is inside the window: the sample it hits or the segment it falls into.
AnswersInside(log, q, n, r) ==
    /\ q.op = "sample"
    /\ log[Oldest(n)].stamp <= q.t
    /\ q.t <= log[Newest(n)].stamp
    /\ \E k \in Oldest(n) .. Newest(n) :
          /\ LastAtMost(log, n, q.t, k)
          /\ r = IF log[k].stamp = q.t THEN Exact(log[k].pose) ELSE Segment(log, k, q.t)

\* A twist needs a segment of some length; at the newest stamp it is the one
\* that ends there.
AnswersTwist(log, q, n, r) ==
    /\ q.op = "twist"
    /\ log[Oldest(n)].stamp <= q.t
    /\ q.t <= log[Newest(n)].stamp
    /\ IF Oldest(n) = Newest(n)
       THEN r = Err("NoSegment")
       ELSE \E k \in Oldest(n) .. Newest(n) - 1 :
               /\ IF q.t = log[Newest(n)].stamp
                  THEN k = Newest(n) - 1
                  ELSE LastAtMost(log, n, q.t, k)
               /\ r = IF log[k].stamp = log[k + 1].stamp
                      THEN Err("NoSegment")
                      ELSE Segment(log, k, q.t)

\* r is the answer of the samples log[0] .. log[n - 1] to request q.
Answers(log, q, n, r) ==
    IF n = 0 THEN r = Err("NoData")
    ELSE \/ AnswersOutside(log, q, n, r)
         \/ AnswersBeyond(log, q, n, r)
         \/ AnswersInside(log, q, n, r)
         \/ AnswersTwist(log, q, n, r)
===============================================================================

------------------------------ MODULE SampleLog ------------------------------
(***************************************************************************)
(* What an edge's sample ring promises: a log that samples are appended to *)
(* atomically, in stamp order, and a reader whose lookup is answered from  *)
(* one state of that log.  A lookup may instead fail, but only when the    *)
(* log grew while it ran.                                                  *)
(***************************************************************************)
EXTENDS SampleLookup

CONSTANTS Samples, Requests   \* what may be published, what may be asked

VARIABLES
    log,      \* the published samples, indexed from 0
    count,    \* how many there are
    call      \* the reader: its phase, its request, the count it works from
              \* and, once it is done, its result

logvars == <<log, count, call>>

LogInit ==
    /\ count = 0
    /\ log = [k \in {} |-> 0]
    /\ call = Idle

Publish(s) ==
    /\ count > 0 => s.stamp >= log[count - 1].stamp
    /\ log' = [k \in 0 .. count |-> IF k = count THEN s ELSE log[k]]
    /\ count' = count + 1
    /\ UNCHANGED call

Call(q) ==
    /\ call.phase = "idle"
    /\ call' = Called(q)
    /\ UNCHANGED <<log, count>>

\* The lookup commits to the log as it is now; an empty one is answered at once.
Take ==
    /\ call.phase = "called"
    /\ call' = IF count = 0
               THEN Answered(call.q, 0, Err("NoData"))
               ELSE Working(call.q, count)
    /\ UNCHANGED <<log, count>>

\* Errors a lookup may report once the log has grown under it.
Interrupted == {"SlotRecycled", "SlotContended", "Extrapolation", "NoSegment"}

Answer ==
    /\ call.phase = "working"
    /\ call'.phase = "answered"
    /\ call' = Answered(call.q, call.n, call'.r)
    /\ \/ Answers(log, call.q, call.n, call'.r)
       \/ count > call.n /\ call'.r.status \in Interrupted
    /\ UNCHANGED <<log, count>>

Leave ==
    /\ call.phase = "answered"
    /\ call' = Idle
    /\ UNCHANGED <<log, count>>

LogNext ==
    \/ \E s \in Samples : Publish(s)
    \/ \E q \in Requests : Call(q)
    \/ Take \/ Answer \/ Leave

LogSpec == LogInit /\ [][LogNext]_logvars
===============================================================================

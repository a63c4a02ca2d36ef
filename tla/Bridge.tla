------------------------------- MODULE Bridge -------------------------------
(***************************************************************************)
(* The ROS ingest bridge: the pipeline a transform goes through between    *)
(* its reception and the arena (crates/tf_tree_bridge: Ingest with its     *)
(* authority, static, offset and clock tables), behind the C seam          *)
(* (crates/tf_tree_c/src/bridge.rs) that performs the arena write and      *)
(* latches a stop, and the mailbox in which the ROS node's clock thread    *)
(* leaves a reported jump (ros/tf_tree_ros).                               *)
(*                                                                         *)
(* The ingest thread is alone on the tables, so one delivered transform is *)
(* one step.  What races it is the environment: publishers whose messages  *)
(* are delivered late, each in its own order; the steady clock; the        *)
(* source's clock, which may jump; the clock thread; the startup timer.    *)
(***************************************************************************)
EXTENDS Integers, Sequences, FiniteSets

CONSTANTS
    Senders,            \* endpoints that publish on /tf and /tf_static
    Who,                \* sender -> the publisher identity its GID gives
    Unattributed,       \* the identity of every sender without a GID
    Lead,               \* sender -> how far it may stamp ahead of its clock
    Dynamic,            \* declared dynamic edges
    Static,             \* declared static edges
    BadNames,           \* names that do not normalize
    Transforms,         \* what can be published
    Modes,              \* configurations, each with what it is exposed to
    Threshold,          \* ClockPolicy::reset_threshold_nanos
    Window,             \* ClockPolicy::correlation_window_nanos
    Ratio,              \* ClockPolicy::common_mode_tolerance_ratio, in percent
    Floor,              \* ClockPolicy::common_mode_tolerance_floor_nanos
    RewindThreshold,    \* kClockRewindThresholdNanos
    MAX_TRACKED_PUBLISHERS,
    STARTUP_WINDOW_TRANSFORMS,
    None,               \* no owner, no mark, no time
    Over,               \* the id of a publisher past the cap (u32::MAX)
    Step,               \* how far the steady clock advances at once
    Delay,              \* the longest a message waits for the ingest thread
    MaxNow, MaxQueue, MaxSends, MaxOdd, MaxJumps

Publishers == {Who[s] : s \in Senders}
Declared   == Dynamic \cup Static

ASSUME ClockAssumption ==
    /\ Threshold \in Nat /\ Window \in Nat /\ Ratio \in Nat /\ Floor \in Nat
    /\ Step \in Nat \ {0} /\ Delay \in Nat
    /\ MAX_TRACKED_PUBLISHERS \in Nat /\ STARTUP_WINDOW_TRANSFORMS \in Nat

ASSUME SenderAssumption ==
    /\ \A s \in Senders : Lead[s] \subseteq Int
    /\ \A s, t \in Senders :
          Who[s] = Who[t] /\ Who[s] # Unattributed => s = t

ASSUME TrafficAssumption ==
    /\ Transforms \subseteq [edge : STRING, topic : {"tf", "tf_static"},
                             pose : {"declared", "other", "unusable"}]
    /\ Dynamic \cap Static = {}
    /\ Modes \subseteq [policy    : {"FirstWriterWins", "LastWriterWins", "Strict"},
                        on_reset  : {"halt", "recreate"},
                        listening : BOOLEAN,    \* the jump callback is registered
                        receipts  : BOOLEAN,    \* the caller has a steady clock
                        jumps     : SUBSET Int, \* how the source's clock may jump
                        traffic   : [Senders -> SUBSET Transforms]]

VARIABLES
    \* The environment.
    now,        \* the steady clock
    shift,      \* how far the source's clock was moved by jumps
    jumps,      \* how many jumps there were
    flight,     \* sender -> its messages that wait for the ingest thread
    sends, odd, \* messages published so far, and the unusual ones of them
    \* BridgeHandle.
    mode,       \* the configuration, see Modes
    pending,    \* a reported jump waits in the mailbox
    \* Ingest.
    open,       \* startup_window_open
    owners,     \* Authority::owners
    known,      \* publishers Authority interned
    reported,   \* Authority::reported: <<edge, owner id, intruder id>>
    intruded,   \* StaticStore::first_intruder: edges with a conflict
    tracked,    \* publishers OffsetTable interned
    rows,       \* OffsetTable::rows
    newest,     \* ClockGuard::newest of each dynamic edge
    stats,      \* BridgeStats
    \* The C seam and the arena.
    stopped,    \* BridgeInner::stopped: "no", "halt" or "recreate"
    refused,    \* refused_after_halt
    unusable,   \* dropped_bad_pose
    arena,      \* the newest stamp of each edge's ring
    rejected,   \* rejected_by_arena
    \* What the properties need to remember.
    early,      \* a conflict was recorded while the window was open
    promoted,   \* the offset rung concluded that the clock moved
    heard,      \* publisher -> epoch of its last sample the offset rung saw
    witness     \* publisher -> when the rung saw it cross a jump

world   == <<now, shift, jumps, sends, odd, mode>>
tables  == <<open, owners, known, reported, intruded>>
clocks  == <<tracked, rows, newest>>
seam    == <<stopped, refused, unusable, arena, rejected>>
history == <<early, promoted, heard, witness>>
vars    == <<world, flight, pending, tables, clocks, stats, seam, history>>

Buckets == {"applied", "static_verified", "dropped_authority",
            "dropped_non_monotonic", "dropped_bad_name",
            "dropped_kind_change", "dropped_undeclared"}

NoRow == [seen |-> FALSE, baseline |-> 0, stepped |-> FALSE, at |-> 0, delta |-> 0]

Init ==
    /\ now = Step /\ shift = 0 /\ jumps = 0 /\ sends = 0 /\ odd = 0
    /\ mode \in Modes
    /\ flight = [s \in Senders |-> <<>>]
    /\ pending = FALSE
    /\ open = TRUE
    /\ owners = [e \in Dynamic |-> None]
    /\ known = {} /\ reported = {} /\ intruded = {}
    /\ tracked = {}
    /\ rows = [p \in Publishers |-> NoRow]
    /\ newest = [e \in Dynamic |-> None]
    /\ stats = [b \in Buckets \cup {"transforms", "clock_resets"} |-> 0]
    /\ stopped = "no" /\ refused = 0 /\ unusable = 0
    /\ arena = [e \in Dynamic |-> None] /\ rejected = 0
    /\ early = FALSE /\ promoted = FALSE
    /\ heard = [p \in Publishers |-> None]
    /\ witness = [p \in Publishers |-> None]

-----------------------------------------------------------------------------
(***************************************************************************)
(* The environment.                                                        *)
(***************************************************************************)

\* Anything but a good sample of a dynamic edge.
Odd(t) == t.topic # "tf" \/ t.edge \notin Dynamic \/ t.pose = "unusable"

Publish(s) ==
    \E t \in mode.traffic[s], lead \in Lead[s] :
        /\ sends < MaxSends /\ Len(flight[s]) < MaxQueue
        /\ Odd(t) => odd < MaxOdd
        /\ flight' = [flight EXCEPT ![s] =
              Append(@, [t |-> t, stamp |-> now + shift + lead,
                         sent |-> now, epoch |-> jumps])]
        /\ sends' = sends + 1
        /\ odd' = IF Odd(t) THEN odd + 1 ELSE odd
        /\ UNCHANGED <<now, shift, jumps, mode, pending, tables, clocks, stats,
                       seam, history>>

\* Time passes, but no message waits longer than Delay.
Tick ==
    /\ now + Step <= MaxNow
    /\ \A s \in Senders : \A i \in 1 .. Len(flight[s]) :
          now + Step - flight[s][i].sent <= Delay
    /\ now' = now + Step
    /\ UNCHANGED <<shift, jumps, sends, odd, mode, flight, pending, tables, clocks,
                   stats, seam, history>>

\* The source's clock jumps, or another source takes over.  The callback of the
\* clock thread is registered for changes of the source and for rewinds of
\* RewindThreshold or more; it leaves the jump in the mailbox, which holds one
\* and lets the first one stand.
Jump ==
    \E d \in mode.jumps, changed \in BOOLEAN :
        /\ jumps < MaxJumps
        /\ jumps' = jumps + 1
        /\ shift' = shift + d
        /\ pending' = (pending \/ (mode.listening /\ (changed \/ d <= -RewindThreshold)))
        /\ UNCHANGED <<now, sends, odd, mode, flight, tables, clocks, stats, seam,
                       history>>

-----------------------------------------------------------------------------
(***************************************************************************)
(* The clock ladder.                                                       *)
(***************************************************************************)

Abs(x) == IF x < 0 THEN -x ELSE x

\* Integer division that truncates toward zero, by BASELINE_DIVISOR.
Eighth(x) == IF x < 0 THEN -((-x) \div 8) ELSE x \div 8

\* Fault: the smaller step gives the scale.
ToleranceOfSmaller(a, b) ==
    LET scale  == IF Abs(a) < Abs(b) THEN Abs(a) ELSE Abs(b)
        scaled == (scale * Ratio) \div 100
    IN  IF scaled < Floor THEN Floor ELSE scaled

\* OffsetTable::tolerance.
Tolerance(a, b) ==
    LET scale  == IF Abs(a) < Abs(b) THEN Abs(b) ELSE Abs(a)
        scaled == (scale * Ratio) \div 100
    IN  IF scaled < Floor THEN Floor ELSE scaled

\* The id an interner with the publishers S gives p.
Interned(S, p) ==
    IF p \in S \/ Cardinality(S) < MAX_TRACKED_PUBLISHERS THEN S \cup {p} ELSE S
IdFor(S, p) == IF p \in Interned(S, p) THEN p ELSE Over

\* No receipt clock: the sentinel SteadyNanos::UNKNOWN.
UNKNOWN == 0
Received == IF mode.receipts THEN now ELSE UNKNOWN

\* The publisher has a row, or is given one: otherwise the rung passes.
Heeded(p) == Received # UNKNOWN /\ p \in Interned(tracked, p)

Residual(p, stamp) == (stamp - Received) - rows[p].baseline

Steps(p, stamp) ==
    Heeded(p) /\ rows[p].seen /\ Abs(Residual(p, stamp)) > Threshold

\* p's row once the sample was folded in.
RowAfter(p, stamp) ==
    IF ~rows[p].seen
    THEN [seen |-> TRUE, baseline |-> stamp - Received, stepped |-> FALSE,
          at |-> 0, delta |-> 0]
    ELSE IF Steps(p, stamp)
    THEN [seen |-> TRUE, baseline |-> stamp - Received, stepped |-> TRUE,
          at |-> Received, delta |-> Residual(p, stamp)]
    ELSE [rows[p] EXCEPT !.baseline = @ + Eighth(Residual(p, stamp))]

\* Fault: a publisher corroborates its own step.
AgreeingWithItself(p, delta) ==
    { q \in Publishers :
        \/ q = p
        \/ /\ rows[q].seen /\ rows[q].stepped
           /\ 0 <= Received - rows[q].at /\ Received - rows[q].at <= Window
           /\ Abs(delta - rows[q].delta) <= Tolerance(delta, rows[q].delta) }

\* The publishers other than p whose last step agrees with p's.
Agreeing(p, delta) ==
    { q \in Publishers \ {p} :
        /\ rows[q].seen /\ rows[q].stepped
        /\ 0 <= Received - rows[q].at /\ Received - rows[q].at <= Window
        /\ Abs(delta - rows[q].delta) <= Tolerance(delta, rows[q].delta) }

CommonMode(p, stamp) ==
    Steps(p, stamp) /\ Agreeing(p, Residual(p, stamp)) # {}

\* One transform is counted, in one bucket.
Charge(bucket) ==
    stats' = [stats EXCEPT !["transforms"] = @ + 1, ![bucket] = @ + 1]

\* apply_clock_reset: only a Recreate forgets marks and baselines.
ApplyClockReset(afterRows) ==
    /\ stopped' = mode.on_reset
    /\ IF mode.on_reset = "recreate"
       THEN /\ rows' = [p \in Publishers |-> NoRow]
            /\ newest' = [e \in Dynamic |-> None]
       ELSE /\ rows' = afterRows
            /\ UNCHANGED newest

\* Fault: a reported jump is charged like the sample that completes a step.
NoteTimeJumpCharged ==
    /\ ApplyClockReset(rows)
    /\ stats' = [stats EXCEPT !["clock_resets"] = @ + 1,
                             !["dropped_non_monotonic"] = @ + 1]
    /\ UNCHANGED <<tables, tracked, unusable, arena, rejected, history>>

\* note_time_jump, on a bridge that runs.
NoteTimeJump ==
    /\ ApplyClockReset(rows)
    /\ stats' = [stats EXCEPT !["clock_resets"] = @ + 1]
    /\ UNCHANGED <<tables, tracked, unusable, arena, rejected, history>>

\* Fault: the guard lets jitter through.
ForwardOrJitter(e, stamp) ==
    newest[e] # None => newest[e] - stamp < Threshold

\* ClockGuard::observe; jitter and a regression past the threshold are dropped
\* alike.
Forward(e, stamp) == newest[e] # None => stamp >= newest[e]

\* The pipeline approved a sample: the guard's mark moves, and the ring takes
\* every stamp that is not older than its newest.
Apply(e, stamp) ==
    /\ newest' = [newest EXCEPT ![e] = stamp]
    /\ Charge("applied")
    /\ IF arena[e] = None \/ stamp >= arena[e]
       THEN arena' = [arena EXCEPT ![e] = stamp] /\ UNCHANGED rejected
       ELSE rejected' = rejected + 1 /\ UNCHANGED arena

\* The offset rung, then the edge's guard.
ClockRungs(p, m) ==
    LET e == m.t.edge
        afterRows == IF Heeded(p)
                     THEN [rows EXCEPT ![p] = RowAfter(p, m.stamp)]
                     ELSE rows
    IN
    /\ tracked' = IF Received = UNKNOWN THEN tracked ELSE Interned(tracked, p)
    /\ heard' = IF Heeded(p) THEN [heard EXCEPT ![p] = m.epoch] ELSE heard
    /\ witness' = IF Heeded(p) /\ rows[p].seen /\ heard[p] # m.epoch
                  THEN [witness EXCEPT ![p] = Received] ELSE witness
    /\ \/ /\ CommonMode(p, m.stamp)
          /\ stats' = [stats EXCEPT !["transforms"] = @ + 1, !["clock_resets"] = @ + 1,
                                    !["dropped_non_monotonic"] = @ + 1]
          /\ ApplyClockReset(afterRows)
          /\ promoted' = TRUE
          /\ UNCHANGED <<arena, rejected>>
       \/ /\ ~CommonMode(p, m.stamp)
          /\ rows' = afterRows
          /\ UNCHANGED <<stopped, promoted>>
          /\ \/ /\ Forward(e, m.stamp)
                /\ Apply(e, m.stamp)
             \/ /\ ~Forward(e, m.stamp)
                /\ Charge("dropped_non_monotonic")
                /\ UNCHANGED <<newest, arena, rejected>>

-----------------------------------------------------------------------------
(***************************************************************************)
(* The other tables of Ingest::offer.                                      *)
(***************************************************************************)

\* The sample is disposed of without the clock.
Settled(bucket) ==
    Charge(bucket) /\ UNCHANGED <<clocks, stopped, arena, rejected, promoted, heard, witness>>

NotTheOwner(p, e) ==
    /\ owners[e] # None /\ owners[e] # p
    /\ mode.policy # "LastWriterWins"

\* Authority::record: the owner is interned before the intruder.
RecordConflict(p, e) ==
    LET o == owners[e]
        S == Interned(known, o)
    IN  /\ known' = Interned(S, p)
        /\ reported' = reported \cup {<<e, IdFor(known, o), IdFor(S, p)>>}

\* Steps 1 to 6 of offer.
Classify(p, m) ==
    LET e      == m.t.edge
        moving == m.t.topic = "tf"
    IN
    \/ /\ e \in BadNames
       /\ Settled("dropped_bad_name")
       /\ UNCHANGED <<owners, known, reported, intruded, early>>
    \/ /\ e \notin BadNames \cup Declared
       /\ Settled("dropped_undeclared")
       /\ UNCHANGED <<owners, known, reported, intruded, early>>
    \/ /\ e \in IF moving THEN Static ELSE Dynamic
       /\ Settled("dropped_kind_change")
       /\ UNCHANGED <<owners, known, reported, intruded, early>>
    \/ /\ ~moving /\ e \in Static /\ m.t.pose = "declared"
       /\ Settled("static_verified")
       /\ UNCHANGED <<owners, known, reported, intruded, early>>
    \/ /\ ~moving /\ e \in Static /\ m.t.pose # "declared"
       /\ intruded' = intruded \cup {e}
       /\ early' = (early \/ open')
       /\ Settled("dropped_authority")
       /\ UNCHANGED <<owners, known, reported>>
    \/ /\ moving /\ e \in Dynamic /\ NotTheOwner(p, e)
       /\ RecordConflict(p, e)
       /\ early' = (early \/ open')
       /\ Settled("dropped_authority")
       /\ UNCHANGED <<owners, intruded>>
    \/ /\ moving /\ e \in Dynamic /\ ~NotTheOwner(p, e)
       /\ owners' = [owners EXCEPT ![e] = p]
       /\ ClockRungs(p, m)
       /\ UNCHANGED <<known, reported, intruded, early>>

\* Authority::conflicts looks up both publishers of every record, and has none
\* to look up for an id past the cap: it panics, and the seam turns the panic
\* into an error code after the window was closed.
ConflictsPanic == \E c \in reported : c[2] = Over \/ c[3] = Over

\* Fault: static conflicts are left to their own diagnostic.
CloseHaltsOnAuthority ==
    mode.policy = "Strict" /\ ~ConflictsPanic /\ reported # {}

\* What close_startup_window finds in a window that is open.
CloseHalts == mode.policy = "Strict" /\ ~ConflictsPanic /\ (reported # {} \/ intruded # {})
ClosePanics == mode.policy = "Strict" /\ ConflictsPanic

Offer(p, m) ==
    LET backstop == open /\ stats["transforms"] >= STARTUP_WINDOW_TRANSFORMS
    IN
    \/ /\ backstop /\ (CloseHalts \/ ClosePanics)
       /\ open' = FALSE
       /\ stopped' = IF CloseHalts THEN "halt" ELSE stopped
       /\ UNCHANGED <<owners, known, reported, intruded, clocks, stats, arena, rejected,
                      history>>
    \/ /\ ~(backstop /\ (CloseHalts \/ ClosePanics))
       /\ open' = (open /\ ~backstop)
       /\ Classify(p, m)

-----------------------------------------------------------------------------
(***************************************************************************)
(* The ingest thread.                                                      *)
(***************************************************************************)

\* Fault: the mailbox is emptied after the transforms were offered.
IngestThenDrain(s, m) ==
    \/ /\ stopped # "no"
       /\ refused' = refused + 1
       /\ UNCHANGED <<tables, clocks, stats, stopped, unusable, arena, rejected, history>>
    \/ /\ stopped = "no" /\ m.t.pose # "unusable"
       /\ Offer(Who[s], m)
       /\ UNCHANGED <<refused, unusable>>

\* BridgeHandle::ingest and tft_bridge_offer: the mailbox is emptied first,
\* and a stop is latched, so that the transform behind a jump is refused.  One
\* step: the offer reads nothing that the clock thread writes, so a jump that
\* is reported while it runs might as well be reported after it.
Ingest(s, m) ==
    \/ /\ stopped # "no"
       /\ refused' = refused + 1
       /\ UNCHANGED <<tables, clocks, stats, stopped, unusable, arena, rejected, history>>
    \/ /\ stopped = "no" /\ pending
       /\ NoteTimeJump
       /\ refused' = refused + 1
    \/ /\ stopped = "no" /\ ~pending /\ m.t.pose = "unusable"
       /\ unusable' = unusable + 1
       /\ UNCHANGED <<tables, clocks, stats, stopped, refused, arena, rejected, history>>
    \/ /\ stopped = "no" /\ ~pending /\ m.t.pose # "unusable"
       /\ Offer(Who[s], m)
       /\ UNCHANGED <<refused, unusable>>

Deliver(s) ==
    /\ flight[s] # <<>>
    /\ flight' = [flight EXCEPT ![s] = Tail(@)]
    /\ Ingest(s, Head(flight[s]))
    /\ pending' = FALSE
    /\ UNCHANGED world

\* Fault: the mailbox is emptied only where messages are received.
DrainOnReceipt ==
    /\ pending /\ \E s \in Senders : flight[s] # <<>>
    /\ pending' = FALSE
    /\ IF stopped = "no"
       THEN NoteTimeJump /\ UNCHANGED refused
       ELSE UNCHANGED <<tables, clocks, stats, seam, history>>
    /\ UNCHANGED <<world, flight>>

\* The ingest loop empties the mailbox even when nothing is received.
DrainTimeJump ==
    /\ pending
    /\ pending' = FALSE
    /\ IF stopped = "no"
       THEN NoteTimeJump /\ UNCHANGED refused
       ELSE UNCHANGED <<tables, clocks, stats, seam, history>>
    /\ UNCHANGED <<world, flight>>

\* The startup timer, on the ingest thread.
CloseStartupWindow ==
    /\ open /\ stopped = "no"
    /\ open' = FALSE
    /\ stopped' = IF CloseHalts THEN "halt" ELSE stopped
    /\ UNCHANGED <<world, flight, pending, owners, known, reported, intruded, clocks,
                   stats, refused, unusable, arena, rejected, history>>

Next ==
    \/ \E s \in Senders : Publish(s) \/ Deliver(s)
    \/ Tick \/ Jump
    \/ DrainTimeJump
    \/ CloseStartupWindow

Spec == Init /\ [][Next]_vars

\* The loop spins at most 50 ms before it looks at the mailbox; nothing obliges
\* anyone to publish, the clock to jump or the timer to fire first.
FairSpec == Spec /\ WF_vars(DrainTimeJump)
-----------------------------------------------------------------------------
(***************************************************************************)
(* Properties.                                                             *)
(***************************************************************************)

\* The ledger: every transform the pipeline counted is in exactly one bucket,
\* whatever stopped the bridge or closed its window (BridgeStats::balanced).
Balanced ==
    stats["transforms"] = stats["applied"] + stats["static_verified"]
        + stats["dropped_authority"] + stats["dropped_non_monotonic"]
        + stats["dropped_bad_name"] + stats["dropped_kind_change"]
        + stats["dropped_undeclared"]

\* The edge's guard approves no sample that the edge's ring refuses: the marks
\* are forgotten only by a bridge that writes no more (fill).
NeverRejected == rejected = 0

\* An attributed publisher's offsets span no more than the threshold, the longest
\* that a message waits for the ingest thread included.
Punctual ==
    \A s \in Senders : Who[s] # Unattributed =>
        \E lo \in Lead[s] : \A l \in Lead[s] : lo <= l /\ l + Delay <= lo + Threshold

\* "Two publishers moved by the same amount inside the window are the clock"
\* (clock.rs:529): the offset rung concludes that the clock moved only if it did.
\* Not so when the ingest thread stalls for longer than the threshold: each of
\* the waiting messages then shows the same step.
CommonModeIsClock == promoted => jumps > 0

\* As long as waits and leads stay within the threshold, a source whose clock
\* never jumped is not suspected: in whatever order messages are delivered, and
\* however many publishers share the unattributed identity, whose leads are not
\* bounded (OffsetTable::observe).
ClockTrusted == Punctual => CommonModeIsClock

\* A jump that two attributed publishers were seen to cross within the window
\* stops the bridge, reported or not, forward or backward (OffsetTable::observe,
\* tolerance).
JumpNoticed ==
    \A p, q \in Publishers \ {Unattributed} :
        (/\ p # q
         /\ witness[p] # None /\ witness[q] # None
         /\ Abs(witness[p] - witness[q]) <= Window) => stopped # "no"

\* A Strict bridge that recorded a conflict in its startup window does not run
\* once the window is closed, by the timer or by the transform count, unless
\* more publishers conflicted than the interner holds (Ingest::offer and
\* close_startup_window).
StrictStops ==
    (/\ mode.policy = "Strict" /\ early /\ ~open
     /\ ~ConflictsPanic) => stopped # "no"

\* Nothing is written behind a reported jump: a message whose handler begins
\* while a jump waits in the mailbox changes nothing in the arena
\* (bridge_handle.cpp, ingest: drain_time_jump before offer_one).
NothingBehindJump == [][pending => UNCHANGED arena]_vars

\* A reported jump stops the bridge, even when no message ever follows it
\* (bridge_handle.cpp, run: drain_time_jump in every turn of the loop).
ReportApplied == pending ~> stopped # "no"

=============================================================================

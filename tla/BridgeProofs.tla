----------------------------- MODULE BridgeProofs -----------------------------
(***************************************************************************)
(* Proofs about Bridge, for any senders, edges and configurations.         *)
(***************************************************************************)
EXTENDS Bridge, TLAPS

-------------------------------------------------------------------------------
(* The inductive invariant of the pipeline. *)

\* The configuration never changes, and the counters are counters.
Config == mode \in Modes
Ledger == /\ stats \in [Buckets \cup {"transforms", "clock_resets"} -> Nat]
          /\ Balanced

\* While the bridge runs, the guard's mark of an edge is the newest stamp of
\* the edge's ring: only a reset forgets the one and keeps the other.
Mirrored == /\ stopped = "no" => newest = arena
            /\ rejected = 0

\* What made early true is still on record.
OnRecord == early => reported # {} \/ intruded # {}

\* What every reachable state satisfies, and every step keeps.
IInv == Config /\ Ledger /\ Mirrored /\ OnRecord /\ StrictStops

-------------------------------------------------------------------------------
(* The ledger. *)

LEMMA ChargeKeepsLedger ==
    ASSUME Ledger, NEW b \in Buckets, Charge(b)
    PROVE  Ledger'
  BY DEF Ledger, Balanced, Charge, Buckets

\* A jump that is reported charges no transform.
LEMMA JumpKeepsLedger == Ledger /\ NoteTimeJump => Ledger'
  BY DEF Ledger, Balanced, NoteTimeJump, Buckets

\* The sample that completes a common step is charged to one bucket.
LEMMA RungsKeepLedger ==
    ASSUME Ledger, NEW p, NEW m, ClockRungs(p, m)
    PROVE  Ledger'
  <1>1. \/ \E b \in Buckets : Charge(b)
        \/ stats' = [stats EXCEPT !["transforms"] = @ + 1, !["clock_resets"] = @ + 1,
                                  !["dropped_non_monotonic"] = @ + 1]
    BY DEF ClockRungs, Apply, Buckets
  <1>2. ASSUME stats' = [stats EXCEPT !["transforms"] = @ + 1, !["clock_resets"] = @ + 1,
                                      !["dropped_non_monotonic"] = @ + 1]
        PROVE  Ledger'
    BY <1>2 DEF Ledger, Balanced, Buckets
  <1> QED
    BY <1>1, <1>2, ChargeKeepsLedger

LEMMA OfferKeepsLedger ==
    ASSUME Ledger, NEW p, NEW m, Offer(p, m)
    PROVE  Ledger'
  <1>1. CASE UNCHANGED stats
    BY <1>1 DEF Ledger, Balanced
  <1>2. ASSUME Classify(p, m) PROVE Ledger'
    <2>1. (\E b \in Buckets : Charge(b)) \/ ClockRungs(p, m)
      BY <1>2 DEF Classify, Settled, Buckets
    <2> QED
      BY <2>1, ChargeKeepsLedger, RungsKeepLedger
  <1> QED
    BY <1>1, <1>2 DEF Offer

LEMMA StepLedger == Ledger /\ [Next]_vars => Ledger'
  <1> SUFFICES ASSUME Ledger, [Next]_vars PROVE Ledger'
    OBVIOUS
  <1>1. CASE UNCHANGED stats
    BY <1>1 DEF Ledger, Balanced
  <1>2. ASSUME NEW s \in Senders, Deliver(s) PROVE Ledger'
    <2>1. UNCHANGED stats \/ NoteTimeJump \/ Offer(Who[s], Head(flight[s]))
      BY <1>2 DEF Deliver, Ingest
    <2> QED
      BY <2>1, <1>1, JumpKeepsLedger, OfferKeepsLedger
  <1>3. ASSUME DrainTimeJump PROVE Ledger'
    BY <1>1, <1>3, JumpKeepsLedger DEF DrainTimeJump
  <1>4. ASSUME NEW s \in Senders, Publish(s) PROVE UNCHANGED stats
    BY <1>4 DEF Publish
  <1>5. ASSUME Tick \/ Jump \/ CloseStartupWindow \/ UNCHANGED vars PROVE UNCHANGED stats
    BY <1>5 DEF Tick, Jump, CloseStartupWindow, vars
  <1> QED
    BY <1>1, <1>2, <1>3, <1>4, <1>5 DEF Next

-------------------------------------------------------------------------------
(* The guard and the ring. *)

\* A reset stops the bridge.
LEMMA ResetStops ==
    ASSUME Config, NEW r, ApplyClockReset(r)
    PROVE  stopped' # "no"
  BY TrafficAssumption DEF Config, ApplyClockReset

LEMMA ApplyMirrors ==
    ASSUME newest = arena, rejected = 0, NEW e, NEW stamp, Forward(e, stamp), Apply(e, stamp)
    PROVE  newest' = arena' /\ rejected' = 0
  BY DEF Forward, Apply

LEMMA RungsMirror ==
    ASSUME Config, Mirrored, stopped = "no", NEW p, NEW m, ClockRungs(p, m)
    PROVE  Mirrored'
  <1>1. CASE CommonMode(p, m.stamp)
    <2>1. \E r : ApplyClockReset(r)
      BY <1>1 DEF ClockRungs
    <2>2. UNCHANGED rejected
      BY <1>1 DEF ClockRungs
    <2> QED
      BY <2>1, <2>2, ResetStops DEF Mirrored
  <1>2. CASE ~CommonMode(p, m.stamp) /\ Forward(m.t.edge, m.stamp)
    <2>1. Apply(m.t.edge, m.stamp)
      BY <1>2 DEF ClockRungs
    <2> QED
      BY <1>2, <2>1, ApplyMirrors DEF Mirrored
  <1>3. CASE ~CommonMode(p, m.stamp) /\ ~Forward(m.t.edge, m.stamp)
    BY <1>3 DEF ClockRungs, Mirrored
  <1> QED
    BY <1>1, <1>2, <1>3

LEMMA OfferMirrors ==
    ASSUME Config, Mirrored, stopped = "no", NEW p, NEW m, Offer(p, m)
    PROVE  Mirrored'
  <1>1. CASE UNCHANGED <<newest, arena, rejected>>
    BY <1>1 DEF Mirrored
  <1>2. ASSUME Classify(p, m) PROVE Mirrored'
    <2>1. UNCHANGED <<newest, arena, rejected>> \/ ClockRungs(p, m)
      BY <1>2 DEF Classify, Settled, clocks
    <2> QED
      BY <2>1, <1>1, RungsMirror
  <1> QED
    BY <1>1, <1>2 DEF Offer, clocks

LEMMA JumpMirrors == Config /\ Mirrored /\ NoteTimeJump => Mirrored'
  BY ResetStops DEF Mirrored, NoteTimeJump

\* A bridge that was stopped stays stopped.
LEMMA StaysStopped == stopped # "no" /\ [Next]_vars => UNCHANGED stopped
  <1> SUFFICES ASSUME stopped # "no", [Next]_vars PROVE UNCHANGED stopped
    OBVIOUS
  <1>1. ASSUME NEW s \in Senders, Deliver(s) PROVE UNCHANGED stopped
    BY <1>1 DEF Deliver, Ingest
  <1>2. ASSUME NEW s \in Senders, Publish(s) PROVE UNCHANGED stopped
    BY <1>2 DEF Publish, seam
  <1>3. ASSUME Tick \/ Jump \/ DrainTimeJump \/ CloseStartupWindow \/ UNCHANGED vars
        PROVE  UNCHANGED stopped
    BY <1>3 DEF Tick, Jump, DrainTimeJump, CloseStartupWindow, vars, seam
  <1> QED
    BY <1>1, <1>2, <1>3 DEF Next

LEMMA StepMirrored == Config /\ Mirrored /\ [Next]_vars => Mirrored'
  <1> SUFFICES ASSUME Config, Mirrored, [Next]_vars PROVE Mirrored'
    OBVIOUS
  <1>1. CASE (stopped = "no" \/ UNCHANGED stopped) /\ UNCHANGED <<newest, arena, rejected>>
    BY <1>1 DEF Mirrored
  <1>2. ASSUME NEW s \in Senders, Deliver(s) PROVE Mirrored'
    <2>1. CASE stopped # "no"
      BY <1>2, <2>1 DEF Deliver, Ingest, clocks, Mirrored
    <2>2. CASE stopped = "no"
      <3>1. \/ UNCHANGED <<newest, arena, rejected>>
            \/ NoteTimeJump \/ Offer(Who[s], Head(flight[s]))
        BY <1>2, <2>2 DEF Deliver, Ingest, clocks
      <3> QED
        BY <2>2, <3>1, <1>1, JumpMirrors, OfferMirrors
    <2> QED
      BY <2>1, <2>2
  <1>3. ASSUME DrainTimeJump PROVE Mirrored'
    BY <1>3, JumpMirrors DEF DrainTimeJump, seam, clocks, Mirrored
  <1>4. ASSUME CloseStartupWindow PROVE Mirrored'
    BY <1>1, <1>4 DEF CloseStartupWindow, clocks
  <1>5. ASSUME NEW s \in Senders, Publish(s) PROVE UNCHANGED <<newest, arena, rejected, stopped>>
    BY <1>5 DEF Publish, clocks, seam
  <1>6. ASSUME Tick \/ Jump \/ UNCHANGED vars PROVE UNCHANGED <<newest, arena, rejected, stopped>>
    BY <1>6 DEF Tick, Jump, vars, clocks, seam
  <1> QED
    BY <1>1, <1>2, <1>3, <1>4, <1>5, <1>6 DEF Next

-------------------------------------------------------------------------------
(* The startup window. *)

\* Conflicts stay on record, and one that cannot be looked up stays so.
LEMMA RecordGrows ==
    ASSUME NEW p, NEW m, Classify(p, m)
    PROVE  reported \subseteq reported' /\ intruded \subseteq intruded'
  BY DEF Classify, RecordConflict

\* A conflict is put on record by the step that makes early true, and only
\* while the window is open.
LEMMA EarlyRecords ==
    ASSUME NEW p, NEW m, Classify(p, m), early', ~early
    PROVE  open' /\ (reported' # {} \/ intruded' # {})
  <1>1. early' = (early \/ open') /\ (reported' # {} \/ intruded' # {})
    BY DEF Classify, RecordConflict, ClockRungs, Settled
  <1> QED
    BY <1>1

LEMMA PanicStays ==
    ASSUME reported \subseteq reported'
    PROVE  ConflictsPanic => ConflictsPanic'
  BY DEF ConflictsPanic

\* What closing the window, whoever closes it, makes of the bridge.
LEMMA CloseStops ==
    ASSUME OnRecord, StrictStops, stopped' = (IF CloseHalts THEN "halt" ELSE stopped),
           UNCHANGED <<mode, reported, intruded, early>>
    PROVE  StrictStops'
  BY DEF OnRecord, StrictStops, CloseHalts, ConflictsPanic

LEMMA StepWindow == Config /\ OnRecord /\ StrictStops /\ [Next]_vars => OnRecord' /\ StrictStops'
  <1> SUFFICES ASSUME Config, OnRecord, StrictStops, [Next]_vars PROVE OnRecord' /\ StrictStops'
    OBVIOUS
  <1>0. UNCHANGED mode
    <2>1. ASSUME NEW s \in Senders, Deliver(s) \/ Publish(s) PROVE UNCHANGED mode
      BY <2>1 DEF Deliver, Publish, world
    <2> QED
      BY <2>1 DEF Next, Tick, Jump, DrainTimeJump, CloseStartupWindow, vars, world
  <1>1. ASSUME UNCHANGED <<open, reported, intruded, early>>, stopped # "no" => stopped' # "no"
        PROVE  OnRecord' /\ StrictStops'
    BY <1>0, <1>1 DEF OnRecord, StrictStops, ConflictsPanic
  <1>2. stopped # "no" => stopped' # "no"
    BY StaysStopped
  <1>3. ASSUME NEW p, NEW m, Offer(p, m), stopped = "no" PROVE OnRecord' /\ StrictStops'
    <2> DEFINE Backstop == open /\ stats["transforms"] >= STARTUP_WINDOW_TRANSFORMS
    <2>1. CASE Backstop /\ (CloseHalts \/ ClosePanics)
      <3>1. /\ stopped' = (IF CloseHalts THEN "halt" ELSE stopped)
            /\ UNCHANGED <<reported, intruded, early>>
        BY <1>3, <2>1 DEF Offer, history
      <3> QED
        BY <1>0, <3>1, CloseStops DEF OnRecord
    <2>2. CASE ~(Backstop /\ (CloseHalts \/ ClosePanics))
      <3>1. Classify(p, m) /\ open' = (open /\ ~Backstop)
        BY <1>3, <2>2 DEF Offer
      <3>2. reported \subseteq reported' /\ intruded \subseteq intruded'
        BY <3>1, RecordGrows
      <3>3. OnRecord'
        BY <3>1, <3>2, EarlyRecords DEF OnRecord
      <3>4. CASE open'
        BY <3>3, <3>4 DEF StrictStops
      <3>5. CASE open /\ ~open'
        <4>1. mode.policy = "Strict" => reported = {} /\ intruded = {}
          BY <2>2, <3>1, <3>5 DEF CloseHalts, ClosePanics
        <4>2. early' => early
          BY <3>1, <3>5, EarlyRecords
        <4> QED
          BY <1>0, <3>3, <4>1, <4>2 DEF OnRecord, StrictStops
      <3>6. CASE ~open /\ ~open'
        <4>1. ~ConflictsPanic' => ~ConflictsPanic
          BY <3>2, PanicStays
        <4>2. early' => early
          BY <3>1, <3>6, EarlyRecords
        <4> QED
          BY <1>0, <1>2, <3>3, <3>6, <4>1, <4>2 DEF StrictStops
      <3> QED
        BY <3>4, <3>5, <3>6
    <2> QED
      BY <2>1, <2>2
  <1>4. ASSUME NEW s \in Senders, Deliver(s) PROVE OnRecord' /\ StrictStops'
    <2>1. \/ UNCHANGED <<open, reported, intruded, early>>
          \/ stopped = "no" /\ Offer(Who[s], Head(flight[s]))
      BY <1>4 DEF Deliver, Ingest, NoteTimeJump, tables, history
    <2> QED
      BY <1>1, <1>2, <1>3, <2>1
  <1>5. ASSUME CloseStartupWindow PROVE OnRecord' /\ StrictStops'
    <2>1. /\ stopped' = (IF CloseHalts THEN "halt" ELSE stopped)
          /\ UNCHANGED <<reported, intruded, early>>
      BY <1>5 DEF CloseStartupWindow, history
    <2> QED
      BY <1>0, <2>1, CloseStops DEF OnRecord
  <1>6. ASSUME NEW s \in Senders, Publish(s) PROVE UNCHANGED <<open, reported, intruded, early>>
    BY <1>6 DEF Publish, tables, history
  <1>7. ASSUME Tick \/ Jump \/ DrainTimeJump \/ UNCHANGED vars
        PROVE  UNCHANGED <<open, reported, intruded, early>>
    BY <1>7 DEF Tick, Jump, DrainTimeJump, NoteTimeJump, vars, tables, history
  <1> QED
    BY <1>1, <1>2, <1>4, <1>5, <1>6, <1>7 DEF Next

-------------------------------------------------------------------------------
(* The invariant and what follows from it. *)

LEMMA InitIInv == Init => IInv
  <1> SUFFICES ASSUME Init PROVE IInv
    OBVIOUS
  <1>1. Config /\ Mirrored /\ OnRecord /\ StrictStops
    BY DEF Init, Config, Mirrored, OnRecord, StrictStops
  <1>2. Ledger
    BY DEF Init, Ledger, Balanced, Buckets
  <1> QED
    BY <1>1, <1>2 DEF IInv

LEMMA StepConfig == Config /\ [Next]_vars => Config'
  <1>1. ASSUME NEW s \in Senders, Deliver(s) \/ Publish(s) PROVE UNCHANGED mode
    BY <1>1 DEF Deliver, Publish, world
  <1>2. ASSUME Tick \/ Jump \/ DrainTimeJump \/ CloseStartupWindow \/ UNCHANGED vars
        PROVE  UNCHANGED mode
    BY <1>2 DEF Tick, Jump, DrainTimeJump, CloseStartupWindow, vars, world
  <1> QED
    BY <1>1, <1>2 DEF Next, Config

LEMMA StepIInv == IInv /\ [Next]_vars => IInv'
  BY StepConfig, StepLedger, StepMirrored, StepWindow DEF IInv

\* Every reachable state of the pipeline satisfies the inductive invariant:
\* ledger, mirrored marks and the records behind a Strict stop (ingest.rs).
THEOREM InvariantHolds == Spec => []IInv
  BY InitIInv, StepIInv, PTL DEF Spec

\* The ledger balances whatever is published, delivered, reported or closed, in
\* whatever order (ingest.rs, BridgeStats::balanced).
THEOREM BalancedHolds == Spec => []Balanced
  <1>1. IInv => Balanced
    BY DEF IInv, Ledger
  <1> QED
    BY <1>1, InvariantHolds, PTL

\* The arena never refuses a sample the pipeline approved, for any thresholds
\* and any clock jumps (ingest.rs, offer; tf_tree_c bridge.rs, the push).
THEOREM NeverRejectedHolds == Spec => []NeverRejected
  <1>1. IInv => NeverRejected
    BY DEF IInv, Mirrored, NeverRejected
  <1> QED
    BY <1>1, InvariantHolds, PTL

\* A Strict bridge with a conflict from its startup window does not run once the
\* window is closed (ingest.rs, close_startup_window and the backstop of offer).
THEOREM StrictStopsHolds == Spec => []StrictStops
  BY InvariantHolds, PTL DEF IInv

\* No step that begins while a reported jump waits writes the arena
\* (bridge_handle.cpp, ingest: drain_time_jump before offer_one).
THEOREM NothingBehindJumpHolds == Spec => NothingBehindJump
  <1>1. [Next]_vars => [pending => UNCHANGED arena]_vars
    <2> SUFFICES ASSUME Next, pending PROVE UNCHANGED arena
      OBVIOUS
    <2>1. ASSUME NEW s \in Senders, Deliver(s) PROVE UNCHANGED arena
      BY <2>1 DEF Deliver, Ingest, NoteTimeJump
    <2>2. ASSUME NEW s \in Senders, Publish(s) PROVE UNCHANGED arena
      BY <2>2 DEF Publish, seam
    <2>3. ASSUME Tick \/ Jump \/ DrainTimeJump \/ CloseStartupWindow PROVE UNCHANGED arena
      BY <2>3 DEF Tick, Jump, DrainTimeJump, NoteTimeJump, CloseStartupWindow, seam
    <2> QED
      BY <2>1, <2>2, <2>3 DEF Next
  <1> QED
    BY <1>1, PTL DEF Spec, NothingBehindJump

-------------------------------------------------------------------------------
(***************************************************************************)
(* The offset rung.  What it concludes depends on how the publishers keep  *)
(* time, which the theorems below take as their hypotheses.                *)
(***************************************************************************)

\* An attributed publisher stamps at a steady distance from its clock: with
\* the time a message waits, its offsets span at most W.
Paced(W) ==
    /\ W \in Nat /\ W <= Threshold
    /\ \A s \in Senders : Who[s] # Unattributed =>
          \E lo \in Int : \A l \in Lead[s] : lo <= l /\ l <= lo + (W - Delay)

\* The least lead of a paced publisher, or less.
Least(W, s) == CHOOSE lo \in Int : \A l \in Lead[s] : lo <= l /\ l <= lo + (W - Delay)

\* The types of what the rung reads.
Message == [t : Transforms, stamp : Int, sent : Int, epoch : Nat]
Row     == [seen : BOOLEAN, baseline : Int, stepped : BOOLEAN, at : Int, delta : Int]
RungTypes ==
    /\ now \in Int /\ shift \in Int /\ jumps \in Nat
    /\ flight \in [Senders -> Seq(Message)]
    /\ rows \in [Publishers -> Row]

\* How far the source's clock had moved in an epoch, if it moved once at most.
Moved(k) == IF k = 0 THEN 0 ELSE shift

\* What a message that waits says: it has not waited too long, it was stamped by
\* the clock of its epoch, and nothing before it is of a later epoch.
WellSent(s, m) ==
    /\ 0 <= now - m.sent /\ now - m.sent <= Delay
    /\ m.epoch <= jumps
    /\ jumps <= 1 => m.stamp - m.sent - Moved(m.epoch) \in Lead[s]
OnTime ==
    /\ jumps = 0 => shift = 0
    /\ jumps = 1 => shift \in mode.jumps
    /\ \A s \in Senders : \A i \in 1 .. Len(flight[s]) :
          /\ WellSent(s, flight[s][i])
          /\ \A j \in 1 .. i : flight[s][j].epoch <= flight[s][i].epoch

\* A truncated eighth lies between zero and the whole.
LEMMA EighthBetween ==
    ASSUME NEW x \in Int
    PROVE  /\ Eighth(x) \in Int
           /\ x >= 0 => 0 <= Eighth(x) /\ Eighth(x) <= x
           /\ x <= 0 => x <= Eighth(x) /\ Eighth(x) <= 0
  BY DEF Eighth

LEMMA PublishEffect ==
    ASSUME RungTypes, Config, NEW s \in Senders, Publish(s)
    PROVE  /\ UNCHANGED <<now, shift, jumps, rows, mode, promoted, heard, witness, stopped>>
           /\ \E m \in Message :
                 /\ flight' = [flight EXCEPT ![s] = Append(@, m)]
                 /\ m.sent = now /\ m.epoch = jumps /\ m.stamp - now - shift \in Lead[s]
  <1>1. UNCHANGED <<now, shift, jumps, rows, mode, promoted, heard, witness, stopped>>
    BY DEF Publish, clocks, history, seam
  <1>2. PICK t \in mode.traffic[s], lead \in Lead[s] :
          flight' = [flight EXCEPT ![s] =
             Append(@, [t |-> t, stamp |-> now + shift + lead, sent |-> now, epoch |-> jumps])]
    BY DEF Publish
  <1>3. t \in Transforms /\ lead \in Int
    BY TrafficAssumption, SenderAssumption DEF Config
  <1> DEFINE m == [t |-> t, stamp |-> now + shift + lead, sent |-> now, epoch |-> jumps]
  <1>4. m \in Message /\ m.sent = now /\ m.epoch = jumps /\ m.stamp - now - shift = lead
    BY <1>3 DEF RungTypes, Message
  <1> QED
    BY <1>1, <1>2, <1>4

LEMMA RowType ==
    ASSUME RungTypes, Config, NEW p \in Publishers, NEW stamp \in Int
    PROVE  RowAfter(p, stamp) \in Row /\ Received \in Int /\ NoRow \in Row
  <1>1. Received \in Int
    BY DEF RungTypes, Received, UNKNOWN
  <1>2. rows[p] \in Row
    BY DEF RungTypes
  <1>3. Residual(p, stamp) \in Int
    BY <1>1, <1>2 DEF Residual, Row
  <1>4. Eighth(Residual(p, stamp)) \in Int
    BY <1>3, EighthBetween
  <1>5. NoRow \in Row
    BY DEF NoRow, Row
  <1>6. [seen |-> TRUE, baseline |-> stamp - Received, stepped |-> FALSE, at |-> 0,
         delta |-> 0] \in Row
    BY <1>1 DEF Row
  <1>7. [rows[p] EXCEPT !.baseline = @ + Eighth(Residual(p, stamp))] \in Row
    BY <1>2, <1>4 DEF Row
  <1>8. [seen |-> TRUE, baseline |-> stamp - Received, stepped |-> TRUE, at |-> Received,
         delta |-> Residual(p, stamp)] \in Row
    BY <1>1, <1>3 DEF Row
  <1> QED
    BY <1>1, <1>5, <1>6, <1>7, <1>8 DEF RowAfter

\* A reset leaves the rows as the sample left them, or forgets them all.
Forgotten == [p \in Publishers |-> NoRow]
RowsAfter(p, stamp) == IF Heeded(p) THEN [rows EXCEPT ![p] = RowAfter(p, stamp)] ELSE rows

LEMMA RungsEffect ==
    ASSUME Config, NEW p, NEW m, ClockRungs(p, m)
    PROVE  /\ rows' = RowsAfter(p, m.stamp) \/ (rows' = Forgotten /\ stopped' # "no")
           /\ CommonMode(p, m.stamp) => stopped' # "no"
           /\ promoted' => promoted \/ CommonMode(p, m.stamp)
           /\ heard' = IF Heeded(p) THEN [heard EXCEPT ![p] = m.epoch] ELSE heard
           /\ witness' = IF Heeded(p) /\ rows[p].seen /\ heard[p] # m.epoch
                         THEN [witness EXCEPT ![p] = Received] ELSE witness
  <1>1. CASE CommonMode(p, m.stamp)
    <2>1. ApplyClockReset(RowsAfter(p, m.stamp))
      BY <1>1 DEF ClockRungs, RowsAfter
    <2>2. stopped' # "no"
      BY <2>1, ResetStops
    <2>3. rows' = RowsAfter(p, m.stamp) \/ rows' = Forgotten
      BY <2>1 DEF ApplyClockReset, Forgotten
    <2> QED
      BY <1>1, <2>2, <2>3 DEF ClockRungs
  <1>2. CASE ~CommonMode(p, m.stamp)
    BY <1>2 DEF ClockRungs, RowsAfter
  <1> QED
    BY <1>1, <1>2

LEMMA DeliverEffect ==
    ASSUME Config, NEW s \in Senders, Deliver(s)
    PROVE  /\ flight[s] # <<>> /\ flight' = [flight EXCEPT ![s] = Tail(@)]
           /\ UNCHANGED <<now, shift, jumps, mode>>
           /\ \/ UNCHANGED <<rows, heard, witness, promoted>>
              \/ /\ UNCHANGED <<heard, witness, promoted>>
                 /\ stopped' # "no" /\ rows' = Forgotten
              \/ stopped = "no" /\ ClockRungs(Who[s], Head(flight[s]))
  <1>1. /\ flight[s] # <<>> /\ flight' = [flight EXCEPT ![s] = Tail(@)]
        /\ UNCHANGED <<now, shift, jumps, mode>> /\ Ingest(s, Head(flight[s]))
    BY DEF Deliver, world
  <1>2. CASE stopped # "no"
    BY <1>1, <1>2 DEF Ingest, clocks, history
  <1>3. CASE stopped = "no" /\ pending
    <2>1. NoteTimeJump
      BY <1>1, <1>3 DEF Ingest
    <2>2. UNCHANGED <<heard, witness, promoted>> /\ ApplyClockReset(rows)
      BY <2>1 DEF NoteTimeJump, history
    <2>3. UNCHANGED rows \/ rows' = Forgotten
      BY <2>2 DEF ApplyClockReset, Forgotten
    <2> QED
      BY <1>1, <2>2, <2>3, ResetStops
  <1>4. CASE stopped = "no" /\ ~pending
    <2>1. UNCHANGED <<clocks, history>> \/ Offer(Who[s], Head(flight[s]))
      BY <1>1, <1>4 DEF Ingest
    <2>2. ASSUME Offer(Who[s], Head(flight[s]))
          PROVE  UNCHANGED <<clocks, history>> \/ Classify(Who[s], Head(flight[s]))
      BY <2>2 DEF Offer
    <2>3. ASSUME Classify(Who[s], Head(flight[s]))
          PROVE  \/ UNCHANGED <<rows, heard, witness, promoted>>
                 \/ ClockRungs(Who[s], Head(flight[s]))
      BY <2>3 DEF Classify, Settled, clocks
    <2> QED
      BY <1>1, <1>4, <2>1, <2>2, <2>3 DEF clocks, history
  <1> QED
    BY <1>2, <1>3, <1>4

\* Steps in which the rung has no part.
LEMMA OtherEffect ==
    ASSUME Config, Tick \/ Jump \/ DrainTimeJump \/ CloseStartupWindow \/ UNCHANGED vars
    PROVE  /\ UNCHANGED <<flight, heard, witness, promoted, mode>>
           /\ rows' = rows \/ (rows' = Forgotten /\ stopped' # "no")
           /\ \/ UNCHANGED <<now, shift, jumps>>
              \/ Tick /\ UNCHANGED <<shift, jumps, stopped>>
              \/ Jump /\ UNCHANGED <<now, stopped>>
  <1>1. CASE Tick \/ Jump \/ CloseStartupWindow \/ UNCHANGED vars
    BY <1>1 DEF Tick, Jump, CloseStartupWindow, vars, world, clocks, history, seam
  <1>2. CASE DrainTimeJump
    <2>1. UNCHANGED <<flight, now, shift, jumps, mode, heard, witness, promoted>>
      BY <1>2 DEF DrainTimeJump, world, history, NoteTimeJump
    <2>2. UNCHANGED rows \/ NoteTimeJump
      BY <1>2 DEF DrainTimeJump, clocks
    <2>3. ASSUME NoteTimeJump PROVE UNCHANGED rows \/ (rows' = Forgotten /\ stopped' # "no")
      <3>1. ApplyClockReset(rows)
        BY <2>3 DEF NoteTimeJump
      <3>2. UNCHANGED rows \/ rows' = Forgotten
        BY <3>1 DEF ApplyClockReset, Forgotten
      <3> QED
        BY <3>1, <3>2, ResetStops
    <2> QED
      BY <2>1, <2>2, <2>3
  <1> QED
    BY <1>1, <1>2

LEMMA StepRungTypes == Config /\ RungTypes /\ [Next]_vars => RungTypes'
  <1> SUFFICES ASSUME Config, RungTypes, [Next]_vars PROVE RungTypes'
    OBVIOUS
  <1>0. Forgotten \in [Publishers -> Row]
    BY DEF Forgotten, NoRow, Row
  <1>1. ASSUME NEW s \in Senders, Publish(s) PROVE RungTypes'
    <2>1. PICK m \in Message : flight' = [flight EXCEPT ![s] = Append(@, m)]
      BY <1>1, PublishEffect
    <2>2. flight' \in [Senders -> Seq(Message)]
      BY <2>1 DEF RungTypes
    <2>3. UNCHANGED <<now, shift, jumps, rows>>
      BY <1>1, PublishEffect
    <2> QED
      BY <2>2, <2>3 DEF RungTypes
  <1>2. ASSUME NEW s \in Senders, Deliver(s) PROVE RungTypes'
    <2>1. flight[s] # <<>> /\ flight' = [flight EXCEPT ![s] = Tail(@)]
      BY <1>2, DeliverEffect
    <2>2. flight' \in [Senders -> Seq(Message)]
      BY <2>1 DEF RungTypes
    <2>3. UNCHANGED <<now, shift, jumps>>
      BY <1>2, DeliverEffect
    <2>4. Head(flight[s]) \in Message
      BY <2>1 DEF RungTypes
    <2>5. ASSUME ClockRungs(Who[s], Head(flight[s])) PROVE rows' \in [Publishers -> Row]
      <3>1. rows' = RowsAfter(Who[s], Head(flight[s]).stamp) \/ rows' = Forgotten
        BY <2>5, RungsEffect
      <3>2. Head(flight[s]).stamp \in Int /\ Who[s] \in Publishers
        BY <2>4 DEF Message, Publishers
      <3>3. RowAfter(Who[s], Head(flight[s]).stamp) \in Row
        BY <3>2, RowType
      <3> QED
        BY <1>0, <3>1, <3>3 DEF RowsAfter, RungTypes
    <2>6. rows' \in [Publishers -> Row]
      BY <1>0, <1>2, <2>5, DeliverEffect DEF RungTypes
    <2> QED
      BY <2>2, <2>3, <2>6 DEF RungTypes
  <1>3. ASSUME Tick \/ Jump \/ DrainTimeJump \/ CloseStartupWindow \/ UNCHANGED vars
        PROVE  RungTypes'
    <2>1. UNCHANGED flight /\ rows' \in [Publishers -> Row]
      BY <1>0, <1>3, OtherEffect DEF RungTypes
    <2>2. now' \in Int /\ shift' \in Int /\ jumps' \in Nat
      <3>1. CASE UNCHANGED <<now, shift, jumps>>
        BY <3>1 DEF RungTypes
      <3>2. CASE Tick
        BY <3>2, ClockAssumption DEF Tick, RungTypes
      <3>3. CASE Jump
        BY <3>3, TrafficAssumption DEF Jump, RungTypes, Config
      <3> QED
        BY <1>3, <3>1, <3>2, <3>3, OtherEffect
    <2> QED
      BY <2>1, <2>2 DEF RungTypes
  <1> QED
    BY <1>1, <1>2, <1>3 DEF Next

\* The messages that wait, after one was appended or the first was taken.
LEMMA Appended ==
    ASSUME NEW q \in Seq(Message), NEW m \in Message
    PROVE  /\ Len(Append(q, m)) = Len(q) + 1
           /\ \A i \in 1 .. Len(q) : Append(q, m)[i] = q[i]
           /\ Append(q, m)[Len(q) + 1] = m
  OBVIOUS

LEMMA Taken ==
    ASSUME NEW q \in Seq(Message), q # <<>>
    PROVE  /\ Len(Tail(q)) = Len(q) - 1 /\ Len(q) >= 1
           /\ Head(q) = q[1] /\ Head(q) \in Message
           /\ \A i \in 1 .. Len(q) - 1 : Tail(q)[i] = q[i + 1]
  OBVIOUS

LEMMA WaitingType ==
    ASSUME RungTypes, NEW s \in Senders, NEW i \in 1 .. Len(flight[s])
    PROVE  /\ flight[s][i] \in Message
           /\ flight[s][i].stamp \in Int /\ flight[s][i].sent \in Int
           /\ flight[s][i].epoch \in Nat
  <1>1. flight[s] \in Seq(Message)
    BY DEF RungTypes
  <1>2. flight[s][i] \in Message
    BY <1>1
  <1> QED
    BY <1>2 DEF Message

\* What one sender's queue says.
Queued(s) ==
    \A i \in 1 .. Len(flight[s]) :
        /\ WellSent(s, flight[s][i])
        /\ \A j \in 1 .. i : flight[s][j].epoch <= flight[s][i].epoch

LEMMA QueueAppended ==
    ASSUME RungTypes, OnTime, NEW s \in Senders, NEW m \in Message,
           UNCHANGED <<now, shift, jumps>>, flight'[s] = Append(flight[s], m),
           WellSent(s, m), m.epoch = jumps
    PROVE  Queued(s)'
  <1>0. flight[s] \in Seq(Message) /\ Len(flight[s]) \in Nat /\ jumps \in Nat
    BY DEF RungTypes
  <1>1. SUFFICES ASSUME NEW i \in 1 .. Len(flight'[s]), NEW j \in 1 .. i
                 PROVE  /\ WellSent(s, flight[s][i])'
                        /\ flight'[s][j].epoch <= flight'[s][i].epoch
    <2>1. \A i \in 1 .. Len(flight'[s]) : 1 \in 1 .. i
      BY <1>0
    <2> QED
      BY <1>1, <2>1 DEF Queued
  <1>3. CASE i <= Len(flight[s])
    <2>1. flight'[s][i] = flight[s][i] /\ flight'[s][j] = flight[s][j]
      BY <1>0, <1>1, <1>3, Appended
    <2>2. i \in 1 .. Len(flight[s])
      BY <1>0, <1>1, <1>3, Appended
    <2> QED
      BY <2>1, <2>2 DEF OnTime, WellSent, Moved
  <1>4. CASE i = Len(flight[s]) + 1
    <2>1. flight'[s][i] = m
      BY <1>0, <1>4, Appended
    <2>2. CASE j = i
      BY <2>1, <2>2, <1>0 DEF WellSent, Moved, Message
    <2>3. CASE j <= Len(flight[s])
      <3>1. flight'[s][j] = flight[s][j] /\ j \in 1 .. Len(flight[s])
        BY <1>0, <1>1, <2>3, Appended
      <3>2. flight[s][j].epoch <= jumps
        BY <3>1 DEF OnTime, WellSent
      <3> QED
        BY <2>1, <3>1, <3>2 DEF WellSent, Moved
    <2> QED
      BY <1>0, <1>4, <2>2, <2>3
  <1> QED
    BY <1>0, <1>1, <1>3, <1>4, Appended

LEMMA QueueTaken ==
    ASSUME RungTypes, OnTime, NEW s \in Senders, UNCHANGED <<now, shift, jumps>>,
           flight[s] # <<>>, flight'[s] = Tail(flight[s])
    PROVE  Queued(s)'
  <1>0. flight[s] \in Seq(Message) /\ Len(flight[s]) \in Nat
    BY DEF RungTypes
  <1>1. SUFFICES ASSUME NEW i \in 1 .. Len(flight'[s]), NEW j \in 1 .. i
                 PROVE  /\ WellSent(s, flight[s][i])'
                        /\ flight'[s][j].epoch <= flight'[s][i].epoch
    <2>1. \A i \in 1 .. Len(flight'[s]) : 1 \in 1 .. i
      BY <1>0
    <2> QED
      BY <1>1, <2>1 DEF Queued
  <1>2. flight'[s][i] = flight[s][i + 1] /\ flight'[s][j] = flight[s][j + 1]
    BY <1>0, <1>1, Taken
  <1>3. i + 1 \in 1 .. Len(flight[s]) /\ j + 1 \in 1 .. i + 1
    BY <1>0, <1>1, Taken
  <1> QED
    BY <1>2, <1>3 DEF OnTime, WellSent, Moved

LEMMA StepOnTime == Config /\ RungTypes /\ OnTime /\ [Next]_vars => OnTime'
  <1> SUFFICES ASSUME Config, RungTypes, OnTime, [Next]_vars PROVE OnTime'
    OBVIOUS
  <1>0. (OnTime' <=> /\ jumps' = 0 => shift' = 0
                     /\ jumps' = 1 => shift' \in mode'.jumps
                     /\ \A s \in Senders : Queued(s)')
    BY DEF OnTime, Queued, WellSent, Moved
  <1>1. ASSUME NEW s \in Senders, flight'[s] = flight[s], UNCHANGED <<now, shift, jumps>>
        PROVE  Queued(s)'
    BY <1>1 DEF OnTime, Queued, WellSent, Moved
  <1>2. ASSUME NEW s \in Senders, Publish(s) PROVE OnTime'
    <2>1. PICK m \in Message :
             /\ flight' = [flight EXCEPT ![s] = Append(@, m)]
             /\ m.sent = now /\ m.epoch = jumps /\ m.stamp - now - shift \in Lead[s]
      BY <1>2, PublishEffect
    <2>2. UNCHANGED <<now, shift, jumps, mode>>
      BY <1>2, PublishEffect
    <2>3. WellSent(s, m)
      <3>1. Moved(m.epoch) = shift
        BY <2>1 DEF Moved, OnTime
      <3>2. now - m.sent = 0 /\ m.epoch <= jumps
        BY <2>1 DEF RungTypes
      <3> QED
        BY <2>1, <3>1, <3>2, ClockAssumption DEF WellSent
    <2>4. flight'[s] = Append(flight[s], m) /\ \A r \in Senders \ {s} : flight'[r] = flight[r]
      BY <2>1 DEF RungTypes
    <2>5. \A r \in Senders : Queued(r)'
      BY <1>1, <2>1, <2>2, <2>3, <2>4, QueueAppended
    <2> QED
      BY <1>0, <2>2, <2>5 DEF OnTime
  <1>3. ASSUME NEW s \in Senders, Deliver(s) PROVE OnTime'
    <2>1. flight[s] # <<>> /\ flight' = [flight EXCEPT ![s] = Tail(@)]
      BY <1>3, DeliverEffect
    <2>2. UNCHANGED <<now, shift, jumps, mode>>
      BY <1>3, DeliverEffect
    <2>3. flight'[s] = Tail(flight[s]) /\ \A r \in Senders \ {s} : flight'[r] = flight[r]
      BY <2>1 DEF RungTypes
    <2>4. \A r \in Senders : Queued(r)'
      BY <1>1, <2>1, <2>2, <2>3, QueueTaken
    <2> QED
      BY <1>0, <2>2, <2>4 DEF OnTime
  <1>4. ASSUME Tick \/ Jump \/ DrainTimeJump \/ CloseStartupWindow \/ UNCHANGED vars
        PROVE  OnTime'
    <2>0. UNCHANGED <<flight, mode>>
      BY <1>4, OtherEffect
    <2>1. CASE UNCHANGED <<now, shift, jumps>>
      BY <1>0, <1>1, <2>0, <2>1 DEF OnTime
    <2>2. CASE Tick /\ UNCHANGED <<shift, jumps>>
      <3>1. SUFFICES ASSUME NEW s \in Senders, NEW i \in 1 .. Len(flight[s])
                     PROVE  WellSent(s, flight[s][i])'
        BY <1>0, <2>0, <2>2, <3>1 DEF OnTime, Queued, WellSent, Moved
      <3>2. flight[s][i].sent \in Int
        BY <3>1, WaitingType
      <3>3. now' = now + Step /\ now + Step - flight[s][i].sent <= Delay
        BY <2>2, <3>1 DEF Tick
      <3>4. 0 <= now - flight[s][i].sent
        BY <3>1 DEF OnTime, WellSent
      <3>5. 0 <= now' - flight[s][i].sent /\ now' - flight[s][i].sent <= Delay
        BY <3>2, <3>3, <3>4, ClockAssumption DEF RungTypes
      <3>6. WellSent(s, flight[s][i])
        BY <3>1 DEF OnTime
      <3> QED
        BY <2>0, <2>2, <3>5, <3>6 DEF WellSent, Moved
    <2>3. CASE Jump /\ UNCHANGED now
      <3>1. PICK d \in mode.jumps : shift' = shift + d /\ jumps' = jumps + 1
        BY <2>3 DEF Jump
      <3>2. d \in Int /\ jumps \in Nat /\ shift \in Int
        BY <3>1, TrafficAssumption DEF Config, RungTypes
      <3>3. (jumps' = 0 => shift' = 0) /\ (jumps' = 1 => shift' \in mode'.jumps)
        BY <2>0, <3>1, <3>2 DEF OnTime
      <3>4. ASSUME NEW s \in Senders, NEW i \in 1 .. Len(flight[s])
            PROVE  WellSent(s, flight[s][i])'
        <4>1. flight[s][i].epoch \in Nat
          BY <3>4, WaitingType
        <4>2. WellSent(s, flight[s][i])
          BY <3>4 DEF OnTime
        <4>3. flight[s][i].epoch <= jumps'
          BY <3>1, <3>2, <4>1, <4>2 DEF WellSent
        <4>4. jumps' <= 1 => flight[s][i].epoch = 0
          BY <3>1, <3>2, <4>1, <4>2 DEF WellSent
        <4> QED
          BY <2>0, <2>3, <3>1, <3>2, <4>2, <4>3, <4>4 DEF WellSent, Moved
      <3> QED
        BY <1>0, <2>0, <3>3, <3>4 DEF OnTime, Queued
    <2> QED
      BY <1>4, <2>1, <2>2, <2>3, OtherEffect
  <1> QED
    BY <1>2, <1>3, <1>4 DEF Next

\* A jump is notable when no publisher's jitter hides it from the threshold, or
\* the steps that two publishers see of it from one another.
Notable(W) ==
    \A md \in Modes : \A d \in md.jumps : \A x, y \in (d - W) .. (d + W) :
        Abs(x) > Threshold /\ Abs(x - y) <= Tolerance(x, y)

\* What the two theorems are about: a clock that did not move, or moved once by
\* a notable jump.
Calm(W) == jumps = 0 \/ (jumps = 1 /\ Notable(W))

\* The offsets of a paced publisher, relative to its clock.
Near(W, s, x) == Least(W, s) - Delay <= x /\ x <= Least(W, s) + (W - Delay)

\* The row of an attributed publisher follows the clock of the last sample that
\* was heard, and records a step exactly when it was seen to cross the jump.
Follows(W, s) ==
    rows[Who[s]].seen =>
        /\ heard[Who[s]] \in 0 .. jumps
        /\ Near(W, s, rows[Who[s]].baseline - Moved(heard[Who[s]]))
        /\ \A i \in 1 .. Len(flight[s]) : heard[Who[s]] <= flight[s][i].epoch
Crossed(W, s) ==
    rows[Who[s]].stepped =>
        /\ rows[Who[s]].seen /\ heard[Who[s]] = 1
        /\ rows[Who[s]].at <= now
        /\ rows[Who[s]].delta \in (shift - W) .. (shift + W)
Noted(s) ==
    witness[Who[s]] # None => rows[Who[s]].stepped /\ rows[Who[s]].at = witness[Who[s]]
Tracked(W, s) == Follows(W, s) /\ Crossed(W, s) /\ Noted(s)

Attributed == {s \in Senders : Who[s] # Unattributed}
Tracks(W) == stopped = "no" /\ Calm(W) => \A s \in Attributed : Tracked(W, s)

\* The invariant of the rung.
Histories == DOMAIN heard = Publishers /\ DOMAIN witness = Publishers
Rung(W) == Config /\ RungTypes /\ Histories /\ OnTime /\ Tracks(W)

LEMMA LeastType ==
    ASSUME NEW W, Paced(W), NEW s \in Attributed
    PROVE  /\ Least(W, s) \in Int
           /\ \A l \in Lead[s] : Least(W, s) <= l /\ l <= Least(W, s) + (W - Delay)
  BY DEF Paced, Least, Attributed

\* Arithmetic of offsets: a stamp's distance from the time it is received, and
\* the distance of two offsets that are near one clock or two.
LEMMA OffsetArith ==
    ASSUME NEW W \in Nat, NEW s, Least(W, s) \in Int, Delay \in Nat, now \in Int,
           NEW sent \in Int, NEW stamp \in Int, NEW mv \in Int,
           Least(W, s) <= stamp - sent - mv,
           stamp - sent - mv <= Least(W, s) + (W - Delay),
           0 <= now - sent, now - sent <= Delay
    PROVE  Near(W, s, stamp - now - mv)
  BY DEF Near

LEMMA ResidualArith ==
    ASSUME NEW W \in Nat, NEW s, Least(W, s) \in Int, Delay \in Nat, now \in Int,
           NEW stamp \in Int, NEW base \in Int, NEW mv \in Int, NEW mw \in Int,
           Near(W, s, stamp - now - mv), Near(W, s, base - mw)
    PROVE  (stamp - now) - base \in (mv - mw - W) .. (mv - mw + W)
  BY DEF Near

LEMMA BlendArith ==
    ASSUME NEW W \in Nat, NEW s, Least(W, s) \in Int, Delay \in Nat, now \in Int,
           NEW stamp \in Int, NEW base \in Int, NEW mv \in Int, NEW part \in Int,
           Near(W, s, stamp - now - mv), Near(W, s, base - mv),
           (stamp - now) - base >= 0 => 0 <= part /\ part <= (stamp - now) - base,
           (stamp - now) - base <= 0 => (stamp - now) - base <= part /\ part <= 0
    PROVE  Near(W, s, (base + part) - mv)
  BY DEF Near

\* A message that waits is near its publisher's clock when it is received.
LEMMA OffsetNear ==
    ASSUME NEW W, Paced(W), RungTypes, OnTime, jumps <= 1, NEW s \in Attributed,
           NEW i \in 1 .. Len(flight[s])
    PROVE  /\ Near(W, s, flight[s][i].stamp - now - Moved(flight[s][i].epoch))
           /\ Moved(flight[s][i].epoch) \in Int
  <1> DEFINE m == flight[s][i]
             l == m.stamp - m.sent - Moved(m.epoch)
  <1>0. s \in Senders
    BY DEF Attributed
  <1>1. m.stamp \in Int /\ m.sent \in Int /\ m.epoch \in Nat
    BY <1>0, WaitingType
  <1>2. Moved(m.epoch) \in Int
    BY DEF Moved, RungTypes
  <1>3. l \in Lead[s] /\ 0 <= now - m.sent /\ now - m.sent <= Delay
    BY <1>0 DEF OnTime, WellSent
  <1>4. Least(W, s) <= l /\ l <= Least(W, s) + (W - Delay) /\ Least(W, s) \in Int
    BY <1>3, LeastType
  <1>5. W \in Nat /\ Delay \in Nat /\ now \in Int
    BY ClockAssumption DEF Paced, RungTypes
  <1> HIDE DEF m
  <1>6. Near(W, s, m.stamp - now - Moved(m.epoch))
    BY <1>1, <1>2, <1>3, <1>4, <1>5, OffsetArith
  <1> QED
    BY <1>2, <1>6 DEF m

LEMMA HeededReceives ==
    ASSUME NEW p, Heeded(p)
    PROVE  Received = now
  BY DEF Heeded, Received

LEMMA AttributedRow ==
    ASSUME RungTypes, NEW s \in Attributed
    PROVE  /\ Who[s] \in Publishers /\ s \in Senders /\ Who[s] # Unattributed
           /\ rows[Who[s]] \in Row /\ rows[Who[s]].baseline \in Int
           /\ rows[Who[s]].at \in Int /\ rows[Who[s]].delta \in Int
           /\ rows[Who[s]].seen \in BOOLEAN /\ rows[Who[s]].stepped \in BOOLEAN
  <1>1. Who[s] \in Publishers /\ s \in Senders /\ Who[s] # Unattributed
    BY DEF Attributed, Publishers
  <1>2. rows[Who[s]] \in Row
    BY <1>1 DEF RungTypes
  <1> QED
    BY <1>1, <1>2 DEF Row

\* A publisher that keeps its pace does not step; one that crosses a notable
\* jump does, by about the jump.
LEMMA StepsWhenCrossing ==
    ASSUME NEW W, Paced(W), Rung(W), Calm(W), stopped = "no", NEW s \in Attributed,
           flight[s] # <<>>, Heeded(Who[s]), rows[Who[s]].seen
    PROVE  LET m == Head(flight[s]) IN
           /\ m.stamp \in Int /\ Residual(Who[s], m.stamp) \in Int
           /\ heard[Who[s]] = m.epoch => ~Steps(Who[s], m.stamp)
           /\ heard[Who[s]] # m.epoch =>
                 /\ heard[Who[s]] = 0 /\ m.epoch = 1 /\ jumps = 1 /\ Notable(W)
                 /\ Residual(Who[s], m.stamp) \in (shift - W) .. (shift + W)
                 /\ Steps(Who[s], m.stamp)
  <1> DEFINE m == Head(flight[s])
             p == Who[s]
  <1>0. s \in Senders /\ p \in Publishers /\ rows[p].baseline \in Int
    BY AttributedRow DEF Rung
  <1>1. flight[s] \in Seq(Message) /\ m = flight[s][1] /\ 1 \in 1 .. Len(flight[s])
    BY <1>0, Taken DEF Rung, RungTypes
  <1>2. m.stamp \in Int /\ m.epoch \in Nat
    BY <1>0, <1>1, WaitingType DEF Rung
  <1>3. jumps \in {0, 1} /\ now \in Int /\ shift \in Int /\ jumps <= 1
    BY DEF Calm, Rung, RungTypes
  <1>4. Near(W, s, m.stamp - now - Moved(m.epoch))
    BY <1>1, <1>3, OffsetNear DEF Rung
  <1>5. m.epoch <= jumps
    BY <1>0, <1>1 DEF Rung, OnTime, WellSent
  <1>6. /\ heard[p] \in 0 .. jumps /\ heard[p] <= m.epoch
        /\ Near(W, s, rows[p].baseline - Moved(heard[p]))
    BY <1>1 DEF Rung, Tracks, Tracked, Follows
  <1>7. Residual(p, m.stamp) = (m.stamp - now) - rows[p].baseline
    BY HeededReceives DEF Residual
  <1>8. Least(W, s) \in Int /\ W \in Nat /\ W <= Threshold /\ Threshold \in Nat /\ Delay \in Nat
    BY LeastType, ClockAssumption DEF Paced
  <1>9. (jumps = 0 => shift = 0) /\ (jumps = 1 => shift \in mode.jumps) /\ mode \in Modes
    BY DEF Rung, OnTime, Config
  <1> HIDE DEF m, p
  <1>10. Residual(p, m.stamp) \in Int
    BY <1>0, <1>2, <1>3, <1>7
  <1>11. ASSUME heard[p] = m.epoch PROVE ~Steps(p, m.stamp)
    <2>1. Moved(heard[p]) \in Int /\ Moved(heard[p]) = Moved(m.epoch)
      BY <1>3, <1>11 DEF Moved
    <2>2. (m.stamp - now) - rows[p].baseline
             \in (Moved(m.epoch) - Moved(m.epoch) - W) .. (Moved(m.epoch) - Moved(m.epoch) + W)
      BY <2>1, <1>0, <1>2, <1>3, <1>4, <1>6, <1>8, ResidualArith
    <2>3. Abs(Residual(p, m.stamp)) <= Threshold
      BY <2>1, <2>2, <1>7, <1>10, <1>8 DEF Abs
    <2>4. Abs(Residual(p, m.stamp)) \in Int
      BY <1>10 DEF Abs
    <2> QED
      BY <2>3, <2>4, <1>8 DEF Steps
  <1>12. ASSUME heard[p] # m.epoch
         PROVE  /\ heard[p] = 0 /\ m.epoch = 1 /\ jumps = 1 /\ Notable(W)
                /\ Residual(p, m.stamp) \in (shift - W) .. (shift + W)
                /\ Steps(p, m.stamp)
    <2>1. heard[p] = 0 /\ m.epoch = 1 /\ jumps = 1
      BY <1>2, <1>3, <1>5, <1>6, <1>12
    <2>2. Notable(W)
      BY <2>1 DEF Calm
    <2>3. Moved(heard[p]) = 0 /\ Moved(m.epoch) = shift
      BY <2>1 DEF Moved
    <2>4. Residual(p, m.stamp) \in (shift - W) .. (shift + W)
      <3>0. Moved(heard[p]) \in Int /\ Moved(m.epoch) \in Int
        BY <2>3, <1>3
      <3>1. (m.stamp - now) - rows[p].baseline
               \in (Moved(m.epoch) - Moved(heard[p]) - W) .. (Moved(m.epoch) - Moved(heard[p]) + W)
        BY <3>0, <1>0, <1>2, <1>3, <1>4, <1>6, <1>8, ResidualArith
      <3> QED
        BY <2>3, <3>1, <1>3, <1>7, <1>8
    <2>5. Abs(Residual(p, m.stamp)) > Threshold
      BY <2>1, <2>2, <2>4, <1>9 DEF Notable
    <2>6. Steps(p, m.stamp)
      BY <2>5 DEF Steps, p
    <2> QED
      BY <2>1, <2>2, <2>4, <2>6
  <1> QED
    BY <1>2, <1>10, <1>11, <1>12 DEF m, p

\* The row that a sample leaves behind.
LEMMA RowFollows ==
    ASSUME NEW W, Paced(W), Rung(W), Calm(W), stopped = "no", NEW s \in Attributed,
           flight[s] # <<>>, Heeded(Who[s])
    PROVE  LET m == Head(flight[s])
               r == RowAfter(Who[s], m.stamp)
           IN  /\ r.seen /\ Near(W, s, r.baseline - Moved(m.epoch))
               /\ m.epoch \in 0 .. jumps
               /\ r.stepped => /\ m.epoch = 1 /\ r.at <= now
                               /\ r.delta \in (shift - W) .. (shift + W)
               /\ rows[Who[s]].seen /\ heard[Who[s]] # m.epoch => r.stepped /\ r.at = now
               /\ ~(rows[Who[s]].seen /\ heard[Who[s]] # m.epoch) =>
                     (rows[Who[s]].stepped => r.stepped /\ r.at = rows[Who[s]].at)
  <1> DEFINE m == Head(flight[s])
             p == Who[s]
             r == RowAfter(p, m.stamp)
             x == Residual(p, m.stamp)
  <1>0. /\ s \in Senders /\ p \in Publishers /\ rows[p].baseline \in Int /\ rows[p] \in Row
        /\ rows[p].at \in Int /\ rows[p].delta \in Int
    BY AttributedRow DEF Rung
  <1>1. flight[s] \in Seq(Message) /\ m = flight[s][1] /\ 1 \in 1 .. Len(flight[s])
    BY <1>0, Taken DEF Rung, RungTypes
  <1>2. m.stamp \in Int /\ m.epoch \in Nat
    BY <1>0, <1>1, WaitingType DEF Rung
  <1>3. jumps \in {0, 1} /\ now \in Int /\ shift \in Int /\ jumps <= 1
    BY DEF Calm, Rung, RungTypes
  <1>4. Near(W, s, m.stamp - now - Moved(m.epoch)) /\ Moved(m.epoch) \in Int
    BY <1>1, <1>3, OffsetNear DEF Rung
  <1>5. m.epoch <= jumps
    BY <1>0, <1>1 DEF Rung, OnTime, WellSent
  <1>6. Received = now
    BY HeededReceives
  <1>7. rows[p].seen => heard[p] <= m.epoch /\ Near(W, s, rows[p].baseline - Moved(heard[p]))
    BY <1>1 DEF Rung, Tracks, Tracked, Follows
  <1>8. Crossed(W, s)
    BY DEF Rung, Tracks, Tracked
  <1>9. Least(W, s) \in Int /\ W \in Nat /\ Delay \in Nat
    BY LeastType, ClockAssumption DEF Paced
  <1>10. rows[p].seen =>
            /\ x \in Int
            /\ heard[p] = m.epoch => ~Steps(p, m.stamp)
            /\ heard[p] # m.epoch => /\ m.epoch = 1 /\ Steps(p, m.stamp)
                                     /\ x \in (shift - W) .. (shift + W)
    BY StepsWhenCrossing
  <1>11. m.epoch \in 0 .. jumps
    BY <1>2, <1>3, <1>5
  <1> HIDE DEF m, p
  <1>12. CASE ~rows[p].seen
    <2>1. r = [seen |-> TRUE, baseline |-> m.stamp - now, stepped |-> FALSE, at |-> 0, delta |-> 0]
      BY <1>6, <1>12 DEF RowAfter
    <2>2. r.seen /\ r.baseline = m.stamp - now /\ ~r.stepped
      BY <2>1
    <2>3. ~rows[p].stepped
      BY <1>8, <1>12 DEF Crossed, p
    <2> HIDE DEF r
    <2> QED
      BY <1>4, <1>11, <1>12, <2>2, <2>3 DEF m, p, r
  <1>13. CASE rows[p].seen /\ heard[p] # m.epoch
    <2>1. r = [seen |-> TRUE, baseline |-> m.stamp - now, stepped |-> TRUE, at |-> now, delta |-> x]
      BY <1>6, <1>10, <1>13 DEF RowAfter
    <2>2. r.seen /\ r.baseline = m.stamp - now /\ r.stepped /\ r.at = now /\ r.delta = x
      BY <2>1
    <2>3. r.at <= now
      BY <1>3, <2>2
    <2> HIDE DEF r, x
    <2> QED
      BY <1>4, <1>10, <1>11, <1>13, <2>2, <2>3 DEF m, p, r
  <1>14. CASE rows[p].seen /\ heard[p] = m.epoch
    <2>1. r = [rows[p] EXCEPT !.baseline = @ + Eighth(x)]
      BY <1>10, <1>14 DEF RowAfter
    <2>2. /\ r.seen = rows[p].seen /\ r.stepped = rows[p].stepped /\ r.at = rows[p].at
          /\ r.delta = rows[p].delta /\ r.baseline = rows[p].baseline + Eighth(x)
      BY <2>1, <1>0 DEF Row
    <2>3. x = (m.stamp - now) - rows[p].baseline /\ x \in Int
      BY <1>6, <1>10, <1>14 DEF Residual
    <2>4. Near(W, s, rows[p].baseline - Moved(m.epoch))
      BY <1>7, <1>14
    <2>5. /\ Eighth(x) \in Int
          /\ x >= 0 => 0 <= Eighth(x) /\ Eighth(x) <= x
          /\ x <= 0 => x <= Eighth(x) /\ Eighth(x) <= 0
      BY <2>3, EighthBetween
    <2> HIDE DEF r, x
    <2>6. /\ (m.stamp - now) - rows[p].baseline >= 0 =>
                0 <= Eighth(x) /\ Eighth(x) <= (m.stamp - now) - rows[p].baseline
          /\ (m.stamp - now) - rows[p].baseline <= 0 =>
                (m.stamp - now) - rows[p].baseline <= Eighth(x) /\ Eighth(x) <= 0
      BY <2>3, <2>5
    <2>7. Near(W, s, (rows[p].baseline + Eighth(x)) - Moved(m.epoch))
      BY <1>0, <1>2, <1>3, <1>4, <1>9, <2>4, <2>5, <2>6, BlendArith
    <2> QED
      BY <1>8, <1>11, <1>14, <2>2, <2>7 DEF m, p, r, Crossed
  <1> QED
    BY <1>12, <1>13, <1>14

LEMMA StepHistories == Config /\ RungTypes /\ Histories /\ [Next]_vars => Histories'
  <1> SUFFICES ASSUME Config, RungTypes, Histories, [Next]_vars PROVE Histories'
    OBVIOUS
  <1>1. ASSUME NEW s \in Senders, Publish(s) PROVE Histories'
    BY <1>1, PublishEffect DEF Histories
  <1>2. ASSUME NEW s \in Senders, Deliver(s) PROVE Histories'
    <2>1. ASSUME ClockRungs(Who[s], Head(flight[s])) PROVE Histories'
      <3>1. /\ UNCHANGED heard \/ heard' = [heard EXCEPT ![Who[s]] = Head(flight[s]).epoch]
            /\ UNCHANGED witness \/ witness' = [witness EXCEPT ![Who[s]] = Received]
        BY <2>1, RungsEffect
      <3> QED
        BY <3>1 DEF Histories
    <2>2. UNCHANGED <<heard, witness>> \/ ClockRungs(Who[s], Head(flight[s]))
      BY <1>2, DeliverEffect
    <2> QED
      BY <2>1, <2>2 DEF Histories
  <1>3. ASSUME Tick \/ Jump \/ DrainTimeJump \/ CloseStartupWindow \/ UNCHANGED vars
        PROVE  Histories'
    BY <1>3, OtherEffect DEF Histories
  <1> QED
    BY <1>1, <1>2, <1>3 DEF Next

\* The jumps are counted, so that a state of at most one jump comes from one.
LEMMA CalmBefore ==
    ASSUME NEW W, Config, RungTypes, [Next]_vars, Calm(W)'
    PROVE  Calm(W)
  <1>1. jumps' = jumps \/ jumps' = jumps + 1
    <2>1. ASSUME NEW s \in Senders, Deliver(s) \/ Publish(s) PROVE UNCHANGED jumps
      BY <2>1, DeliverEffect, PublishEffect
    <2>2. ASSUME Tick \/ Jump \/ DrainTimeJump \/ CloseStartupWindow \/ UNCHANGED vars
          PROVE  jumps' = jumps \/ jumps' = jumps + 1
      <3>1. UNCHANGED jumps \/ Jump
        BY <2>2, OtherEffect
      <3> QED
        BY <3>1 DEF Jump
    <2> QED
      BY <2>1, <2>2 DEF Next
  <1>2. jumps \in Nat
    BY DEF RungTypes
  <1>3. Notable(W)' = Notable(W)
    BY DEF Notable
  <1> QED
    BY <1>1, <1>2, <1>3 DEF Calm

\* Nothing the rung knows of a publisher changes.
LEMMA RowKept ==
    ASSUME NEW W, NEW s, Tracked(W, s), UNCHANGED <<now, shift, jumps>>,
           rows'[Who[s]] = rows[Who[s]], heard'[Who[s]] = heard[Who[s]],
           witness'[Who[s]] = witness[Who[s]],
           rows[Who[s]].seen =>
              \A i \in 1 .. Len(flight'[s]) : heard[Who[s]] <= flight'[s][i].epoch
    PROVE  Tracked(W, s)'
  <1>1. Follows(W, s)'
    BY DEF Tracked, Follows, Near, Moved, Least
  <1>2. Crossed(W, s)'
    BY DEF Tracked, Crossed
  <1>3. Noted(s)'
    BY DEF Tracked, Noted
  <1> QED
    BY <1>1, <1>2, <1>3 DEF Tracked

LEMMA StepTracks ==
    ASSUME NEW W, Paced(W), Rung(W), [Next]_vars
    PROVE  Tracks(W)'
  <1> SUFFICES ASSUME stopped' = "no", Calm(W)', NEW s \in Attributed
               PROVE  Tracked(W, s)'
    BY DEF Tracks, Attributed
  <1>1. stopped = "no" /\ Calm(W)
    BY StaysStopped, CalmBefore DEF Rung
  <1>2. Tracked(W, s)
    BY <1>1 DEF Rung, Tracks
  <1>3. /\ s \in Senders /\ Who[s] \in Publishers /\ Who[s] # Unattributed
        /\ flight[s] \in Seq(Message) /\ jumps \in Nat
    BY AttributedRow DEF Rung, RungTypes
  <1>4. ASSUME NEW r \in Senders, Publish(r) PROVE Tracked(W, s)'
    <2>1. PICK m \in Message :
             flight' = [flight EXCEPT ![r] = Append(@, m)] /\ m.epoch = jumps
      BY <1>4, PublishEffect DEF Rung
    <2>2. UNCHANGED <<now, shift, jumps, rows, heard, witness>>
      BY <1>4, PublishEffect DEF Rung
    <2>3. ASSUME rows[Who[s]].seen, NEW i \in 1 .. Len(flight'[s])
          PROVE  heard[Who[s]] <= flight'[s][i].epoch
      <3>1. /\ heard[Who[s]] <= jumps
            /\ \A j \in 1 .. Len(flight[s]) : heard[Who[s]] <= flight[s][j].epoch
        BY <1>2, <1>3, <2>3 DEF Tracked, Follows
      <3>2. CASE flight'[s] = flight[s]
        BY <2>3, <3>1, <3>2
      <3>3. CASE flight'[s] = Append(flight[s], m)
        <4>1. i \in 1 .. Len(flight[s]) \/ i = Len(flight[s]) + 1
          BY <1>3, <2>3, <3>3, Appended
        <4> QED
          BY <1>3, <2>1, <3>1, <3>3, <4>1, Appended
      <3> QED
        BY <1>3, <2>1, <3>2, <3>3 DEF Rung, RungTypes
    <2> QED
      BY <1>2, <2>2, <2>3, RowKept
  <1>5. ASSUME NEW r \in Senders, Deliver(r) PROVE Tracked(W, s)'
    <2> DEFINE m == Head(flight[r])
    <2>1. flight[r] # <<>> /\ flight' = [flight EXCEPT ![r] = Tail(@)]
      BY <1>5, DeliverEffect DEF Rung
    <2>2. UNCHANGED <<now, shift, jumps>>
      BY <1>5, DeliverEffect DEF Rung
    <2>3. ASSUME NEW i \in 1 .. Len(flight'[s])
          PROVE  \/ i \in 1 .. Len(flight[s]) /\ flight'[s][i] = flight[s][i]
                 \/ i + 1 \in 1 .. Len(flight[s]) /\ flight'[s][i] = flight[s][i + 1]
      <3>1. CASE flight'[s] = flight[s]
        BY <2>3, <3>1
      <3>2. CASE flight'[s] = Tail(flight[s]) /\ flight[s] # <<>>
        <4>1. Len(flight[s]) \in Nat /\ Len(flight'[s]) = Len(flight[s]) - 1
          BY <1>3, <3>2, Taken
        <4>2. i + 1 \in 1 .. Len(flight[s]) /\ i \in 1 .. Len(flight[s]) - 1
          BY <2>3, <4>1
        <4> QED
          BY <1>3, <3>2, <4>2, Taken
      <3> QED
        BY <1>3, <2>1, <3>1, <3>2 DEF Rung, RungTypes
    <2>4. rows[Who[s]].seen =>
             \A i \in 1 .. Len(flight'[s]) : heard[Who[s]] <= flight'[s][i].epoch
      BY <1>2, <2>3 DEF Tracked, Follows
    <2>5. CASE UNCHANGED <<rows, heard, witness>>
      BY <1>2, <2>2, <2>4, <2>5, RowKept
    <2>6. ASSUME ClockRungs(Who[r], m) PROVE Tracked(W, s)'
      <3>1. /\ rows' = RowsAfter(Who[r], m.stamp)
            /\ heard' = IF Heeded(Who[r]) THEN [heard EXCEPT ![Who[r]] = m.epoch] ELSE heard
            /\ witness' = IF Heeded(Who[r]) /\ rows[Who[r]].seen /\ heard[Who[r]] # m.epoch
                          THEN [witness EXCEPT ![Who[r]] = Received] ELSE witness
        BY <2>6, RungsEffect DEF Rung
      <3>2. CASE ~Heeded(Who[r])
        BY <2>5, <3>1, <3>2 DEF RowsAfter
      <3>3. CASE Who[r] # Who[s]
        <4>1. /\ rows'[Who[s]] = rows[Who[s]] /\ heard'[Who[s]] = heard[Who[s]]
              /\ witness'[Who[s]] = witness[Who[s]]
          BY <1>3, <3>1, <3>3 DEF RowsAfter, Rung, RungTypes, Histories
        <4> QED
          BY <1>2, <2>2, <2>4, <4>1, RowKept
      <3>4. CASE Heeded(Who[r]) /\ Who[r] = Who[s]
        <4>0. r = s
          BY <1>3, <3>4, SenderAssumption
        <4>1. /\ rows'[Who[s]] = RowAfter(Who[s], m.stamp) /\ heard'[Who[s]] = m.epoch
              /\ IF rows[Who[s]].seen /\ heard[Who[s]] # m.epoch
                 THEN witness'[Who[s]] = Received ELSE witness'[Who[s]] = witness[Who[s]]
          BY <1>3, <3>1, <3>4, <4>0 DEF RowsAfter, Rung, RungTypes, Histories
        <4>2. LET row == RowAfter(Who[s], m.stamp)
              IN  /\ row.seen /\ Near(W, s, row.baseline - Moved(m.epoch))
                  /\ m.epoch \in 0 .. jumps
                  /\ row.stepped => /\ m.epoch = 1 /\ row.at <= now
                                    /\ row.delta \in (shift - W) .. (shift + W)
                  /\ rows[Who[s]].seen /\ heard[Who[s]] # m.epoch =>
                        row.stepped /\ row.at = now
                  /\ ~(rows[Who[s]].seen /\ heard[Who[s]] # m.epoch) =>
                        (rows[Who[s]].stepped => row.stepped /\ row.at = rows[Who[s]].at)
          BY <1>1, <2>1, <3>4, <4>0, RowFollows
        <4>3. Received = now
          BY <3>4, HeededReceives
        <4> HIDE DEF m
        <4>4. ASSUME NEW i \in 1 .. Len(flight'[s]) PROVE m.epoch <= flight'[s][i].epoch
          <5>1. i + 1 \in 1 .. Len(flight[s]) /\ flight'[s][i] = flight[s][i + 1]
                /\ m = flight[s][1] /\ 1 \in 1 .. i + 1
            <6>1. flight'[s] = Tail(flight[s])
              BY <1>3, <2>1, <4>0 DEF Rung, RungTypes
            <6>2. Len(flight[s]) \in Nat /\ Len(flight'[s]) = Len(flight[s]) - 1
              <7>1. flight[s] \in Seq(Message) /\ flight[s] # <<>>
                BY <1>3, <2>1, <4>0
              <7> QED
                BY <7>1, <6>1, Taken
            <6>3. i \in 1 .. Len(flight[s]) - 1 /\ i + 1 \in 1 .. Len(flight[s]) /\ 1 \in 1 .. i + 1
              BY <4>4, <6>2
            <6> QED
              BY <1>3, <2>1, <4>0, <6>1, <6>3, Taken DEF m
          <5> QED
            BY <1>3, <5>1 DEF Rung, OnTime
        <4>5. Follows(W, s)'
          <5>1. Near(W, s, RowAfter(Who[s], m.stamp).baseline - Moved(m.epoch))
            BY <4>2
          <5>2. Near(W, s, rows[Who[s]].baseline - Moved(heard[Who[s]]))'
            BY <2>2, <4>1, <5>1 DEF Near, Moved, Least
          <5> QED
            BY <2>2, <4>1, <4>2, <4>4, <5>2 DEF Follows
        <4>6. Crossed(W, s)'
          BY <2>2, <4>1, <4>2 DEF Crossed
        <4>7. Noted(s)'
          BY <1>2, <4>1, <4>2, <4>3 DEF Tracked, Noted
        <4> QED
          BY <4>5, <4>6, <4>7 DEF Tracked
      <3> QED
        BY <3>2, <3>3, <3>4
    <2> QED
      BY <1>5, <2>5, <2>6, DeliverEffect DEF Rung
  <1>6. ASSUME Tick \/ Jump \/ DrainTimeJump \/ CloseStartupWindow \/ UNCHANGED vars
        PROVE  Tracked(W, s)'
    <2>1. UNCHANGED <<flight, heard, witness, rows>>
      BY <1>6, OtherEffect DEF Rung
    <2>2. CASE UNCHANGED <<now, shift, jumps>>
      BY <1>2, <2>1, <2>2, RowKept DEF Tracked, Follows
    <2>3. CASE Tick /\ UNCHANGED <<shift, jumps>>
      <3>1. now \in Int /\ now' = now + Step /\ Step \in Nat /\ rows[Who[s]].at \in Int
        BY <2>3, ClockAssumption, AttributedRow DEF Tick, Rung, RungTypes
      <3>2. Crossed(W, s)'
        BY <1>2, <2>1, <2>3, <3>1 DEF Tracked, Crossed
      <3>3. Follows(W, s)'
        BY <1>2, <2>1, <2>3 DEF Tracked, Follows, Near, Moved, Least
      <3> QED
        BY <1>2, <2>1, <3>2, <3>3 DEF Tracked, Noted
    <2>4. CASE Jump /\ UNCHANGED now
      <3>1. jumps = 0 /\ jumps' = 1
        BY <1>1, <1>3, <2>4 DEF Jump, Calm
      <3>2. rows[Who[s]].seen => heard[Who[s]] = 0
        BY <1>2, <3>1 DEF Tracked, Follows
      <3>3. ~rows[Who[s]].stepped
        BY <1>2, <3>2 DEF Tracked, Crossed
      <3>4. rows[Who[s]].seen => Near(W, s, rows[Who[s]].baseline - Moved(heard[Who[s]]))'
        BY <1>2, <2>1, <3>2 DEF Tracked, Follows, Near, Moved, Least
      <3>5. Follows(W, s)'
        BY <1>2, <2>1, <3>1, <3>2, <3>4 DEF Tracked, Follows
      <3> QED
        BY <1>2, <2>1, <3>3, <3>5 DEF Tracked, Crossed, Noted
    <2> QED
      BY <1>6, <2>2, <2>3, <2>4, OtherEffect DEF Rung
  <1> QED
    BY <1>4, <1>5, <1>6 DEF Next

LEMMA InitRung ==
    ASSUME NEW W, Paced(W), Init
    PROVE  Rung(W) /\ CommonModeIsClock /\ JumpNoticed
  <1>1. Config /\ RungTypes
    BY ClockAssumption DEF Init, Config, RungTypes, NoRow, Row
  <1>2. Histories /\ OnTime
    BY DEF Init, Histories, OnTime
  <1>3. ASSUME NEW s \in Attributed PROVE Tracked(W, s)
    <2>1. Who[s] \in Publishers
      BY DEF Attributed, Publishers
    <2>2. ~rows[Who[s]].seen /\ ~rows[Who[s]].stepped /\ witness[Who[s]] = None
      BY <2>1 DEF Init, NoRow
    <2> QED
      BY <2>2 DEF Tracked, Follows, Crossed, Noted
  <1>4. CommonModeIsClock /\ JumpNoticed
    BY DEF Init, CommonModeIsClock, JumpNoticed
  <1> QED
    BY <1>1, <1>2, <1>3, <1>4 DEF Rung, Tracks

LEMMA StepRung ==
    ASSUME NEW W, Paced(W), Rung(W), [Next]_vars
    PROVE  Rung(W)'
  <1>1. Config' /\ RungTypes' /\ Histories' /\ OnTime'
    BY StepConfig, StepRungTypes, StepHistories, StepOnTime DEF Rung
  <1>2. Tracks(W)'
    BY StepTracks
  <1> QED
    BY <1>1, <1>2 DEF Rung

\* While the clock has not moved, an attributed publisher neither steps nor has
\* stepped, and the unattributed identity does not agree with itself.
LEMMA NoneAgree ==
    ASSUME NEW W, Paced(W), Rung(W), jumps = 0, stopped = "no", NEW s \in Senders,
           flight[s] # <<>>
    PROVE  ~CommonMode(Who[s], Head(flight[s]).stamp)
  <1>0. Calm(W) /\ jumps \in Nat
    BY DEF Calm, Rung, RungTypes
  <1>1. CASE s \in Attributed
    <2>1. SUFFICES ASSUME Heeded(Who[s]), rows[Who[s]].seen,
                          Steps(Who[s], Head(flight[s]).stamp)
                   PROVE  FALSE
      BY DEF CommonMode, Steps
    <2>2. heard[Who[s]] # Head(flight[s]).epoch
      BY <1>0, <1>1, <2>1, StepsWhenCrossing
    <2> QED
      BY <1>0, <1>1, <2>1, <2>2, StepsWhenCrossing
  <1>2. CASE s \notin Attributed
    <2>1. ASSUME NEW q \in Publishers \ {Who[s]} PROVE ~rows[q].stepped
      <3>1. PICK r \in Senders : q = Who[r]
        BY <2>1 DEF Publishers
      <3>2. r \in Attributed
        BY <1>2, <2>1, <3>1 DEF Attributed
      <3>3. Follows(W, r) /\ Crossed(W, r)
        BY <1>0, <3>2 DEF Rung, Tracks, Tracked
      <3> QED
        BY <1>0, <3>1, <3>3 DEF Follows, Crossed
    <2> QED
      BY <2>1 DEF CommonMode, Agreeing
  <1> QED
    BY <1>1, <1>2

LEMMA StepTrusted ==
    ASSUME NEW W, Paced(W), Rung(W), CommonModeIsClock, [Next]_vars
    PROVE  CommonModeIsClock'
  <1>0. jumps \in Nat /\ Config
    BY DEF Rung, RungTypes
  <1>1. CASE jumps > 0
    <2>1. jumps' > 0
      <3>1. ASSUME NEW s \in Senders, Deliver(s) \/ Publish(s) PROVE UNCHANGED jumps
        BY <3>1, DeliverEffect, PublishEffect DEF Rung
      <3>2. ASSUME Tick \/ Jump \/ DrainTimeJump \/ CloseStartupWindow \/ UNCHANGED vars
            PROVE  UNCHANGED jumps \/ Jump
        BY <3>2, <1>0, OtherEffect
      <3> QED
        BY <1>0, <1>1, <3>1, <3>2 DEF Next, Jump
    <2> QED
      BY <2>1 DEF CommonModeIsClock
  <1>2. CASE jumps = 0
    <2>0. ~promoted
      BY <1>0, <1>2 DEF CommonModeIsClock
    <2>1. ASSUME NEW s \in Senders, Publish(s) PROVE ~promoted'
      BY <2>0, <2>1, PublishEffect DEF Rung
    <2>2. ASSUME NEW s \in Senders, Deliver(s) PROVE ~promoted'
      <3>1. ASSUME ClockRungs(Who[s], Head(flight[s])), stopped = "no" PROVE ~promoted'
        <4>1. flight[s] # <<>>
          BY <1>0, <2>2, DeliverEffect
        <4>2. ~CommonMode(Who[s], Head(flight[s]).stamp)
          BY <1>2, <3>1, <4>1, NoneAgree
        <4> QED
          BY <1>0, <2>0, <3>1, <4>2, RungsEffect
      <3> QED
        BY <1>0, <2>0, <2>2, <3>1, DeliverEffect
    <2>3. ASSUME Tick \/ Jump \/ DrainTimeJump \/ CloseStartupWindow \/ UNCHANGED vars
          PROVE  ~promoted'
      BY <1>0, <2>0, <2>3, OtherEffect
    <2> QED
      BY <2>1, <2>2, <2>3 DEF Next, CommonModeIsClock
  <1> QED
    BY <1>0, <1>1, <1>2

\* A publisher that is seen to cross the jump agrees with one that was.
LEMMA SecondWitnessStops ==
    ASSUME NEW W, Paced(W), Rung(W), Calm(W), stopped = "no",
           NEW s \in Attributed, NEW r \in Attributed, Who[s] # Who[r],
           flight[s] # <<>>, Heeded(Who[s]), rows[Who[s]].seen,
           heard[Who[s]] # Head(flight[s]).epoch,
           witness[Who[r]] # None, Abs(now - witness[Who[r]]) <= Window
    PROVE  CommonMode(Who[s], Head(flight[s]).stamp)
  <1> DEFINE x == Residual(Who[s], Head(flight[s]).stamp)
  <1>1. /\ jumps = 1 /\ Notable(W) /\ x \in (shift - W) .. (shift + W)
        /\ Steps(Who[s], Head(flight[s]).stamp)
    BY StepsWhenCrossing
  <1>2. /\ rows[Who[r]].stepped /\ rows[Who[r]].seen /\ rows[Who[r]].at = witness[Who[r]]
        /\ rows[Who[r]].at <= now
        /\ rows[Who[r]].delta \in (shift - W) .. (shift + W)
    BY DEF Rung, Tracks, Tracked, Crossed, Noted
  <1>3. rows[Who[r]].at \in Int /\ now \in Int /\ Window \in Nat /\ Who[r] \in Publishers
    BY ClockAssumption, AttributedRow DEF Rung, RungTypes
  <1>4. shift \in mode.jumps /\ mode \in Modes
    BY <1>1 DEF Rung, OnTime, Config
  <1>5. Abs(x - rows[Who[r]].delta) <= Tolerance(x, rows[Who[r]].delta)
    BY <1>1, <1>2, <1>4 DEF Notable
  <1>6. Received = now
    BY HeededReceives
  <1>7. 0 <= now - rows[Who[r]].at /\ now - rows[Who[r]].at <= Window
    BY <1>2, <1>3 DEF Abs
  <1>8. Who[r] \in Agreeing(Who[s], x)
    BY <1>2, <1>3, <1>5, <1>6, <1>7 DEF Agreeing
  <1> QED
    BY <1>1, <1>8 DEF CommonMode

LEMMA StepNoticed ==
    ASSUME NEW W, Paced(W), Rung(W), jumps <= 1 /\ Notable(W) => JumpNoticed, [Next]_vars,
           jumps' <= 1, Notable(W)
    PROVE  JumpNoticed'
  <1> SUFFICES ASSUME stopped' = "no", NEW p \in Publishers \ {Unattributed},
                      NEW q \in Publishers \ {Unattributed}, p # q,
                      witness'[p] # None, witness'[q] # None,
                      Abs(witness'[p] - witness'[q]) <= Window
               PROVE  FALSE
    BY DEF JumpNoticed, Abs
  <1>0. Config /\ Rung(W)' /\ jumps \in Nat /\ jumps' \in Nat
    BY StepRung DEF Rung, RungTypes
  <1>1. Calm(W)'
    BY <1>0 DEF Calm, Notable
  <1>2. Calm(W) /\ stopped = "no"
    BY <1>1, CalmBefore, StaysStopped DEF Rung
  <1>3. JumpNoticed
    BY <1>0, <1>2 DEF Calm
  <1>4. CASE UNCHANGED witness
    BY <1>2, <1>3, <1>4 DEF JumpNoticed
  <1>5. ASSUME NEW s \in Senders, Deliver(s) PROVE FALSE
    <2> DEFINE m == Head(flight[s])
    <2>1. SUFFICES ASSUME ClockRungs(Who[s], m), Heeded(Who[s]), rows[Who[s]].seen,
                          heard[Who[s]] # m.epoch,
                          witness' = [witness EXCEPT ![Who[s]] = Received]
                   PROVE  FALSE
      BY <1>0, <1>4, <1>5, DeliverEffect, RungsEffect
    <2>2. flight[s] # <<>> /\ UNCHANGED now
      BY <1>0, <1>5, DeliverEffect
    <2>3. ~CommonMode(Who[s], m.stamp)
      BY <1>0, <2>1, RungsEffect
    <2>4. Received = now
      BY <2>1, HeededReceives
    <2>5. PICK sp \in Attributed, sq \in Attributed : p = Who[sp] /\ q = Who[sq]
      BY DEF Publishers, Attributed
    <2>6. ASSUME NEW t \in Attributed, NEW v \in Attributed, Who[t] # Who[v], Who[t] = Who[s],
                 witness'[Who[v]] # None, Abs(now - witness'[Who[v]]) <= Window
          PROVE  FALSE
      <3>1. t = s
        BY <2>6, SenderAssumption DEF Attributed
      <3>2. witness'[Who[v]] = witness[Who[v]]
        BY <2>1, <2>6, AttributedRow DEF Rung, Histories
      <3> QED
        BY <1>2, <2>1, <2>2, <2>3, <2>6, <3>1, <3>2, SecondWitnessStops
    <2>7. CASE p = Who[s]
      <3>1. witness'[p] = now
        BY <2>1, <2>4, <2>7 DEF Rung, Histories
      <3> QED
        BY <2>5, <2>6, <2>7, <3>1
    <2>8. CASE q = Who[s]
      <3>1. witness'[q] = now
        BY <2>1, <2>4, <2>8 DEF Rung, Histories
      <3>2. witness'[p] \in Int /\ now \in Int
        <4>1. Noted(sp)' /\ rows'[Who[sp]].at \in Int
          BY <1>0, <1>1, <2>5, AttributedRow DEF Rung, Tracks, Tracked, RungTypes, Row
        <4> QED
          BY <2>5, <4>1 DEF Noted, Rung, RungTypes
      <3>3. Abs(now - witness'[p]) = Abs(witness'[p] - now)
        BY <3>2 DEF Abs
      <3> QED
        BY <2>5, <2>6, <2>8, <3>1, <3>3
    <2>9. CASE p # Who[s] /\ q # Who[s]
      <3>1. witness'[p] = witness[p] /\ witness'[q] = witness[q]
        BY <2>1, <2>9 DEF Rung, Histories
      <3> QED
        BY <1>2, <1>3, <3>1 DEF JumpNoticed
    <2> QED
      BY <2>7, <2>8, <2>9
  <1>6. ASSUME NEW s \in Senders, Publish(s) PROVE FALSE
    BY <1>4, <1>6, PublishEffect DEF Rung
  <1>7. ASSUME Tick \/ Jump \/ DrainTimeJump \/ CloseStartupWindow \/ UNCHANGED vars
        PROVE  FALSE
    BY <1>0, <1>4, <1>7, OtherEffect
  <1> QED
    BY <1>5, <1>6, <1>7 DEF Next

LEMMA PacedTrusts ==
    ASSUME NEW CONSTANT W, Paced(W)
    PROVE  Spec => []CommonModeIsClock
  <1>1. Init => Rung(W) /\ CommonModeIsClock
    BY InitRung
  <1>2. Rung(W) /\ CommonModeIsClock /\ [Next]_vars => (Rung(W) /\ CommonModeIsClock)'
    BY StepRung, StepTrusted
  <1> QED
    BY <1>1, <1>2, PTL DEF Spec

\* As long as the offsets of every attributed publisher, the time its messages
\* wait included, span no more than the threshold, the rung never concludes that
\* a clock moved which did not, for any number of publishers and any order of
\* delivery; what shares the unattributed identity may be arbitrarily far apart
\* (clock.rs, OffsetTable::observe).
THEOREM ClockTrustedHolds == Spec => []ClockTrusted
  <1>1. CASE ~Punctual
    <2>1. ClockTrusted
      BY <1>1 DEF ClockTrusted
    <2> QED
      BY <2>1, PTL
  <1>2. CASE Punctual
    <2>1. Threshold \in Nat /\ Delay \in Nat
      BY ClockAssumption
    <2>2. ASSUME NEW s \in Senders, Who[s] # Unattributed
          PROVE  \E lo \in Int : \A l \in Lead[s] : lo <= l /\ l <= lo + (Threshold - Delay)
      <3>1. PICK lo \in Lead[s] : \A l \in Lead[s] : lo <= l /\ l + Delay <= lo + Threshold
        BY <1>2, <2>2 DEF Punctual
      <3>2. Lead[s] \subseteq Int
        BY SenderAssumption
      <3> QED
        BY <2>1, <3>1, <3>2
    <2>3. Paced(Threshold)
      BY <2>1, <2>2 DEF Paced
    <2>4. Spec => []CommonModeIsClock
      BY <2>3, PacedTrusts
    <2>5. CommonModeIsClock => ClockTrusted
      BY DEF ClockTrusted
    <2> QED
      BY <2>4, <2>5, PTL
  <1> QED
    BY <1>1, <1>2

\* Until the clock jumps a second time, a jump that jitter does not hide stops the
\* bridge no later than with the second attributed publisher that is seen to
\* cross it within the window (clock.rs, OffsetTable::observe and tolerance).
THEOREM JumpNoticedHolds ==
    ASSUME NEW CONSTANT W, Paced(W), Notable(W)
    PROVE  Spec => [](jumps <= 1 => JumpNoticed)
  <1>1. Init => Rung(W) /\ (jumps <= 1 => JumpNoticed)
    BY InitRung
  <1>2. Rung(W) /\ (jumps <= 1 => JumpNoticed) /\ [Next]_vars
           => (Rung(W) /\ (jumps <= 1 => JumpNoticed))'
    BY StepRung, StepNoticed
  <1> QED
    BY <1>1, <1>2, PTL DEF Spec
===============================================================================

------------------------------ MODULE SampleRing ------------------------------
(***************************************************************************)
(* One dynamic edge's sample ring: SampleRing::push and ::read_slot of     *)
(* tf_tree_core/src/buffer.rs, and the bracket search of sample.rs that    *)
(* reads it.  One writer publishes; a reader, which stores nothing to      *)
(* shared memory, looks a stamp up while the writer laps it.               *)
(*                                                                         *)
(* Every atomic load and store of shared memory is a step of its own.  The *)
(* payload stores between push's Release fence and its even seq store are  *)
(* Relaxed, and so are the payload loads of read_slot: both happen in any  *)
(* order.  A writer can be killed between any two of its stores, after     *)
(* which the edge is claimed again and the next writer pushes into the     *)
(* same ring.                                                              *)
(*                                                                         *)
(* Since readers only read, any number of them behaves as one: the module  *)
(* has a single reader.                                                    *)
(***************************************************************************)
EXTENDS SampleLookup

CONSTANTS
    SeqModulus,       \* seq is a u32, so it counts modulo 2^32
    SEQ_RETRY_LIMIT,  \* attempts read_slot makes before SlotContended
    Words,            \* the payload words of one pose (seven in the code)
    Vals,             \* what one payload word may hold
    ZeroWord,         \* the word of a zeroed arena
    Samples,          \* the [stamp, pose] pairs the application may push
    Requests,         \* the lookups a reader may make, see Request
    MaxHead,          \* bound on the number of published samples
    MaxCrashes        \* bound on the number of killed writers

ASSUME SeqAssumption == /\ SeqModulus \in Nat /\ SeqModulus >= 2
                        /\ SeqModulus % 2 = 0
                        /\ SEQ_RETRY_LIMIT \in Nat \ {0}
ASSUME PayloadAssumption == /\ ZeroWord \in Vals
                            /\ "stamp" \notin Words
                            /\ Samples \subseteq [stamp : Int, pose : [Words -> Vals]]
                            /\ Requests \subseteq Request
ASSUME BoundAssumption == MaxHead \in Nat /\ MaxCrashes \in Nat

VARIABLES
    \* The arena: shared between the writer and every reader.
    head, heartbeat, stamps, seq, data,
    \* The writer's program counter and locals: the h it loaded, the sample
    \* it pushes, its odd seq, and the payload stores still to come.
    wpc, wh, wsample, wodd, wtodo,
    \* The reader's program counter, arguments and locals: the h it loaded and
    \* the two stamps it compares t with; the lower index i and the width len
    \* of the search; the stamps at i and i + 1; the offset of the last pose needed (0 or 1),
    \* of the one being read and what has been read of it; the result.
    rpc, req, h, tOld, tNew, i, len, ti, tj, last, off, s1, todo, tries, bits, res,
    \* History: the samples in publication order, and the writers killed.
    log, crashes

arena   == <<head, heartbeat, stamps, seq, data>>
writer  == <<wpc, wh, wsample, wodd, wtodo>>
window  == <<req, h, tOld, tNew>>
search  == <<i, len, ti, tj, last>>
slotrd  == <<off, s1, todo, tries, bits>>
reader  == <<rpc, window, search, slotrd, res>>
history == <<log, crashes>>
vars    == <<arena, writer, reader, history>>

-------------------------------------------------------------------------------
(* Index arithmetic. *)

Slots == 0 .. Capacity - 1

\* A logical index masked to a physical one.
Idx(k) == k % Capacity

MinOf(x, y) == IF x <= y THEN x ELSE y
MaxOf(x, y) == IF x >= y THEN x ELSE y

ZeroPose == [w \in Words |-> ZeroWord]

-------------------------------------------------------------------------------
(* Initial state: a zeroed arena, nobody inside. *)

NoRequest == [op |-> "sample", policy |-> "Error", seek |-> "bisect", t |-> 0]

Init ==
    /\ head = 0
    /\ heartbeat = 0
    /\ stamps = [x \in Slots |-> 0]
    /\ seq = [x \in Slots |-> 0]
    /\ data = [x \in Slots |-> ZeroPose]
    /\ wpc = "idle"
    /\ wh = 0
    /\ wsample = [stamp |-> 0, pose |-> ZeroPose]
    /\ wodd = 1
    /\ wtodo = {}
    /\ rpc = "idle"
    /\ req = NoRequest
    /\ h = 0 /\ tOld = 0 /\ tNew = 0
    /\ i = 0 /\ len = 1 /\ ti = 0 /\ tj = 0 /\ last = 0
    /\ off = 0 /\ s1 = 0 /\ todo = {} /\ tries = 0
    /\ bits = [o \in {0, 1} |-> ZeroPose]
    /\ res = Err("none")
    /\ log = [k \in {} |-> 0]
    /\ crashes = 0

-------------------------------------------------------------------------------
(* The writer: SampleRing::push. *)

\* Fault: a push that does not compare its stamp with the newest one.
PushBeginUnordered(s) ==
    /\ wpc = "idle"
    /\ head < MaxHead
    /\ wpc' = "odd"
    /\ wh' = head
    /\ wsample' = s
    /\ UNCHANGED <<wodd, wtodo, arena, reader, history>>

\* Load head and the newest stamp, both the writer's own; a stamp below it is
\* refused with NonMonotonicStamp and changes nothing.
PushBegin(s) ==
    /\ wpc = "idle"
    /\ head < MaxHead
    /\ head > 0 => s.stamp >= stamps[Idx(head - 1)]
    /\ wpc' = "odd"
    /\ wh' = head
    /\ wsample' = s
    /\ UNCHANGED <<wodd, wtodo, arena, reader, history>>

\* seq | 1: forces the sequence odd, whatever a killed writer left behind.
PushOdd ==
    /\ wpc = "odd"
    /\ LET s   == seq[Idx(wh)]
           odd == IF s % 2 = 0 THEN s + 1 ELSE s
       IN  /\ wodd' = odd
           /\ seq' = [seq EXCEPT ![Idx(wh)] = odd]
    /\ wtodo' = Words \cup {"stamp"}
    /\ wpc' = "payload"
    /\ UNCHANGED <<head, heartbeat, stamps, data, wh, wsample, reader, history>>

PushStamp ==
    /\ wpc = "payload"
    /\ "stamp" \in wtodo
    /\ stamps' = [stamps EXCEPT ![Idx(wh)] = wsample.stamp]
    /\ wtodo' = wtodo \ {"stamp"}
    /\ UNCHANGED <<head, heartbeat, seq, data, wpc, wh, wsample, wodd, reader, history>>

PushWord(w) ==
    /\ wpc = "payload"
    /\ w \in wtodo
    /\ data' = [data EXCEPT ![Idx(wh)][w] = wsample.pose[w]]
    /\ wtodo' = wtodo \ {w}
    /\ UNCHANGED <<head, heartbeat, stamps, seq, wpc, wh, wsample, wodd, reader, history>>

PushEven ==
    /\ wpc = "payload"
    /\ wtodo = {}
    /\ seq' = [seq EXCEPT ![Idx(wh)] = (wodd + 1) % SeqModulus]
    /\ wpc' = "head"
    /\ UNCHANGED <<head, heartbeat, stamps, data, wh, wsample, wodd, wtodo, reader, history>>

\* The store of head publishes the sample.
PushHead ==
    /\ wpc = "head"
    /\ head' = wh + 1
    /\ log' = [k \in 0 .. wh |-> IF k = wh THEN wsample ELSE log[k]]
    /\ wpc' = "beat"
    /\ UNCHANGED <<heartbeat, stamps, seq, data, wh, wsample, wodd, wtodo, reader, crashes>>

PushBeat ==
    /\ wpc = "beat"
    /\ heartbeat' = wh + 1
    /\ wpc' = "idle"
    /\ UNCHANGED <<head, stamps, seq, data, wh, wsample, wodd, wtodo, reader, history>>

\* The writer's process is killed inside push; the edge is reaped and claimed
\* by a new writer, which starts from the ring as it stands.
CrashWriter ==
    /\ wpc # "idle"
    /\ crashes < MaxCrashes
    /\ crashes' = crashes + 1
    /\ wpc' = "idle"
    /\ wtodo' = {}
    /\ UNCHANGED <<arena, wh, wsample, wodd, reader, log>>

-------------------------------------------------------------------------------
(* The reader: sample, sample_from, sample_with_twist and what they call.  *)

Finish(r) == rpc' = "done" /\ res' = r
Goto(l)   == rpc' = l /\ res' = res

Invoke(q) ==
    /\ rpc = "idle"
    /\ req' = q
    /\ Goto("head")
    /\ UNCHANGED <<h, tOld, tNew, search, slotrd, arena, writer, history>>

\* Fault: an empty ring is not noticed.
LoadHeadUnchecked ==
    /\ rpc = "head"
    /\ h' = head
    /\ Goto("t_old")
    /\ UNCHANGED <<req, tOld, tNew, search, slotrd, arena, writer, history>>

LoadHead ==
    /\ rpc = "head"
    /\ h' = head
    /\ IF head = 0 THEN Finish(Err("NoData")) ELSE Goto("t_old")
    /\ UNCHANGED <<req, tOld, tNew, search, slotrd, arena, writer, history>>

LoadOldest ==
    /\ rpc = "t_old"
    /\ tOld' = stamps[Idx(Oldest(h))]
    /\ Goto("t_new")
    /\ UNCHANGED <<req, h, tNew, search, slotrd, arena, writer, history>>

LoadNewest ==
    /\ rpc = "t_new"
    /\ tNew' = stamps[Idx(Newest(h))]
    /\ Goto("range")
    /\ UNCHANGED <<req, h, tOld, search, slotrd, arena, writer, history>>

\* t against [tOld, tNew]: the outcomes that read no slot.
OutOfRange ==
    /\ rpc = "range"
    /\ \/ req.t < tOld
       \/ req.t > tNew /\ req.policy = "Error"
    /\ Finish(Extrapolation(tOld, tNew))
    /\ UNCHANGED <<window, search, slotrd, arena, writer, history>>

NoSegmentInWindow ==
    /\ rpc = "range"
    /\ req.t >= tOld
    /\ req.op = "twist"
    /\ Oldest(h) = Newest(h)
    /\ req.t > tNew => req.policy = "ConstantTwist"
    /\ Finish(Err("NoSegment"))
    /\ UNCHANGED <<window, search, slotrd, arena, writer, history>>

\* The newest sample alone answers: t is its stamp, it is held, or it is the
\* only one there is to extend.
ReadNewest ==
    /\ rpc = "range"
    /\ req.t >= tOld
    /\ \/ req.op = "sample" /\ req.t = tNew
       \/ req.t > tNew /\ req.policy = "Hold"
       \/ /\ req.op = "sample" /\ req.t > tNew /\ req.policy = "ConstantTwist"
          /\ Oldest(h) = Newest(h)
    /\ i' = Newest(h)
    /\ last' = 0
    /\ Goto("seq")
    /\ UNCHANGED <<window, len, ti, tj, slotrd, arena, writer, history>>

\* The newest segment answers: constant_twist, or a twist at the newest stamp.
NewestSegment ==
    /\ rpc = "range"
    /\ req.t >= tOld
    /\ Oldest(h) # Newest(h)
    /\ \/ req.t > tNew /\ req.policy = "ConstantTwist"
       \/ req.op = "twist" /\ req.t = tNew
    /\ i' = Newest(h) - 1
    /\ Goto("t_i")
    /\ UNCHANGED <<window, len, ti, tj, last, slotrd, arena, writer, history>>

\* A bracket has to be searched, from the whole window or from a hint.  Any
\* hint will do: rebase_hint's answer is clamped to the window.
StartSearch ==
    /\ rpc = "range"
    /\ req.t >= tOld
    /\ req.t < tNew
    /\ req.op = "twist" => Oldest(h) # Newest(h)
    /\ \/ /\ req.seek = "bisect"
          /\ i' = Oldest(h)
          /\ len' = Newest(h) - Oldest(h) + 1
          /\ Goto("bracket")
       \/ /\ req.seek = "gallop"
          /\ \E hint \in Oldest(h) .. Newest(h) : i' = hint
          /\ len' = 1
          /\ Goto("hint")
    /\ UNCHANGED <<window, ti, tj, last, slotrd, arena, writer, history>>

\* bracket_from; while it gallops i is the hint and len the step.
ProbeHint ==
    /\ rpc = "hint"
    /\ Goto(IF stamps[Idx(i)] <= req.t THEN "up" ELSE "down")
    /\ UNCHANGED <<window, search, slotrd, arena, writer, history>>

Narrow(lo, hi) == i' = lo /\ len' = hi - lo + 1 /\ Goto("bracket")

GallopUp ==
    /\ rpc = "up"
    /\ IF i + len < Newest(h) /\ stamps[Idx(i + len)] <= req.t
       THEN len' = 2 * len /\ i' = i /\ Goto("up")
       ELSE Narrow(i + len \div 2, MinOf(i + len, Newest(h)))
    /\ UNCHANGED <<window, ti, tj, last, slotrd, arena, writer, history>>

\* i - len saturates at 0, which is never above the oldest index.
GallopDown ==
    /\ rpc = "down"
    /\ IF i - len > Oldest(h) /\ stamps[Idx(i - len)] > req.t
       THEN len' = 2 * len /\ i' = i /\ Goto("down")
       ELSE Narrow(MaxOf(i - len, Oldest(h)), i - len \div 2)
    /\ UNCHANGED <<window, ti, tj, last, slotrd, arena, writer, history>>

\* Fault: a probe that hits t is taken for one above it.
BisectStrict ==
    /\ rpc = "bracket"
    /\ len > 1
    /\ LET half == len \div 2 IN
       /\ i' = IF stamps[Idx(i + half)] < req.t THEN i + half ELSE i
       /\ len' = len - half
    /\ Goto("bracket")
    /\ UNCHANGED <<window, ti, tj, last, slotrd, arena, writer, history>>

\* One probe of bracket's binary search, over [i, i + len).
Bisect ==
    /\ rpc = "bracket"
    /\ len > 1
    /\ LET half == len \div 2 IN
       /\ i' = IF stamps[Idx(i + half)] <= req.t THEN i + half ELSE i
       /\ len' = len - half
    /\ Goto("bracket")
    /\ UNCHANGED <<window, ti, tj, last, slotrd, arena, writer, history>>

BracketFound ==
    /\ rpc = "bracket"
    /\ len = 1
    /\ Goto("t_i")
    /\ UNCHANGED <<window, search, slotrd, arena, writer, history>>

\* constant_twist already has the newer stamp; sample stops at an exact hit.
LoadLower ==
    /\ rpc = "t_i"
    /\ ti' = stamps[Idx(i)]
    /\ IF req.t > tNew
       THEN tj' = tNew /\ last' = 1 /\ Goto("seq")
       ELSE IF req.op = "sample" /\ ti' = req.t
            THEN tj' = tj /\ last' = 0 /\ Goto("seq")
            ELSE tj' = tj /\ last' = 1 /\ Goto("t_j")
    /\ UNCHANGED <<window, i, len, slotrd, arena, writer, history>>

LoadUpper ==
    /\ rpc = "t_j"
    /\ tj' = stamps[Idx(i + 1)]
    /\ IF req.op = "twist" /\ tj' = ti
       THEN Finish(Err("NoSegment"))
       ELSE Goto("seq")
    /\ UNCHANGED <<window, i, len, ti, last, slotrd, arena, writer, history>>

\* Fault: read_slot spins until the slot is even.
RetryForever ==
    /\ tries' = tries
    /\ Goto("seq")

\* read_slot, for sample i + off: another attempt, or SlotContended.
Retry ==
    /\ tries' = tries + 1
    /\ IF tries + 1 >= SEQ_RETRY_LIMIT THEN Finish(Err("SlotContended")) ELSE Goto("seq")

LoadSeq ==
    /\ rpc = "seq"
    /\ LET s == seq[Idx(i + off)] IN
       \/ /\ s % 2 # 0
          /\ Retry
          /\ UNCHANGED <<s1, todo>>
       \/ /\ s % 2 = 0
          /\ s1' = s
          /\ todo' = Words
          /\ Goto("words")
          /\ UNCHANGED tries
    /\ UNCHANGED <<window, search, off, bits, arena, writer, history>>

LoadWord(w) ==
    /\ rpc = "words"
    /\ w \in todo
    /\ bits' = [bits EXCEPT ![off][w] = data[Idx(i + off)][w]]
    /\ todo' = todo \ {w}
    /\ Goto("words")
    /\ UNCHANGED <<window, search, off, s1, tries, arena, writer, history>>

\* Fault: the sequence is not loaded a second time.
CheckSeqOnce ==
    /\ rpc = "words"
    /\ todo = {}
    /\ IF off < last
       THEN off' = off + 1 /\ Goto("seq")
       ELSE off' = off /\ Goto("reval")
    /\ tries' = 0
    /\ UNCHANGED <<window, search, s1, todo, bits, arena, writer, history>>

CheckSeq ==
    /\ rpc = "words"
    /\ todo = {}
    /\ \/ /\ seq[Idx(i + off)] # s1
          /\ Retry
          /\ UNCHANGED off
       \/ /\ seq[Idx(i + off)] = s1
          /\ IF off < last
             THEN off' = off + 1 /\ Goto("seq")
             ELSE off' = off /\ Goto("reval")
          /\ tries' = 0
    /\ UNCHANGED <<window, search, s1, todo, bits, arena, writer, history>>

\* What the two stamps and the poses read amount to.
Outcome ==
    IF last = 0 THEN Exact(bits[0])
    ELSE IF ti = tj THEN Exact(bits[1])
    ELSE Between(bits[0], bits[1], req.t - ti, tj - ti)

\* Fault: no trailing revalidation.
RevalidateNever ==
    /\ rpc = "reval"
    /\ Finish(Outcome)
    /\ UNCHANGED <<window, search, slotrd, arena, writer, history>>

\* The trailing revalidation: has the ring lapped the oldest sample used?
Revalidate ==
    /\ rpc = "reval"
    /\ IF head - i > retained THEN Finish(Err("SlotRecycled")) ELSE Finish(Outcome)
    /\ UNCHANGED <<window, search, slotrd, arena, writer, history>>

Return ==
    /\ rpc = "done"
    /\ rpc' = "idle"
    /\ req' = NoRequest
    /\ h' = 0 /\ tOld' = 0 /\ tNew' = 0
    /\ i' = 0 /\ len' = 1 /\ ti' = 0 /\ tj' = 0 /\ last' = 0
    /\ off' = 0 /\ s1' = 0 /\ todo' = {} /\ tries' = 0
    /\ bits' = [o \in {0, 1} |-> ZeroPose]
    /\ res' = Err("none")
    /\ UNCHANGED <<arena, writer, history>>

-------------------------------------------------------------------------------
Push ==
    \/ \E s \in Samples : PushBegin(s)
    \/ PushOdd
    \/ PushStamp
    \/ \E w \in Words : PushWord(w)
    \/ PushEven
    \/ PushHead
    \/ PushBeat

Read ==
    \/ LoadHead \/ LoadOldest \/ LoadNewest
    \/ OutOfRange \/ NoSegmentInWindow \/ ReadNewest \/ NewestSegment \/ StartSearch
    \/ ProbeHint \/ GallopUp \/ GallopDown \/ Bisect \/ BracketFound
    \/ LoadLower \/ LoadUpper
    \/ LoadSeq \/ (\E w \in Words : LoadWord(w)) \/ CheckSeq
    \/ Revalidate \/ Return

Next == Push \/ CrashWriter \/ (\E q \in Requests : Invoke(q)) \/ Read

Spec == Init /\ [][Next]_vars

\* A thread inside a lookup keeps running; nothing obliges the writer to.
FairSpec == Spec /\ WF_vars(Read)

-------------------------------------------------------------------------------
(* Properties. *)

TypeOK ==
    /\ head \in Nat /\ heartbeat \in Nat
    /\ stamps \in [Slots -> Int]
    /\ seq \in [Slots -> 0 .. SeqModulus - 1]
    /\ data \in [Slots -> [Words -> Vals]]
    /\ wpc \in {"idle", "odd", "payload", "head", "beat"}
    /\ wh \in Nat
    /\ wsample \in [stamp : Int, pose : [Words -> Vals]]
    /\ wodd \in 0 .. SeqModulus - 1
    /\ wtodo \subseteq Words \cup {"stamp"}
    /\ rpc \in {"idle", "head", "t_old", "t_new", "range", "hint", "up", "down", "bracket",
                "t_i", "t_j", "seq", "words", "reval", "done"}
    /\ req \in Request
    /\ h \in Nat /\ tOld \in Int /\ tNew \in Int
    /\ i \in Nat /\ len \in Nat \ {0} /\ ti \in Int /\ tj \in Int /\ last \in {0, 1}
    /\ off \in {0, 1} /\ s1 \in 0 .. SeqModulus - 1 /\ todo \subseteq Words
    /\ tries \in Nat
    /\ bits \in [{0, 1} -> [Words -> Vals]]
    /\ log \in [0 .. head - 1 -> [stamp : Int, pose : [Words -> Vals]]]
    /\ crashes \in Nat

\* Whatever the writer is doing, and wherever an earlier writer was killed,
\* the slots of the retained window hold exactly the published samples and
\* their seqlocks are even (buffer.rs, push and retained).
RetainedIntact ==
    \A k \in Oldest(head) .. Newest(head) :
        /\ stamps[Idx(k)] = log[k].stamp
        /\ data[Idx(k)] = log[k].pose
        /\ seq[Idx(k)] % 2 = 0

\* The published stamps never decrease, also across a writer killed after it
\* stored a stamp it never published (buffer.rs, invariant 6 of push).
StampsOrdered ==
    \A j, k \in 0 .. head - 1 : j <= k => log[j].stamp <= log[k].stamp

\* A lookup that succeeds answers what the published samples said when it
\* loaded head: the bracket really brackets t, and stamps and poses belong
\* together, however often the writer lapped the reader meanwhile (sample.rs,
\* sample / read_from / sample_with_twist / constant_twist).
SampleSound ==
    rpc = "done" /\ Ok(res) => Answers(log, req, h, res)

\* A lookup during which no sample was published is exact, errors included:
\* neither a writer in the middle of a push nor the remains of a killed one
\* can make it report contention, recycling or a wrong range.
SampleExact ==
    rpc = "done" /\ head = h => Answers(log, req, h, res)

\* read_slot never hands back words of two different poses.
SlotReadWhole ==
    /\ rpc = "reval" \/ (rpc = "seq" /\ off = 1) =>
          bits[0] \in {s.pose : s \in Samples}
    /\ rpc = "reval" /\ last = 1 => bits[1] \in {s.pose : s \in Samples}

\* Every lookup returns, even when the slot it waits for belongs to a writer
\* that was killed and is never replaced (buffer.rs, SEQ_RETRY_LIMIT).
LookupReturns == (rpc = "head") ~> (rpc = "idle")

-------------------------------------------------------------------------------
(* The ring implements the log of SampleLog: publication is the store of    *)
(* head, a lookup works from the head it loaded.                            *)

AbstractCall ==
    CASE rpc = "idle" -> Idle
      [] rpc = "head" -> Called(req)
      [] rpc = "done" -> Answered(req, h, res)
      [] OTHER        -> Working(req, h)

Abstract == INSTANCE SampleLog WITH count <- head, call <- AbstractCall

\* Every behaviour of the ring is one of the log: lookups are atomic, and only
\* fail spuriously when samples were published during them.
ImplementsLog == Abstract!LogSpec
===============================================================================

------------------------------ MODULE BagIngest ------------------------------
(***************************************************************************)
(* Ingesting a recording (crates/tf_tree_ingest): pass one surveys the     *)
(* edges and counts their samples (survey), pass two reads the recording   *)
(* again, once for each group of edges that fits --max-memory (fill,       *)
(* plan_groups), sorts each edge by stamp and pushes it into a ring of the *)
(* counted size.  An edge that does not fit alone is sorted outside of     *)
(* memory: sorted runs, merged fan_in at a time until one merge can hold   *)
(* them all (fill_spilled, spill.rs).                                      *)
(*                                                                         *)
(* A record is a transform of the recording; its pose is its place in it.  *)
(* A run is the sequence of its samples: encoding and file offsets are     *)
(* left out, the windows through which a run is read are not.  The budgets *)
(* are computed as in the code, in bytes.                                  *)
(***************************************************************************)
EXTENDS Integers, Sequences, SequencesExt, FiniteSets, FiniteSetsExt

CONSTANTS
    Edges,         \* edges, numbered in the order of their frame names
    NoName,        \* a transform one of whose names is empty
    Recordings,    \* sequences of [edge, static, stamp]
    Caps,          \* values of --max-memory, in bytes
    Threshold,     \* clock_reset_threshold_ns
    ENCODED,       \* bytes of a sample
    MIN_CAP, MAX_STAGING,
    None           \* no stamp, no sample

ASSUME BudgetAssumption ==
    /\ ENCODED \in Nat \ {0} /\ MIN_CAP \in Nat /\ MAX_STAGING \in Nat
    /\ MAX_STAGING >= ENCODED
    /\ Caps \subseteq Nat /\ Threshold \in Nat

\* The floor has room for windows of three quarters and two staging buffers: the
\* code's is sixteen samples, five are enough for samples of one byte.
ASSUME FloorAssumption == MIN_CAP >= 8 * ENCODED \/ (ENCODED = 1 /\ MIN_CAP >= 5)

ASSUME RecordingAssumption ==
    /\ Edges \subseteq Nat /\ IsFiniteSet(Edges) /\ NoName \notin Edges
    /\ Recordings \subseteq Seq([edge : Edges \cup {NoName}, static : BOOLEAN, stamp : Nat])

ASSUME NoneAssumption == None \notin Nat /\ None \notin [stamp : Nat, pose : Nat]

VARIABLES
    recording, max_memory,   \* the arguments
    pc, failure,             \* position; the error that ended the ingest
    at, edges,               \* pass one: the record it has come to, EdgeSurvey by edge
    groups, buffers,         \* pass two: groups left, samples by edge of this one
    edge, rest,              \* the edge that is spilled, its samples still to be read
    runs, spans, next,       \* runs of the file, those this reduce has left, its output
    readers, merged,         \* the open merge: a window and the rest of each run; its output
    pending,                 \* the sample the last merge holds back
    arena, duplicates        \* samples pushed, by edge; FillStats::duplicates

input  == <<recording, max_memory>>
survey == <<at, edges>>
spill  == <<edge, rest, runs, spans, next, readers, merged, pending>>
vars   == <<input, pc, failure, survey, groups, buffers, spill, arena, duplicates>>

-----------------------------------------------------------------------------
(* Budgets. *)

\* A finite set as a sequence, in the order Before.
Arranged(S, Before(_, _)) ==
    [k \in 1 .. Cardinality(S) |->
        CHOOSE x \in S : Cardinality({y \in S : Before(y, x)}) = k - 1]

\* Numbers, from the least.
Ascending(S) == Arranged(S, <)

Larger(a, b)  == IF a < b THEN b ELSE a
Smaller(a, b) == IF a < b THEN a ELSE b

cap == Larger(max_memory, MIN_CAP)
staging == Smaller(Larger(cap \div 8, ENCODED), MAX_STAGING)

\* Samples of a run: its buffer, and as much again for the stable sort.
spill_budget == Larger((cap - staging) \div (2 * ENCODED), 1)

\* Samples that all windows of a merge may hold, one of them for decoding.
windows == ((cap * 3) \div 4) \div ENCODED

\* Fault: two windows are set aside, and the floor is one run.
fan_in_of_one == Larger(windows - 2, 1)

fan_in == Larger(windows - 1, 2)
merge_window_samples(n) == Larger(windows \div (n + 1), 1)

-----------------------------------------------------------------------------
(* Pass one. *)

NotSeen == [seen |-> FALSE, fixed |-> FALSE, dynamic |-> FALSE, newest |-> None, samples |-> 0]

Init ==
    /\ recording \in Recordings /\ max_memory \in Caps
    /\ pc = "survey" /\ failure = "none"
    /\ at = 1 /\ edges = [e \in Edges |-> NotSeen]
    /\ groups = <<>> /\ buffers = <<>>
    /\ edge = None /\ rest = <<>>
    /\ runs = <<>> /\ spans = <<>> /\ next = <<>>
    /\ readers = <<>> /\ merged = <<>> /\ pending = None
    /\ arena = [e \in Edges |-> <<>>] /\ duplicates = 0

Fail(why) == pc' = "failed" /\ failure' = why

\* Fault: a sample that runs a little late is not counted.
Counted_forward(s, stamp) ==
    IF s.newest # None /\ stamp < s.newest THEN s
    ELSE [s EXCEPT !.newest = stamp, !.samples = @ + 1]

\* A sample of a dynamic edge that pass one keeps: late ones count as well, and
\* leave the guard's mark where it is.
Counted(s, stamp) ==
    [s EXCEPT !.samples = @ + 1,
              !.newest = IF s.newest # None /\ stamp < s.newest THEN @ ELSE stamp]

Resets(s, stamp) == s.newest # None /\ stamp < s.newest /\ s.newest - stamp >= Threshold

SurveyRecord ==
    /\ pc = "survey" /\ at <= Len(recording)
    /\ at' = at + 1
    /\ LET r == recording[at]
           s == edges[r.edge]
           Keep(t) == edges' = [edges EXCEPT ![r.edge] = t] /\ UNCHANGED <<pc, failure>>
       IN
       \/ r.edge = NoName /\ UNCHANGED <<edges, pc, failure>>
       \/ /\ r.edge # NoName /\ r.static
          /\ IF s.dynamic THEN Fail("EdgeKindChanged") /\ UNCHANGED edges
             ELSE Keep([s EXCEPT !.seen = TRUE, !.fixed = TRUE])
       \/ /\ r.edge # NoName /\ ~r.static
          /\ LET d == [s EXCEPT !.seen = TRUE, !.dynamic = TRUE] IN
             IF s.fixed THEN Fail("EdgeKindChanged") /\ UNCHANGED edges
             ELSE IF r.stamp = 0 THEN Keep(d)
             ELSE IF Resets(s, r.stamp) THEN Fail("ClockReset") /\ UNCHANGED edges
             ELSE Keep(Counted(d, r.stamp))
    /\ UNCHANGED <<input, groups, buffers, spill, arena, duplicates>>

-----------------------------------------------------------------------------
(* The plan of pass two. *)

Bytes(e) == edges[e].samples * ENCODED

\* Largest first; names decide between edges of one size.
Packing ==
    Arranged({e \in Edges : ~edges[e].fixed /\ edges[e].samples > 0},
                 LAMBDA e, f : \/ edges[e].samples > edges[f].samples
                               \/ edges[e].samples = edges[f].samples /\ e < f)

InMemory(es) == [spilled |-> FALSE, edges |-> es]
Spilled(e)   == [spilled |-> TRUE, edges |-> {e}]

\* Groups closed so far, and the edges, bytes and largest buffer of the open one.
Flushed(acc) == IF acc.cur = {} THEN acc.groups ELSE Append(acc.groups, InMemory(acc.cur))

\* Fault: a group reserves nothing for the sort's scratch.
PackUnreserved(acc, e) ==
    LET need == Bytes(e) IN
    IF 2 * need > cap
    THEN [groups |-> Append(Flushed(acc), Spilled(e)), cur |-> {}, bytes |-> 0, most |-> 0]
    ELSE IF acc.bytes + need > cap
    THEN [groups |-> Flushed(acc), cur |-> {e}, bytes |-> need, most |-> need]
    ELSE [groups |-> acc.groups, cur |-> acc.cur \cup {e}, bytes |-> acc.bytes + need,
          most |-> Larger(acc.most, need)]

Pack(acc, e) ==
    LET need == Bytes(e) IN
    IF 2 * need > cap
    THEN [groups |-> Append(Flushed(acc), Spilled(e)), cur |-> {}, bytes |-> 0, most |-> 0]
    ELSE IF acc.bytes + need + Larger(acc.most, need) > cap
    THEN [groups |-> Flushed(acc), cur |-> {e}, bytes |-> need, most |-> need]
    ELSE [groups |-> acc.groups, cur |-> acc.cur \cup {e}, bytes |-> acc.bytes + need,
          most |-> Larger(acc.most, need)]

plan_groups ==
    Flushed(FoldLeft(Pack, [groups |-> <<>>, cur |-> {}, bytes |-> 0, most |-> 0], Packing))

\* The ring that fill declares for an edge (next_pow2_u32 doubles until it is
\* enough), and how much of it a reader may use.
next_pow2(n) ==
    LET p[k \in 0 .. n] == IF k = 0 THEN 1
                           ELSE IF p[k - 1] < n THEN 2 * p[k - 1] ELSE p[k - 1]
    IN  p[n]
Slots(e)     == next_pow2(edges[e].samples)
retained(c)  == IF c > 1 THEN c - 1 ELSE c

\* survey returns, and fill builds the tree: a topology that is no forest, or
\* too large, is refused.
SurveyEnd ==
    /\ pc = "survey" /\ at > Len(recording)
    /\ \/ (\A e \in Edges : ~edges[e].seen) /\ Fail("NoTransforms") /\ UNCHANGED groups
       \/ (\E e \in Edges : edges[e].seen) /\ Fail("Build") /\ UNCHANGED groups
       \/ /\ \E e \in Edges : edges[e].seen
          /\ groups' = plan_groups
          /\ pc' = "groups" /\ UNCHANGED failure
    /\ UNCHANGED <<input, survey, buffers, spill, arena, duplicates>>

-----------------------------------------------------------------------------
(* Pass two, in memory. *)

\* What a pass over the recording keeps of edge e.
Kept(e) == {i \in DOMAIN recording : /\ recording[i].edge = e /\ ~recording[i].static
                                     /\ recording[i].stamp # 0}
SamplesOf(e) ==
    LET places == Ascending(Kept(e)) IN
    [k \in DOMAIN places |-> [stamp |-> recording[places[k]].stamp, pose |-> places[k]]]

\* The stable sort by stamp.
sort_run(buf) ==
    LET Before(i, j) == \/ buf[i].stamp < buf[j].stamp
                        \/ buf[i].stamp = buf[j].stamp /\ i < j
        order == Arranged(DOMAIN buf, Before)
    IN  [k \in DOMAIN buf |-> buf[order[k]]]

\* All but the last of equal stamps are skipped.
last_of_each(buf) ==
    LET kept == Ascending({i \in DOMAIN buf :
                    i < Len(buf) => buf[i + 1].stamp # buf[i].stamp})
    IN  [k \in DOMAIN kept |-> buf[kept[k]]]

NextGroup ==
    /\ pc = "groups"
    /\ \/ /\ groups = <<>>
          /\ pc' = "done"
          /\ UNCHANGED <<groups, buffers, edge, rest>>
       \/ /\ groups # <<>>
          /\ groups' = Tail(groups)
          /\ LET g == Head(groups) IN
             \/ /\ ~g.spilled
                /\ buffers' = [e \in g.edges |-> SamplesOf(e)]
                /\ pc' = "sort"
                /\ UNCHANGED <<edge, rest>>
             \/ /\ g.spilled
                /\ edge' = CHOOSE e \in g.edges : TRUE
                /\ rest' = SamplesOf(edge')
                /\ pc' = "spill"
                /\ UNCHANGED buffers
    /\ UNCHANGED <<input, failure, survey, runs, spans, next, readers, merged, pending, arena,
                   duplicates>>

SortAndPush(e) ==
    /\ pc = "sort" /\ e \in DOMAIN buffers
    /\ LET sorted == sort_run(buffers[e])
           kept   == last_of_each(sorted)
       IN  /\ arena' = [arena EXCEPT ![e] = @ \o kept]
           /\ duplicates' = duplicates + Len(sorted) - Len(kept)
    /\ buffers' = [f \in DOMAIN buffers \ {e} |-> buffers[f]]
    /\ pc' = IF DOMAIN buffers = {e} THEN "groups" ELSE "sort"
    /\ UNCHANGED <<input, failure, survey, groups, spill>>

-----------------------------------------------------------------------------
(* Pass two of an edge that is spilled. *)

First(s, n) == SubSeq(s, 1, Smaller(n, Len(s)))
After(s, n) == SubSeq(s, n + 1, Len(s))

\* The buffer is full, or the recording ends: one more run.
SpillRun ==
    /\ pc = "spill" /\ rest # <<>>
    /\ runs' = Append(runs, sort_run(First(rest, spill_budget)))
    /\ rest' = After(rest, spill_budget)
    /\ UNCHANGED <<input, pc, failure, survey, groups, buffers, edge, spans, next, readers,
                   merged, pending, arena, duplicates>>

\* RunReader::refill: a spent window is filled again.
refill(rd, window) ==
    IF rd.window # <<>> THEN rd
    ELSE [window |-> First(rd.left, window), left |-> After(rd.left, window)]

merge_runs(rs) ==
    [i \in DOMAIN rs |->
        refill([window |-> <<>>, left |-> rs[i]], merge_window_samples(Len(rs)))]

\* Fault: ties go to the later run.
LeastLaterFirst(i) ==
    /\ i \in DOMAIN readers /\ readers[i].window # <<>>
    /\ \A j \in DOMAIN readers : readers[j].window # <<>> =>
          \/ readers[i].window[1].stamp < readers[j].window[1].stamp
          \/ readers[i].window[1].stamp = readers[j].window[1].stamp /\ i >= j

\* The top of the heap: the least stamp, the earliest run among equals.
Least(i) ==
    /\ i \in DOMAIN readers /\ readers[i].window # <<>>
    /\ \A j \in DOMAIN readers : readers[j].window # <<>> =>
          \/ readers[i].window[1].stamp < readers[j].window[1].stamp
          \/ readers[i].window[1].stamp = readers[j].window[1].stamp /\ i <= j

Popped(i) ==
    LET spent == [readers[i] EXCEPT !.window = Tail(@)]
    IN  [readers EXCEPT ![i] = refill(spent, merge_window_samples(Len(readers)))]

\* Too many runs for one merge: reduce them, fan_in at a time.
ReduceBegin ==
    /\ pc = "spill" /\ rest = <<>> /\ Len(runs) > fan_in
    /\ spans' = After(runs, fan_in)
    /\ readers' = merge_runs(First(runs, fan_in))
    /\ next' = <<>> /\ merged' = <<>>
    /\ pc' = "reduce"
    /\ UNCHANGED <<input, failure, survey, groups, buffers, edge, rest, runs, pending, arena,
                   duplicates>>

ReduceNext ==
    /\ pc = "reduce"
    /\ \E i \in DOMAIN readers :
          /\ Least(i)
          /\ merged' = Append(merged, readers[i].window[1])
          /\ readers' = Popped(i)
    /\ UNCHANGED <<input, pc, failure, survey, groups, buffers, edge, rest, runs, spans, next,
                   pending, arena, duplicates>>

\* The chunk is merged; after the last one the output is the file.
ReduceEnd ==
    /\ pc = "reduce"
    /\ \A i \in DOMAIN readers : readers[i].window = <<>>
    /\ merged' = <<>>
    /\ \/ /\ spans # <<>>
          /\ next' = Append(next, merged)
          /\ readers' = merge_runs(First(spans, fan_in))
          /\ spans' = After(spans, fan_in)
          /\ UNCHANGED <<runs, pc>>
       \/ /\ spans = <<>>
          /\ runs' = Append(next, merged)
          /\ next' = <<>> /\ readers' = <<>>
          /\ pc' = "spill"
          /\ UNCHANGED spans
    /\ UNCHANGED <<input, failure, survey, groups, buffers, edge, rest, pending, arena, duplicates>>

MergeBegin ==
    /\ pc = "spill" /\ rest = <<>> /\ Len(runs) <= fan_in
    /\ readers' = merge_runs(runs)
    /\ pc' = "merge"
    /\ UNCHANGED <<input, failure, survey, groups, buffers, edge, rest, runs, spans, next, merged,
                   pending, arena, duplicates>>

\* The ring refuses a sample that is older than its newest.
Refused == arena[edge] # <<>> /\ pending.stamp < Last(arena[edge]).stamp
Push    == arena' = [arena EXCEPT ![edge] = Append(@, pending)]

\* A sample is held back until the next one shows that it is no duplicate.
MergeNext ==
    /\ pc = "merge"
    /\ \E i \in DOMAIN readers :
          LET s == readers[i].window[1] IN
          /\ Least(i)
          /\ readers' = Popped(i)
          /\ pending' = s
          /\ \/ /\ pending = None
                /\ UNCHANGED <<pc, failure, arena, duplicates>>
             \/ /\ pending # None /\ pending.stamp = s.stamp
                /\ duplicates' = duplicates + 1
                /\ UNCHANGED <<pc, failure, arena>>
             \/ /\ pending # None /\ pending.stamp # s.stamp
                /\ IF Refused THEN Fail("Push") /\ UNCHANGED arena
                   ELSE Push /\ UNCHANGED <<pc, failure>>
                /\ UNCHANGED duplicates
    /\ UNCHANGED <<input, survey, groups, buffers, edge, rest, runs, spans, next, merged>>

MergeEnd ==
    /\ pc = "merge"
    /\ \A i \in DOMAIN readers : readers[i].window = <<>>
    /\ runs' = <<>> /\ readers' = <<>> /\ pending' = None /\ edge' = None
    /\ IF Refused THEN Fail("Push") /\ UNCHANGED arena
       ELSE Push /\ pc' = "groups" /\ UNCHANGED failure
    /\ UNCHANGED <<input, survey, groups, buffers, rest, spans, next, merged, duplicates>>

\* A run file cannot be created, written or read back.
SpillFails ==
    /\ pc \in {"spill", "reduce", "merge"}
    /\ Fail("Spill")
    /\ UNCHANGED <<input, survey, groups, buffers, spill, arena, duplicates>>

-----------------------------------------------------------------------------
Spill == \/ SpillRun \/ ReduceBegin \/ ReduceNext \/ ReduceEnd
         \/ MergeBegin \/ MergeNext \/ MergeEnd

Next ==
    \/ SurveyRecord \/ SurveyEnd
    \/ NextGroup \/ (\E e \in DOMAIN buffers : SortAndPush(e))
    \/ Spill \/ SpillFails

Spec == Init /\ [][Next]_vars

\* The ingest is one thread, which keeps running.
FairSpec == Spec /\ WF_vars(Next)

-----------------------------------------------------------------------------
(* Properties. *)

\* What an edge should be filled with: each stamp once, in order, with the pose
\* of its last occurrence in the recording.
Reference(e) ==
    LET stamps == Ascending({recording[i].stamp : i \in Kept(e)}) IN
    [k \in DOMAIN stamps |->
        [stamp |-> stamps[k],
         pose  |-> Max({i \in Kept(e) : recording[i].stamp = stamps[k]})]]

\* Pass two fills every edge with the sorted, collapsed samples of the
\* recording and nothing else, whether it went through memory, through one
\* merge or through reduces before it, and never offers a ring a stamp it
\* refuses (fill, fill_spilled, Merger).
FilledRight ==
    /\ \A e \in Edges : IsPrefix(arena[e], Reference(e))
    /\ pc = "done" => \A e \in Edges : arena[e] = Reference(e)
    /\ failure # "Push"

\* Bytes of sample buffers that are allocated now: the buffers of a group and
\* the scratch of the sort that may run; a run's buffer, its scratch and the
\* staging; the windows of a merge, the one it decodes into, and the staging of
\* the files that are open.
Resident ==
    LET Windows == (Len(readers) + 1) * merge_window_samples(Len(readers)) * ENCODED IN
    CASE pc = "sort"   -> LET held == [e \in DOMAIN buffers |-> ENCODED * Len(buffers[e])] IN
                          SumFunction(held) + Max(Range(held))
      [] pc = "spill"  -> 2 * ENCODED * spill_budget + staging
      [] pc = "reduce" -> Windows + 2 * staging
      [] pc = "merge"  -> Windows + staging
      [] OTHER         -> 0

\* No phase of pass two, whatever the sizes of the edges, holds more than
\* --max-memory or its floor (plan_groups' reserve; spill_budget, fan_in and
\* merge_window_samples).
WithinCap == Resident <= cap

\* Pass two never pushes into a full ring, since pass one counted every sample
\* that pass two reads (survey, fill); and a lookup reaches all that was pushed
\* (buffer.rs, retained) except where pass one counted as many samples as the
\* ring has slots, 2, 4, 8, ...: there, and nowhere else, the oldest sample is
\* lost. docs/PHASE5.md:133 knows no such exception ("exact per-edge capacities
\* from a counting pass, so there is no wrap").
NoLap ==
    \A e \in Edges :
        \/ Len(arena[e]) <= retained(Slots(e))
        \/ Len(arena[e]) = Slots(e) /\ Slots(e) = edges[e].samples

\* An ingest ends, however many runs must be reduced (fill_spilled).
Ends == <>(pc \in {"done", "failed"})
=============================================================================

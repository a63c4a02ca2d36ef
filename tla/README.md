# TLA+ models of tf_tree

tf_tree stores time-stamped poses between named frames and answers "where was
frame A relative to frame B at time t". Its data lives in an *arena*: heap
memory of one process, or a memfd that any number of processes map. Readers take
no locks and store nothing; writers publish with seqlocks; everything that
coordinates processes is an atomic word in the arena plus a byte-range lock (an
OFD lock) in a lock file, by which the kernel tells the living from the dead.

This directory models that core, checks it with TLC on small instances, and
proves the most important properties with TLAPS for every instance.

## 1. Inventory

| component | state | operations | what is hard | what makes it correct |
|---|---|---|---|---|
| **sample ring** (`tf_tree_core/buffer.rs`) | `head`, `heartbeat`, and per slot a stamp, a `seq`, seven payload words | `push`, `read_slot` | readers race the writer word by word; the writer laps them; writers are SIGKILLed between stores | the retained window is intact at every moment; a pose is never torn |
| **lookups** (`tf_tree_core/sample.rs`) | none shared; a cursor per caller | `sample`, `sample_from`, `sample_with_twist(_from)` | a binary or galloping search over stamps that change under it; three extrapolation policies; zero-length segments | a success is the answer of one state of the ring; failures only when the ring moved |
| **edge claims** (`tf_tree_core/edge.rs`, `tf_tree/tree.rs`) | `owner` word and `epoch` per edge, one lease byte per edge | `Tree::claim`, `EdgeWriter::push`, drop, `reap_dead`, the owner's hangup callback | two sources of truth taken and given up in separate steps; reapers racing claimers; kills anywhere; threads sharing an OFD description | one writer per edge; a dead writer's edge becomes free |
| **participants** (`tf_tree_core/participant.rs`, `tf_tree/open.rs`) | a state word (free, reserved, live + incarnation) and an identity per slot, one lock byte per slot, the owner's `granted` mask | `register`, `register_at`, `release`, `reclaim`; the owner's assigner and hangup callback | reclaiming by compare-exchange on an observed word (ABA on RESERVED); several owners' views of one slot | a slot has one living occupant; a verdict of death never hits a living record |
| **topology** (`tf_tree_core/topology.rs`, `Tree::reparent`) | `TOPO_BLOCKS` = 4 blocks of parent/edge/depth rows, one word with the generation and the active block, a lock word, a lock byte | `set_parent`, `read_frame`, `TopoLockView::acquire` | readers load a row while blocks are refilled and swapped; a mutator dies holding the lock word, whose slot is handed to a new process | a row comes from one generation; the graph stays a forest; the lock does not wedge |
| **frame names** (`tf_tree_core/frame.rs`) | open-addressing table: hash, id, owner of an unfinished entry | `intern_core`, `find_core` | an interner dies between the hash and the id; two interners of one name; takeover of an unfinished entry | one id per name, every name resolvable |
| **rendezvous** (`tf_tree_ipc/open.rs`, `rendezvous.rs`, `server.rs`, `client.rs`, `lockfile.rs`) | ownership byte, participant bytes, socket path | `open`, `take_over_ownership`, hello, `inherit_ownership`, drop of a tree | several processes create or take over at once; the owner dies while a client waits; the split-brain check | only the owner serves; whoever creates is alone; a survivor does not stay without an owner |
| **plans and cache** (`tf_tree_core/plan.rs`, `tf_tree/cache.rs`) | a compiled route and the generation it was compiled against | `Tree::lookup`, `Tree::plan`, `Plan::at`, `Plan::at_many` | a route is compiled out of rows of which each is read alone; cached under a generation that may not be the plan's | a route, or a refusal, is that of one forest; a stale plan is refused |
| **ROS bridge** (`tf_tree_bridge`, `tf_tree_c/bridge.rs`, `ros/tf_tree_ros`) | per-edge authority and clock mark, offset rows per publisher, static conflicts, counters, a mailbox for a reported jump, a latch | `Ingest::offer`, `note_time_jump`, `close_startup_window`, the loop of `BridgeHandle` | clock jumps, several publishers of one edge, identities that are shared, late messages, a report racing a message | a jump is noticed, none is imagined while messages are handled in time, nothing is written behind one; the ledger balances |
| **arena layout, frozen files, CBOR** (`tf_tree_arena`, `frozen.rs`, `cbor.rs`) | immutable offsets and headers | layout, validation, mapping | arithmetic | sequential, tested exhaustively in the repository |
| **arithmetic** (`tf_tree_math`) | none | poses, interpolation, twists | floating point | out of TLC's reach |
| **bag ingestion** (`tf_tree_ingest`) | per-edge counts, groups of edges, buffers, run files | `survey`, `plan_groups`, `fill`, `fill_spilled` | an edge that does not fit the memory cap; equal stamps across runs and reduces; rings sized in one pass and filled in another | every edge holds its samples in order, the last of equal stamps; the cap is kept |
| **tools and bindings** (`tf_tree_cli`, `tf_tree_c`, `tf_tree_py`, `tf_tree_tf2_sys`, `tf_tree_bench`, `xtask`) | none of their own that the engine reads | forward to the above | – | – |

How they interact: a process *opens* the arena through the rendezvous, which
gives it a participant slot and its lock byte; it *claims* edges with that slot,
and the claim is what makes its pushes into the *sample ring* the only ones; a
*plan* walks the *topology* and performs one lookup per edge; the owner's serving
thread learns of a death from a socket hangup and *reaps* claims and the
participant record, and so may any participant with `reap_dead`.

`PROJECT.json` lists the components with their status, the hazards at the lines
where they bite, the correspondence of definitions to source lines, and the
disagreements between the code and its documentation that the runs show.

## 2. Modules

| module | content |
|---|---|
| `SampleLookup` | what a lookup *means*: the retained window of a head value, the forms of a result, and `Answers(log, q, n, r)`, "the first n published samples answer request q with r" |
| `SampleLog` | abstract specification: an append-only log and a reader whose lookup is answered from one state of it, or fails because the log has grown |
| `SampleRing` | `push`, `read_slot` and the searches, one step per atomic access; refines `SampleLog` |
| `SampleRingInv` | the inductive invariant of `SampleRing` |
| `SampleRingProofs` | proofs for every capacity, `seq` width, payload size, set of samples and set of requests |
| `MCSampleRing` | small instances for TLC |
| `EdgeClaim` | the claim record, the lease byte, claimers, writers, reapers and kills, for one edge |
| `EdgeClaimProofs` | proofs for any number of processes and threads |
| `MCEdgeClaim` | small instances for TLC |
| `FrameRoute` | forests of frames, the two walks of `topology.rs`, and what the route between two frames *is* |
| `FrameRouteProofs` | what the walks compute, and how routes are cut out of a forest, for any set of frames |
| `ForestLog` | abstract specification: a sequence of forests, and a lookup answered from one of them |
| `Topology` | `reparent`, `set_parent`, `read_frame`, `compile` and the plan cache, step by step; refines `ForestLog` |
| `TopologyProofs` | proofs for any number of processes, slots, frames and blocks |
| `MCTopology` | small instances for TLC |
| `Rendezvous` | lock file, attach socket, participant table, serving thread, opening, inheriting, leaving and kills |
| `RendezvousProofs` | proofs for any number of processes, slots, arenas and kills |
| `MCRendezvous` | small instances for TLC |
| `FrameNames` | abstract specification: every name gets one id, for good |
| `FrameIntern` | `intern_core`, `find_core` and what they call, one step per atomic access; refines `FrameNames` |
| `FrameInternProofs` | proofs for any threads, names, hashes, table and capacity |
| `MCFrameIntern` | small instances for TLC |
| `Bridge` | the ingest pipeline of the ROS bridge behind its C seam, its mailbox, and the network and clocks around it |
| `BridgeProofs` | proofs for any publishers, traffic and thresholds |
| `MCBridge` | small instances for TLC |
| `BagIngest` | the two passes over a recording, grouping, spilling, reducing and merging, with their budgets |
| `BagIngestProofs` | proofs for any recording, memory cap and size of a sample |
| `MCBagIngest` | small instances for TLC |

Definitions called a *fault* in their comment are not part of any specification:
each is the plausible mistake next to the definition it stands before, and shows
that a property notices it.

### SampleRing

*State.* The arena words of one edge (`head`, `heartbeat`, `stamps`, `seq`,
`data`); the writer's locals (`wpc`, `wh`, `wsample`, `wodd`, `wtodo`); the
reader's arguments and locals (`rpc`, `req`, `h`, `tOld`, ...); history (`log`,
`crashes`). Readers store nothing to shared memory, so one reader stands for all.

*Actions.* `PushBegin` to `PushBeat` are the statements of `push` in order;
the payload stores between the Release fence and the even `seq` store are
Relaxed and happen in any order (`wtodo`), as do the payload loads of `read_slot`
(`todo`). `CrashWriter` kills the writer between any two of them; the next writer
starts from the ring as it stands. A lookup is `Invoke`, the three loads that
fix its window, a decision (`OutOfRange`, `NoSegmentInWindow`, `ReadNewest`,
`NewestSegment`, `StartSearch`), the probes of the search, the two stamps, one or
two runs of `read_slot`, and the trailing `Revalidate`. `sample`, `read_from` and
`sample_with_twist_seeking` repeat the same code three times; the model has it
once, and `req.op` and `req.seek` select the differences. The cursor is any index
of the window: `rebase_hint` is followed by a clamp, and no property depends on
which index it yields.

*Data.* A pose is a function from words to values, so a torn pose differs from
every published one. An interpolation is kept symbolic: two poses and the exact
parameter as numerator and denominator. `span_ns` subtracts modulo 2^64 and never
wraps for ordered stamps.

*Memory model.* Steps interleave sequentially consistently, with the relaxed
accesses between two fences unordered. The code's fences justify this for the
properties stated: a stamp or word written by the push of sample `k + Capacity` is
stored after that push's Release fence, which follows the Release store of
`head = k + Capacity`; a reader that saw the word executes an Acquire fence in
`read_slot` before it loads `head` again. The fences synchronise, so the reader
sees a head that tells it `k` was lapped. Orders that only a weaker machine has
(a stale load of `head` at the start, say) are also orders of an earlier start.

### EdgeClaim

*State.* The record (`owner`, `epoch`), the process whose description holds the
lease byte (`byte`), each thread's position and epoch (`pc`, `mine`), each
reaper's position (`rpc`; `None` is the owner's serving thread, which has its own
lock-file description), pending hangups (`hup`), history (`lost`, `crashes`).

*Actions.* `ClaimCas`, `ClaimBump`, `ClaimStore` are `edge::claim`; `TakeLease` and
`VerifyEpoch` are `take_claim_lease` with its three ways of backing out; `PushCheck`
is the epoch check of `Publisher::push`, after which the thread is inside
`SampleRing::push` until `PushDone`; `DropWriter`, `Release`, `Unlock` are the drop of
an `EdgeWriter`. `ReapDeadLoad` or `HangupLoad`, then `ReapProbe`, `ReapBump`,
`ReapClear` are `reap_claims`. `Kill` is the kernel's part: the threads stop, the
byte is freed, the socket hangs up, the slot may be used again.

An owner word is a record `[epoch, slot]`; the 48 bits of epoch in the packed word
are taken as unbounded. Left out: trees without a lock file, forked children,
a failing `fcntl` in the probe (it reads as held), the clock offset.

### Topology

*State.* The packed word (`word`, a record of generation and active block), the
`blocks`, the lock word (`owner`, a slot) and the lock byte (`byte`, a process), the
process a slot's live record names (`record`); each process inside `reparent` (`mpc`,
`move`, `expect`, `edge`, `base`, `todo`); the reader inside `lookup` (`rpc`, `query`,
`key`, `start`, `walk`, `seen`, `row`, `loads`, `tries`, `plan`) and its `cache`; history
(`hist`, the forest of every generation, `holder`, the process that stored the lock
word, `crashes`).

*Actions.* `Reparent` takes the byte; `LockCas` and `Inspect` are
`TopoLockView::acquire` with `finish`; `ReadEdge`; `LoadWord`, `Copy`, `Link`,
`CheckCycle`, `recompute_depths`, `Publish` are `set_parent`; `ReleaseWord` and
`ReleaseByte` are the two guards. `Kill`, `Reclaim`, `Register` are a death, the freeing
of its record and a new process in the slot. A lookup is `Lookup` (key and cache),
`CompileBegin`, for every row `RowBegin`, three `RowLoad`s in any order and one of
`RowTorn`, `RowNewer`, `RowTaken`, and then `CompileEnd`, `StorePlan` or `StoreRefusal`,
`PinGuard`. `RowTaken` contains the turn of `compile`'s three loops that the row allows.

*Abstractions.* The rows of one loop of `set_parent` are stored in any order, each row
in one step; as the reader loads the cells of a row one by one it still mixes old and new cells
in every way. Readers store nothing and the cache is thread-local, so one reader with
one cache slot stands for all. The frames of a lookup are resolved already, and the
evaluation of the plan after `check_generation` is not part of it. Every process has
the lock file; without one (decision 0031) the byte does not exist. A clean detach
leaves neither lock and is left out, as are forked children and a failing `fcntl`.

*Memory model.* Steps interleave sequentially consistently. `set_parent` has a Release
fence before its store of the word, but none before the copy into the next block:
between two mutators the lock word's AcqRel exchange orders the earlier publication
before the later copy, and the model takes a reader that saw a store of that copy to
see that publication too.

### Rendezvous

*State.* The lock file (`own`, `bytes`) and the socket path (`sock`); each arena's
participant records (`word`, `inc`); each process with its arena, slot, incarnation and
position (`pc`, `arena`, `slot`, `mine`, `peer`, `cur`); its serving thread (`spc`, `client`,
`conn`, `obs`) and its sweep (`wpc`, `wslot`, `wobs`).

*Actions.* `Open`, then `Join` (connect, hello, answer, byte, record) or `Create` (ownership
byte, scan of every byte, slot, arena, bind), with the retries between them;
`Accept`, `Assign` and `OnHangup` are the serving thread; `Reap` is `reap_participants`;
`TakeOver` and `BindFails` are `inherit_ownership`; `Leave` is the drop of a tree, field by
field; `Kill` is the kernel's part.

*Abstractions.* A kill closes all descriptors of a process at once, and so does a failed
open: the kernel closes them one by one, but nobody acts on the process in between
except through a byte that is still held, which only delays the others. A client that
gives up before its connection was accepted leaves nothing behind. `CreatePolicy::Always`
skips the check on request and is left out, as are failures of `epoll` and of `fcntl`
that are not contention, forks, and identity records, which are for diagnostics. What
the hangup callback does to *claims* is in `EdgeClaim`.

### FrameIntern

*State.* The table (`hashes`, `ids`, `claiming`), the allocator (`frame_count`), the frame
records (`records`), who counts as alive (`live`), and each thread's position in the probe
loop, in `finish` or in `wait_for_publish`.

*Actions.* One per atomic access, from `Call` to the return of an answer; `Kill`, `Restart` (the
slot has a new occupant) and `Erase` (the record of a living participant is freed, as the
hangup callback can) are what `claimant_alive` may find. Threads of a process share its
slot; an anonymous interner has none. `INTERN_SPIN_LIMIT` only delays and is left out.
Names, hashes, homes and the stored 48 bytes are given functions: the instance has two
names with one hash and two hashes with one home.

### Bridge

*State.* The tables of `Ingest` (authority, static conflicts, offset rows, marks, counters),
the arena's newest stamps, the latch of the C seam, the mailbox, and the environment: the
steady clock, the source's clock, and each publisher's undelivered messages.

*Actions.* `Deliver` is the callback from `drain_time_jump` to the arena write, a whole
handler: the ingest thread is alone on the tables, and the one thing that races it, the
mailbox, is read once, so a report that arrives during a handler is one that arrives
after it. `Publish`, `Tick` and `Jump` are the environment, `DrainTimeJump` is the turn of the loop
without a message, `CloseStartupWindow` the timer.

*Abstractions.* A message carries one transform. A name is declared, undeclared or bad;
remapping, discovery, the caps on what is logged the first time, and the rebuilding of a
bridge after a stop are left out. Stamps are small, so arithmetic does not saturate. Each
configuration (`Modes`) comes with the traffic it is exposed to. A message
waits at most `Delay`; the code reads the clock when the ingest thread reaches the message, so the wait counts as lateness.
In the run `ingest` it stays below the threshold, as it does while the thread keeps up; the run
`stall` lets it exceed the threshold, as it does when the thread sleeps (section 6).

### BagIngest

*State.* The arguments; pass one's counts (`edges`); pass two's groups and buffers; for an
edge that is spilled its samples, runs, the runs a reduce has left and has written, the
open merge (a window and the rest of every run) and the sample held back; what was
pushed (`arena`).

*Actions.* `SurveyRecord` and `SurveyEnd`; `NextGroup` and `SortAndPush`; `SpillRun`,
`ReduceBegin`, `ReduceNext`, `ReduceEnd`, `MergeBegin`, `MergeNext`, `MergeEnd`, and `SpillFails` wherever a
file is touched.

*Abstractions.* A recording is the sequence of its transforms and does not change between
the passes; chunks, decoding, name normalization and the report's counters are left out. The pose of a
transform is its place in the recording, which tells equal stamps apart. `Build` errors
(no forest, too large) may happen or not. In memory, samples are pushed in sorted order
and the ring has nothing to refuse; in a merge the refusal is modelled. The budgets are those
of the code; the run has samples of one byte and a floor (`MIN_CAP`) of five samples instead of
sixteen. Five is the least at which the windows and two staging buffers of one byte fit, and
with it nine samples need two reduces. For longer samples five are not enough: with three bytes and a cap of 16 a reduce has
four windows and two staging buffers, 18 bytes. `FloorAssumption` asks for eight, half of the code's floor.

## 3. Runs

| run | instance | shows |
|---|---|---|
| `ring_lap` | 2 slots, 2 words, 2 stamps x 2 poses, 4 requests, 1 kill | retained window intact, stamps ordered, no torn pose, refinement of `SampleLog`, every lookup returns |
| `ring_answers` | 4 slots, spread stamps, both searches, every policy, 1 kill | a success is the answer of the log at the load of `head`; an undisturbed lookup is exact |
| `claims` | 2 processes, 2 kills, participants that sweep | one writer, the reaper's inference, the byte is returned, stale claims are freed |
| `topology_moves` | 2 processes, 2 slots, 3 frames in a chain, 2 blocks, 3 moves, 1 kill | active block intact, a forest, the lock byte, whole rows, refinement of `ForestLog`, every lookup returns |
| `members` | 3 processes (2 that create, 1 read-only), 2 slots, 4 opens, 1 kill | one occupant per slot, only the owner serves, the creator's check, verdicts only on the dead, somebody serves again |
| `interning` | 3 threads (one anonymous), a table of 4 entries, 1 id, 3 calls, 1 kill, 1 restart, 1 erased record | one entry per hash, capacity, refinement of `FrameNames`, calls return |
| `ingest` | 3 endpoints (one without a GID), 2 dynamic edges and 1 static, 3 configurations, 4 messages, 1 jump | ledger, ring never refuses, jumps noticed, and not imagined while waits stay within the threshold, strict startup, nothing behind a jump, reports applied |
| `bag_fill` | every recording of up to 3 records; 6 of two edges; 9 of one edge; 2 memory caps | right content, memory cap, no ring lapped and no sample out of reach of lookups with the one exception of section 6, termination |
| `claim_crowded`, `split_brain`, `intern_lost`, `stall` | | disagreements, section 6 |

*Bounds.* `MaxHead` is large enough for the writer to go round the ring and lap a
reader that has just loaded `head`, at every position of the reader; the searches
need three or more retained samples to take both branches, hence four slots there.
`SeqModulus` is 8 in `ring_lap`, where it does not wrap within `MaxHead` pushes, and 4 in
`ring_answers`, where it does; see section 4. `MaxEpoch` bounds the claims that *begin*; two are needed for a claimer, a
reap and a second claimer. One kill reaches every half-finished state, the second
one in `claims` kills the reaper of the first. The runs of EdgeClaim do not
check deadlock: once the last epoch is used up nobody has anything to do. In
`topology_moves` two blocks rather than four make the writer come round fastest: two
reparents refill the block a reader is in. `MaxGeneration` = 4 allows two publications
after the two of the build, and with `RetryLimit` = 2 a reader can be torn until it
gives up. The three moves are one that always succeeds, one that is a cycle unless
the first came before it, and one of the root, which has no edge. `MaxPath` = 1 makes
the same pair of frames a route in one forest and `TreeTooDeep` in another, so that
refusals are cached and must be of one forest; `Disconnected` and `MissingEdge` do not
occur there, since `reparent` never detaches a frame. Deadlock is not checked: the last
processes may have been killed.

In `members` two slots for three processes make the owner run out of slots, and four opens
let a process come back after it left or was killed and meet what it left behind; the second arena is needed for
a creation after everybody is gone. In `interning` a capacity of one id with three names makes the
allocator overrun, and the table of four entries is the smallest the code allows for it. In
`ingest` the tables hold two publishers of three, so that the interner's cap is met; the
window of the offset rung is two ticks and a jump four times the threshold. A message waits up to one tick there, half of
the threshold: with waits of two ticks two publishers can see steps of one jump that are further apart than
the tolerance, and `JumpNoticed` would promise too much. That no jump is imagined up to the full threshold is proved
(`ClockTrustedHolds`); `stall` has waits of three ticks, no jumps and two publishers that are never late. In `bag_fill` the cap of 5 spills every
edge of three samples or more and merges two runs at a time, so nine samples take two reduces, and the cap of 8
puts two edges into one group or not. None of these runs checks deadlock: openers, calls, messages
and recordings are used up.

*Fairness.* `FairSpec` of SampleRing is weak fairness of the reader's own steps: a
thread that runs finishes its lookup. Nothing is assumed of the writer, so a slot
that stays odd for ever is covered. `SweepSpec` of EdgeClaim assumes that a thread
inside claim, push, drop or a reap keeps running, that the owner's serving
thread handles every hangup (its epoll loop does) and that participants
call `reap_dead` again and again, which docs/PHASE2.md 3.9 asks of them. Nobody has to
claim, to push again or to drop a writer. `FairSpec` of
Topology is weak fairness of the steps inside a lookup; mutators may stop anywhere.
`compile` restarts without limit, so a lookup returns only because `MaxGeneration`
bounds the reparents: the property says that it does once the topology is at rest.
`FairSpec` of Rendezvous assumes that threads keep running, that survivors poll
`owner_lost` and inherit (the documentation asks it of them), that an opener's deadline
passes and that a bind that is tried again and again succeeds at last; the last two need strong fairness, because
what they wait for comes and goes. `FairSpec` of FrameIntern is weak fairness of the
threads that are not killed, that of Bridge of the turn of the ingest loop that looks at the mailbox, which it
does at least every 50 ms, and that of BagIngest of its one thread.

## 4. Proofs

All theorems hold for every value of the constants that the assumptions named in the modules
allow. Where a theorem has a hypothesis of its own, it is given here.

### SampleRingProofs

* `TypeCorrect`, `RetainedIntactHolds`, `StampsOrderedHolds`;
* `SampleSoundHolds`: a successful lookup answers from the log as it was at its load
  of `head`;
* `SampleExactHolds`: a lookup during which nothing was published is exact;
* `SlotReadWholeHolds`: `read_slot` never returns words of two poses;
* `RingImplementsLog`: the ring refines `SampleLog`.

None of these is inductive. The invariant `IInv` adds what the writer has done to
the slot it fills (`WriterInv`), that every sample that is not *lapped* is in its
slot (`RingInv`; `Lapped(k)` is `head >= k + Capacity`), and what the reader knows:
everything it has loaded for a sample is right *or that sample has been lapped*.
This conditional form is stable under the writer's steps, because lapping is
permanent and runs in index order. A search that was misled by an overwritten stamp
went to lower indices, which were lapped before, so the revalidation of the lower
index `i` at the end settles everything: the bracket, both stamps and both poses.
The comment at the head of `sample.rs` fears that such a search may return a blend of
samples that do not bracket the request; the theorem shows that the revalidation
excludes it. It holds for every even `SeqModulus`: even if `seq` wraps, a wrapped
slot belongs to a lapped sample. Assumptions: `Capacity >= 2` (a one-slot ring is out
of contract), an even modulus, at least one attempt in `read_slot`.

`SlotReadWhole` is about `read_slot` alone, without the revalidation, and there the width
of `seq` matters: with a modulus as small as the number of laps TLC finds the torn pose
that a wrapped `seq` admits. The hypothesis of the theorem is `Near`: twice the pushes since
the lookup loaded `head` and the kills since the ring was made, and two more, stay below the modulus, which for
the code's 32 bits is two thousand million pushes during one lookup. The invariants `WholeInv` and `ReadInv` follow
a slot's `seq` by the number of stores to it since the reader's first load: the words in hand
are those of one pose, or `seq` has moved by more than nothing and less than the modulus.

### EdgeClaimProofs

`TypeCorrect`, and, *if no two
threads of a process claim the edge* (`Injective`), `SinglePusherHolds`,
`HeldRecordFreeByteHolds` and `ByteReturnedHolds`. The invariant adds `LeaseInv` (who
has passed `TakeLease` and has not unlocked holds the byte) and `WordInv` (a word with
a participant's slot belongs to a thread that will release it, or to a killed one).
Exclusion comes from the byte alone: the record may be revoked under a live writer
by a reaper that paused between its probe and its reap, and the epoch check does not close the window before the ring.
The hypothesis is necessary, as `claim_crowded` shows.

### FrameRouteProofs and TopologyProofs

`TypeCorrect`, `ActiveIntactHolds`, `ByteMeansDeadHolds` and `RowWholeHolds` hold for two or more
blocks. The invariant adds `LockInv` (the byte is held from the first step of `reparent` to the last,
the word in between, and a taken word's holder has it or is dead), `FillInv` (how far the
next block has become the forest to be published: which rows are copied, linked, and have
their depth) and `ReaderInv` (a cell that was loaded is the active block's *as long as
the word has not moved*). `FillInv` needs exclusion, which is the byte's; the word only
matters to a peer that finds it taken. `ActiveIntact` survives every store since the next
block is never the active one, and `Publish` keeps it since `FillInv` says that the block
is complete. `RowWhole` then needs no bound on generations: `Publish` makes the word
differ from every word seen before, as generations only grow.

`PublishedForestHolds` and `TopologyImplementsForestLog` have the hypothesis
`Rooted(Built[BuildSteps])`: the arena was built as a forest with an edge on every link. It is a
hypothesis and not an assumption of the module because building is outside the model
(`Tree::build` makes every link with `set_parent` as well).

*The forest stays one* (`PublishedForest`). `Acyclic` says that no set of frames has all its
parents inside, a form that carries its own induction: to show that every frame has a property,
look at the set of those that have not. `MoveKeepsAcyclic` concludes from a walk of
`creates_cycle` that ended at a root before it met the child: a set that the move closes
would hold every frame of that walk. `DepthIs` is what `recompute_depths` relies on: a root has
depth 0 and any other frame one more than its parent. `ForestInv` adds that the move about
to be published was checked against the block that is still active.

*A route is a route of one forest* (`ImplementsForestLog`, the refinement). The invariant is `RouteInv`.
While `compile` runs, both ends stand at ancestors of the frames it was asked for, what is in
hand are the edges of the frames that were climbed, and `WalkAt` says that no frame
climbed on one side is above the other: the first loops only climb from the deeper side,
and the last only climbs while the two frames differ at one depth. `EdgesUpAre` turns this into
the definition of a route, which sorts frames by height and knows nothing of loops:
appending the edge of the next frame up extends the list of the longer chain. Where the ends
meet, `MetIsRoute` finds the frames climbed to be those that only one of the two
hangs from, which is `Route`; `TooDeep` and `RootsApart` do it for the refusals. Since `RowTaken`
wants the generation the walk began at, all of it is about one forest, `hist[start]`. `Settled`
says the same of a finished plan, in the cache too, where it was put under the
generation of the *key*; that a plan kept there is of a later generation is allowed, and is why
`PinGuard` compares the plan's own. `LookupRefines` and `MutatorRefines` map every step to one
of `ForestLog` or to a stutter, and the promise of an answer is met with a generation between
the one the lookup began at and the current one.

### RendezvousProofs

`TypesHold`, `OneOccupantHolds`, `ServerIsOwnerHolds`, `CheckedAloneHolds` and the action property
`VerdictOnlyDeadHolds`, without hypotheses. The invariant says that a byte is held from its grant to the
drop of the tree (`Holders`: exclusion of the slots), that the ownership byte is held from the scan to the
drop (`Owners`), and what a client and the thread that answers it know of one another
(`Clients`). `CheckedAlone` comes from `Scans`: a byte that the scan went past was
free, or was taken later. `VerdictOnlyDead` rests on `Verdicts`: between the probe of a byte and the
compare-exchange, the word in hand is not a living participant's. A participant that came
after the word was read has a later incarnation, and one that was there held its byte, so that
the probe spared it. The property excepts the hangup callback, which judges by the connection and not by the byte.

### FrameInternProofs

`TypesHold`, `OneEntryHolds`, `CapacityMeansSpentHolds`, `CapacityMeansFullHolds` and the refinement
`InterningImplementsNames`. The invariant says that from a hash's home to its entry every entry
is claimed (`Reached`), and of a probe that the entries behind it are claimed for
other hashes (`Passed`) and that its turns suffice for the table, with the turns that a lost
compare-exchange or a second look costs (`Turns`): two probes for one hash cannot end
in two entries, since the later one would have had to go past the earlier one's.
`Distinct` (an id is in one hand or one entry), `Written` (a record is complete before its id is
published) and `Known` (a value that was there when a call began is still there) give the refinement.
`Full` counts the losers of the last id that have not yet undone their `fetch_add`,
so that `CapacityExceeded` is true in spite of the overrun. `CapacityMeansFull` has the hypothesis
that there are no more hashes than entries. Without it a table can fill up with hashes whose
interner failed, and the answer means one or the other: `CapacityMeansSpent`, without
hypothesis.

### BridgeProofs

`BalancedHolds`, `NeverRejectedHolds`, `StrictStopsHolds`, `NothingBehindJumpHolds` for every
configuration: a handler charges exactly one bucket on every path; the guard's mark of an
edge equals the newest stamp of its ring as long as the bridge runs (`Mirrored`).

`ClockTrustedHolds` has no hypothesis; its property is about a bridge that is `Punctual`: the offsets of every *attributed* publisher, with
the time a message waits, span no more than the threshold. Those that share the unattributed identity may be as far apart as
they like, and their row says nothing. The condition is needed, as `stall` shows. `JumpNoticedHolds` assumes `Paced(W)`, which is the same with
a span `W` of at most the threshold, and `Notable(W)`: a jump, less the jitter, exceeds
the threshold, and the steps that two publishers see of it are within the tolerance of one another; and it speaks of the
time before the clock jumps again. The constants of the `ingest` run satisfy both. The
invariant (`Rung`) says of a row that it follows the clock of the last sample heard from its
publisher, and that a step is recorded exactly if that publisher was seen to cross the jump;
messages of one publisher arrive in order, so no row goes back.

### BagIngestProofs

`FilledRightHolds`, `WithinCapHolds` and `NoLapHolds`, without hypotheses. The constants' assumptions are that
a sample has at least one byte, that the staging cap holds a sample, and `FloorAssumption`; the code's
64 bytes, 64 KiB and floor of 16 samples satisfy them. Nothing is assumed of a recording: any length,
any edges, stamps in any order.

*The invariant* (`IInv`) follows the samples of each edge from the recording to its ring.
`Counts` says that pass one has counted what lies behind it. `Shares` says that each edge waits
in one group of the plan, is in a buffer, is the one being spilled, or is filled. What belongs to the spilled
edge is in the runs and in the samples not yet read (`SpillRight`), in the output of the reduce, the
open merge and the runs the reduce has left (`ReduceRight`), or in the readers of the last merge (`MergeRight`),
and those parts together are exactly its samples.

*Why equal stamps come out right.* Samples are ordered by stamp and then by place
(`Precedes`), an order without ties. The code compares stamps only and settles ties by the index of the run;
that this is the same order is what `Chained` provides: each run comes from an earlier part of the
recording than the next, and a reduce keeps it so, since it merges neighbours and writes its outputs in
order. So the top of the heap precedes everything that is left (`PopIs`), also across a
refill, because a window is only empty when nothing is left behind it. The last merge then takes the samples of
the edge in order, and `Collapsed` says that the ring and the sample held back are the last ones
of equal stamps of what it has taken. The held sample is newer than the ring's newest,
hence `Refused` is never true.

*A sort without induction.* The library's induction rules are out of the provers' reach, so the operators' definitions
are met in another way. A finite set in an order without ties is listed by rank, and a list is determined by its order and its
elements (`RanksList`, `SortedUnique`): to know what a sort, a merge or the collapsing of duplicates returns it is
enough to know that the result rises and has the right elements. Where a number or a finite set does need induction, as in the
sum over a group (`SumWithout`), the fold of the plan (`FoldIs`) or the doubling of the ring (`PowerIs`),
it is by the least counterexample.

*The budgets.* `PlanIs` shows that the groups of `plan_groups` partition the edges that have samples,
and that a group in memory fits together with the scratch for the sort of any of its edges. A run,
its scratch and the staging fit by the choice of `spill_budget`. For a merge, `WindowIs` shows that the windows, the one to
decode into included, take no more than three quarters of the cap, and `Budgets` that two staging
buffers fit beside them; this is where the floor is needed.

## 5. Only model-checked

*Liveness.* `LookupReturns` (of the ring and of the topology), `StaleClaimFreed`, `Recovers`, `InternReturns`,
`ReportApplied` and `Ends` are liveness under fairness, which the proof system does not reach.

*Numbers taken as unbounded.* The 56 bits of generation in the topology word, the 48 bits of epoch in a claim and
the incarnations of a participant's record.

## 6. Where code and documentation disagree

Runs that show it:

1. `claim_crowded`: a reaper paused between its probe and its reap revokes a verified live
   writer, and two threads of one process then both write the ring.
2. `split_brain`: an owner that dies between its answer and the client's lock of its byte
   leaves a client that the scan of step 4 does not see; a second arena comes into being.
3. `intern_lost`: a process dies after it recorded its claim of an entry. Its successor in the same slot interns
   the same name, finds the recorded slot, its own, alive and waits for itself: recovery is lost, not delayed.
   The property speaks only of such a waiter; others wait until the slot has been given up, which is the delay
   the documentation admits.
4. `stall`: two publishers send on time, but their messages wait together for longer than the threshold before the
   ingest thread reaches them, for which that thread need only sleep after a failed spin. Both offsets step by the
   same amount, and the bridge halts for a jump although no clock moved.

A fifth is written into a property as its exception: a ring of exactly as many slots as an edge has samples lets lookups
read one sample less, so every edge with 2, 4, 8, ... samples of different stamps loses its oldest one, where
docs/PHASE5.md:133 promises "exact per-edge capacities". `NoLap` says that this is the only case, and
`NoLapHolds` proves it.

Seen while modelling, without a run of their own: a lookup can report `Extrapolation` for a
stamp that was inside the window throughout, when the oldest slot is lapped between the
loads of `head` and `t_old`; a writer killed between the stores of `head` and
`heartbeat` makes the next push fail the debug assertion; the hangup callback does not free
the claim of a process killed while the word was `CLAIMING`; the topology word of a killed
mutator is not taken over while its slot belongs to a new process.

## 7. Plan

Models to come: `EdgeClaim` composed with the writer of `SampleRing`, so that the
single-writer assumption of the ring is discharged by `SinglePusher`; `EdgeClaim` composed with `Rendezvous`, so that slots are
granted again by an assigner; the evaluation of a plan over several edges under one generation.

## Not modelled

Arithmetic, file formats, CLI, bindings, benchmarks (see `PROJECT.json`). They are most of the
repository's lines: tests, measurement, presentation and bindings that change no state the engine
decides on. Container parsing, CBOR and the arena layout are sequential and have exhaustive tests of their own.

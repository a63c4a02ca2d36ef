------------------------------- MODULE Topology -------------------------------
(***************************************************************************)
(* The topology of an arena: TOPO_BLOCKS copies of the forest, of which    *)
(* one is active; reparent, which fills the next block and publishes it    *)
(* with one store (tf_tree_core/src/topology.rs); the two locks it takes,  *)
(* a byte of the lock file and then a word in the arena (tf_tree/src/      *)
(* tree.rs, reparent); and Tree::lookup, which compiles a route out of     *)
(* rows it reads without a lock (plan.rs, compile; cache.rs, with_plan).   *)
(*                                                                         *)
(* Every process opened the arena through its lock file: an arena shared   *)
(* without one has a single process, or is out of contract (0031).         *)
(***************************************************************************)
EXTENDS FrameRoute, Sequences

CONSTANTS
    Procs,         \* processes, each of which reparents
    Slots,         \* participant slots
    Creator,       \* the process that created the arena,
    CreatorSlot,   \*   and its slot
    None,          \* no process, no slot
    Blocks,        \* TOPO_BLOCKS
    RetryLimit,    \* TOPO_RETRY_LIMIT
    Moves,         \* [child, parent]: what reparent is asked
    Queries,       \* [target, source]: what a lookup is asked
    BuildSteps,    \* how many edges the arena was built with
    Built,         \* the forests that building it went through
    MaxGeneration, \* bound: no reparent begins at or beyond this generation
    MaxCrashes     \* bound on the number of kills

ASSUME TopologyAssumption ==
    /\ None \notin Procs \cup Slots
    /\ Creator \in Procs /\ CreatorSlot \in Slots
    /\ Blocks \in Nat /\ Blocks >= 2
    /\ RetryLimit \in Nat \ {0}
    /\ Moves \subseteq [child : Frames, parent : Frames]
    /\ Queries \subseteq [target : Frames, source : Frames]
    /\ BuildSteps \in Nat
    /\ Built \in [0 .. BuildSteps -> Forests]
    /\ MaxGeneration \in Nat /\ MaxCrashes \in Nat

VARIABLES
    word, blocks,              \* the packed topology word and the blocks
    owner, byte,               \* the lock word (a slot) and the lock byte (a process)
    record,                    \* the process a slot's LIVE participant record names
    mpc, slot, move, expect,   \* a process inside reparent: program counter, own slot,
    edge, base, todo,          \*   arguments, lock word expected, edge reused, topology
                               \*   word loaded, rows still to be stored
    rpc, query, key, start,    \* the reader inside lookup: program counter, arguments,
    walk, seen, row, loads,    \*   the generation of its key, the generation compile began
    tries, plan, cache,        \*   at, its walk, the row being read, what it got
    hist, holder, crashes      \* history: forests, the process that stored the lock word

arena    == <<word, blocks>>
locks    == <<owner, byte>>
mutators == <<mpc, slot, move, expect, edge, base, todo>>
reader   == <<rpc, query, key, start, walk, seen, row, loads, tries, plan, cache>>
vars     == <<arena, locks, record, mutators, reader, hist, holder, crashes>>

-------------------------------------------------------------------------------
(* Words, blocks and rows. *)

pack_topo(g, b) == [generation |-> g, active |-> b]
generation == word.generation

Fields == {"parent", "edge", "depth"}

\* A block that holds a forest.
BlockOf(forest) ==
    [parent |-> forest.parent, edge |-> forest.edge,
     depth |-> [f \in Frames |-> depth_of(forest.parent, f)]]

FirstWord == pack_topo(BuildSteps, BuildSteps % Blocks)

\* What building left in block b: the last forest stored there, or the empty one.
BuiltBlock(b) ==
    LET ago == (FirstWord.active + Blocks - b) % Blocks IN
    BlockOf(Built[IF ago <= BuildSteps THEN BuildSteps - ago ELSE 0])

Rows   == [parent : Frames \cup {NoFrame}, edge : Nat, depth : Nat]
NoRow  == [parent |-> NoFrame, edge |-> NoEdge, depth |-> 0]
RowOf(block, f) == [parent |-> block.parent[f], edge |-> block.edge[f], depth |-> block.depth[f]]

NoMove  == [child |-> NoFrame, parent |-> NoFrame]
NoQuery == [target |-> NoFrame, source |-> NoFrame]

\* compile's locals.  Side 1 climbs from the target, side 2 from the source;
\* want is the set of sides whose row is still to be read, side 1 first.
Sides == {1, 2}
WalkFrom(q) ==
    [at |-> [i \in Sides |-> IF i = 1 THEN q.target ELSE q.source],
     row |-> [i \in Sides |-> NoRow], want |-> Sides, loop |-> "target",
     path |-> [i \in Sides |-> <<>>]]
NoWalk == WalkFrom(NoQuery)

NoPlan == [generation |-> 0, result |-> Refused("none")]

Init ==
    /\ word = FirstWord
    /\ blocks = [b \in 0 .. Blocks - 1 |-> BuiltBlock(b)]
    /\ owner = None /\ byte = None
    /\ record = [s \in Slots |-> IF s = CreatorSlot THEN Creator ELSE None]
    /\ mpc = [p \in Procs |-> IF p = Creator THEN "idle" ELSE "new"]
    /\ slot = [p \in Procs |-> IF p = Creator THEN CreatorSlot ELSE None]
    /\ move = [p \in Procs |-> NoMove]
    /\ expect = [p \in Procs |-> None]
    /\ edge = [p \in Procs |-> NoEdge]
    /\ base = [p \in Procs |-> FirstWord]
    /\ todo = [p \in Procs |-> {}]
    /\ rpc = "idle" /\ query = NoQuery /\ key = BuildSteps /\ start = BuildSteps
    /\ walk = NoWalk /\ seen = FirstWord /\ row = NoRow /\ loads = {} /\ tries = 0
    /\ plan = NoPlan /\ cache = [query |-> NoQuery, key |-> BuildSteps, plan |-> NoPlan]
    /\ hist = Built
    /\ holder = None /\ crashes = 0

-------------------------------------------------------------------------------
(* Processes come and go; the participant table is abstracted to who a LIVE *)
(* record names.                                                            *)

At(p, l)   == mpc[p] = l
Jump(p, l) == mpc' = [mpc EXCEPT ![p] = l]

\* The locals of reparent are gone.
Forget(p) ==
    /\ move' = [move EXCEPT ![p] = NoMove]
    /\ expect' = [expect EXCEPT ![p] = None]
    /\ edge' = [edge EXCEPT ![p] = NoEdge]
    /\ base' = [base EXCEPT ![p] = FirstWord]
    /\ todo' = [todo EXCEPT ![p] = {}]

\* A process registers in a free slot (register_at).
Register(p, s) ==
    /\ At(p, "new")
    /\ record[s] = None
    /\ record' = [record EXCEPT ![s] = p]
    /\ slot' = [slot EXCEPT ![p] = s]
    /\ Jump(p, "idle")
    /\ UNCHANGED <<arena, locks, move, expect, edge, base, todo, reader, hist, holder, crashes>>

\* SIGKILL: the kernel frees the byte; the word and the half-filled block stay.
Kill(p) ==
    /\ mpc[p] \notin {"new", "dead"}
    /\ crashes < MaxCrashes
    /\ crashes' = crashes + 1
    /\ byte' = IF byte = p THEN None ELSE byte
    /\ Jump(p, "dead")
    /\ Forget(p)
    /\ UNCHANGED <<arena, owner, record, slot, reader, hist, holder>>

\* The record of a dead process is freed, by the owner or by a sweep, and the
\* slot can be granted again.
Reclaim(s) ==
    /\ record[s] # None
    /\ At(record[s], "dead")
    /\ record' = [record EXCEPT ![s] = None]
    /\ UNCHANGED <<arena, locks, mutators, reader, hist, holder, crashes>>

\* The /proc predicate, about whoever has the slot now.
participant_is_alive(s) == record[s] # None /\ ~At(record[s], "dead")

-------------------------------------------------------------------------------
(* Tree::reparent: the byte, then the word. *)

\* The byte is granted, or, after TOPO_BYTE_ATTEMPTS refusals or an fcntl error,
\* reparent gives up and has changed nothing.
Reparent(p, m) ==
    /\ At(p, "idle")
    /\ generation < MaxGeneration
    /\ byte = None
    /\ byte' = p
    /\ move' = [move EXCEPT ![p] = m]
    /\ Jump(p, "spin")
    /\ UNCHANGED <<arena, owner, record, slot, expect, edge, base, todo, reader, hist, holder, crashes>>

\* TopoLockView::acquire: the compare-exchange from the expected word, free
\* while spinning and in finish, the dead holder's when stealing.  Out of spins,
\* the word is inspected; a failed last one is Contended.
LockCas(p) ==
    /\ mpc[p] \in {"spin", "settle"}
    /\ IF owner = expect[p]
       THEN /\ owner' = slot[p]
            /\ holder' = p
            /\ Jump(p, "edge")
       ELSE /\ UNCHANGED <<owner, holder>>
            /\ Jump(p, IF At(p, "spin") THEN "inspect" ELSE "refused")
    /\ UNCHANGED <<arena, byte, record, slot, move, expect, edge, base, todo, reader, hist, crashes>>

\* Whose word is it?  One's own slot, or a slot somebody lives in, is Contended.
Inspect(p) ==
    /\ At(p, "inspect")
    /\ expect' = [expect EXCEPT ![p] = owner]
    /\ Jump(p, IF owner # None /\ (owner = slot[p] \/ participant_is_alive(owner))
               THEN "refused" ELSE "settle")
    /\ UNCHANGED <<arena, locks, record, slot, move, edge, base, todo, reader, hist, holder, crashes>>

\* read_frame(child) under both locks, for the edge to reuse.
ReadEdge(p) ==
    LET e == blocks[word.active].edge[move[p].child] IN
    /\ At(p, "edge")
    /\ edge' = [edge EXCEPT ![p] = e]
    /\ Jump(p, IF e = NoEdge THEN "word" ELSE "load")
    /\ UNCHANGED <<arena, locks, record, slot, move, expect, base, todo, reader, hist, holder, crashes>>

-------------------------------------------------------------------------------
(* TopologyView::set_parent.  The stores are relaxed, so the rows of a loop   *)
(* are stored in any order.  The cells of one row are stored in one step: the *)
(* reader loads them one by one in any order and can mix them either way.     *)

NextBlock(w) == (w.active + 1) % Blocks

LoadWord(p) ==
    /\ At(p, "load")
    /\ base' = [base EXCEPT ![p] = word]
    /\ todo' = [todo EXCEPT ![p] = Frames]
    /\ Jump(p, "copy")
    /\ UNCHANGED <<arena, locks, record, slot, move, expect, edge, reader, hist, holder, crashes>>

\* Row f of the next block is stored; after the last one p goes on at l.
StoreRow(p, f, parent, e, depth, l, rest) ==
    LET b == NextBlock(base[p]) IN
    /\ f \in todo[p]
    /\ blocks' = [blocks EXCEPT ![b].parent[f] = parent, ![b].edge[f] = e, ![b].depth[f] = depth]
    /\ IF todo[p] = {f}
       THEN todo' = [todo EXCEPT ![p] = rest] /\ Jump(p, l)
       ELSE todo' = [todo EXCEPT ![p] = @ \ {f}] /\ UNCHANGED mpc
    /\ UNCHANGED <<word, locks, record, slot, move, expect, edge, base, reader, hist, holder, crashes>>

Copy(p) ==
    LET src == blocks[base[p].active]
        dst == blocks[NextBlock(base[p])]
    IN  /\ At(p, "copy")
        /\ \E f \in Frames :
              StoreRow(p, f, src.parent[f], src.edge[f], dst.depth[f], "link", {move[p].child})

Link(p) ==
    LET dst == blocks[NextBlock(base[p])] IN
    /\ At(p, "link")
    /\ \E f \in Frames : StoreRow(p, f, move[p].parent, edge[p], dst.depth[f], "check", {})

\* Fault: only a frame below itself is refused.
CheckSelfLoop(p) ==
    LET cyclic == move[p].child = move[p].parent IN
    /\ At(p, "check")
    /\ todo' = [todo EXCEPT ![p] = IF cyclic THEN {} ELSE Frames]
    /\ Jump(p, IF cyclic THEN "word" ELSE "depth")
    /\ UNCHANGED <<arena, locks, record, slot, move, expect, edge, base, reader, hist, holder, crashes>>

\* A cycle: nothing is published, and nothing has to be undone.
CheckCycle(p) ==
    LET cyclic == creates_cycle(blocks[NextBlock(base[p])].parent, move[p].child) IN
    /\ At(p, "check")
    /\ todo' = [todo EXCEPT ![p] = IF cyclic THEN {} ELSE Frames]
    /\ Jump(p, IF cyclic THEN "word" ELSE "depth")
    /\ UNCHANGED <<arena, locks, record, slot, move, expect, edge, base, reader, hist, holder, crashes>>

\* Fault: only the moved frame gets a new depth.
recompute_child(p) ==
    LET dst == blocks[NextBlock(base[p])] IN
    /\ At(p, "depth")
    /\ \E f \in Frames :
          StoreRow(p, f, dst.parent[f], dst.edge[f],
                   IF f = move[p].child THEN depth_of(dst.parent, f) ELSE dst.depth[f], "publish", {})

recompute_depths(p) ==
    LET dst == blocks[NextBlock(base[p])] IN
    /\ At(p, "depth")
    /\ \E f \in Frames :
          StoreRow(p, f, dst.parent[f], dst.edge[f], depth_of(dst.parent, f), "publish", {})

\* Fault: the published index runs past the last block.
PublishUnwrapped(p) ==
    /\ At(p, "publish")
    /\ word' = pack_topo(base[p].generation + 1, base[p].active + 1)
    /\ hist' = [g \in 0 .. generation + 1 |->
                   IF g = generation + 1
                   THEN Attach(hist[generation], move[p].child, move[p].parent, edge[p])
                   ELSE hist[g]]
    /\ Jump(p, "word")
    /\ UNCHANGED <<blocks, locks, record, slot, move, expect, edge, base, todo, reader, holder, crashes>>

\* The Release store that makes the mutation visible.
Publish(p) ==
    /\ At(p, "publish")
    /\ word' = pack_topo(base[p].generation + 1, NextBlock(base[p]))
    /\ hist' = [g \in 0 .. generation + 1 |->
                   IF g = generation + 1
                   THEN Attach(hist[generation], move[p].child, move[p].parent, edge[p])
                   ELSE hist[g]]
    /\ Jump(p, "word")
    /\ UNCHANGED <<blocks, locks, record, slot, move, expect, edge, base, todo, reader, holder, crashes>>

\* Fault: the compare-exchange that frees the word never matches it.
ReleaseNothing(p) ==
    /\ At(p, "word")
    /\ Jump(p, "unlock")
    /\ UNCHANGED <<arena, locks, record, slot, move, expect, edge, base, todo, reader, hist, holder, crashes>>

\* The guards drop: the word, if it still is one's own, and then the byte.
ReleaseWord(p) ==
    /\ At(p, "word")
    /\ owner' = IF owner = slot[p] THEN None ELSE owner
    /\ Jump(p, "unlock")
    /\ UNCHANGED <<arena, byte, record, slot, move, expect, edge, base, todo, reader, hist, holder, crashes>>

ReleaseByte(p) ==
    /\ mpc[p] \in {"refused", "unlock"}
    /\ byte' = IF byte = p THEN None ELSE byte
    /\ Jump(p, "idle")
    /\ Forget(p)
    /\ UNCHANGED <<arena, owner, record, slot, reader, hist, holder, crashes>>

-------------------------------------------------------------------------------
(* Tree::lookup.  Readers store nothing and each thread has its own cache, so *)
(* one reader stands for all.                                                 *)

\* Fault: the cache is keyed by the frames alone.
LookupAnyGeneration(q) ==
    /\ rpc = "idle"
    /\ query' = q
    /\ key' = generation
    /\ IF cache.query = q
       THEN plan' = cache.plan /\ rpc' = "pin"
       ELSE plan' = NoPlan /\ rpc' = "begin"
    /\ UNCHANGED <<arena, locks, record, mutators, start, walk, seen, row, loads, tries, cache,
                   hist, holder, crashes>>

\* The arguments, the key, and a look into the cache.  One slot of the direct-
\* mapped table is modelled, the one every key of the model falls into: keys in
\* different slots do not meet.
Lookup(q) ==
    /\ rpc = "idle"
    /\ query' = q
    /\ key' = generation
    /\ IF cache.query = q /\ cache.key = generation
       THEN plan' = cache.plan /\ rpc' = "pin"
       ELSE plan' = NoPlan /\ rpc' = "begin"
    /\ UNCHANGED <<arena, locks, record, mutators, start, walk, seen, row, loads, tries, cache,
                   hist, holder, crashes>>

Compiled(g, r) == plan' = [generation |-> g, result |-> r]

\* The entry for the lookup's key, whichever generation the plan was compiled at.
Store == cache' = [query |-> query, key |-> key, plan |-> plan]

\* Fault: a walk that starts over keeps the generation the lookup began at.
CompileBeginAtKey ==
    /\ rpc = "begin"
    /\ start' = key
    /\ walk' = WalkFrom(query)
    /\ IF query.target = query.source
       THEN Compiled(generation, Found(<<>>, <<>>)) /\ rpc' = "store"
       ELSE UNCHANGED plan /\ rpc' = "row"
    /\ tries' = 0
    /\ UNCHANGED <<arena, locks, record, mutators, query, key, seen, row, loads, cache,
                   hist, holder, crashes>>

\* compile: the top of the walk loop, and its shortcut for the identity.
CompileBegin ==
    /\ rpc = "begin"
    /\ start' = generation
    /\ walk' = WalkFrom(query)
    /\ IF query.target = query.source
       THEN Compiled(generation, Found(<<>>, <<>>)) /\ rpc' = "store"
       ELSE UNCHANGED plan /\ rpc' = "row"
    /\ tries' = 0
    /\ UNCHANGED <<arena, locks, record, mutators, query, key, seen, row, loads, cache,
                   hist, holder, crashes>>

\* The side whose row is read now.
Side == IF 1 \in walk.want THEN 1 ELSE 2

\* read_frame: the word, three relaxed loads, the word again.
RowBegin ==
    /\ rpc = "row"
    /\ seen' = word
    /\ loads' = Fields
    /\ row' = NoRow
    /\ rpc' = "loads"
    /\ UNCHANGED <<arena, locks, record, mutators, query, key, start, walk, tries, plan, cache,
                   hist, holder, crashes>>

RowLoad(f) ==
    /\ rpc = "loads"
    /\ f \in loads
    /\ row' = [row EXCEPT ![f] = blocks[seen.active][f][walk.at[Side]]]
    /\ loads' = loads \ {f}
    /\ rpc' = IF loads = {f} THEN "check" ELSE "loads"
    /\ UNCHANGED <<arena, locks, record, mutators, query, key, start, walk, seen, tries, plan, cache,
                   hist, holder, crashes>>

\* Fault: trying again reads the word and not the row.
RowTornWordOnly ==
    /\ rpc = "check"
    /\ word # seen
    /\ seen' = word
    /\ tries' = (tries + 1) % RetryLimit
    /\ IF tries + 1 = RetryLimit
       THEN Compiled(start, Refused("FrameOutOfRange")) /\ rpc' = "refuse"
       ELSE UNCHANGED plan /\ rpc' = "check"
    /\ UNCHANGED <<arena, locks, record, mutators, query, key, start, walk, row, loads, cache,
                   hist, holder, crashes>>

\* The row is torn: try again, or give up and report FrameOutOfRange.
RowTorn ==
    /\ rpc = "check"
    /\ word # seen
    /\ tries' = (tries + 1) % RetryLimit
    /\ IF tries + 1 = RetryLimit
       THEN Compiled(start, Refused("FrameOutOfRange")) /\ rpc' = "refuse"
       ELSE UNCHANGED plan /\ rpc' = "row"
    /\ UNCHANGED <<arena, locks, record, mutators, query, key, start, walk, seen, row, loads, cache,
                   hist, holder, crashes>>

\* The row is whole but of a newer generation than the walk: start over.
RowNewer ==
    /\ rpc = "check"
    /\ word = seen
    /\ seen.generation # start
    /\ rpc' = "begin"
    /\ UNCHANGED <<arena, locks, record, mutators, query, key, start, walk, seen, row, loads, tries,
                   plan, cache, hist, holder, crashes>>

\* Both rows are there: which of compile's three loops is the walk in?
LoopOf(w) ==
    LET t == w.row[1].depth
        s == w.row[2].depth
    IN  IF w.loop = "target" /\ t > s THEN "target"
        ELSE IF w.loop # "both" /\ s > t THEN "source" ELSE "both"

\* One turn of it: what it returns, or the walk with the sides moved up.
Met(w)      == LoopOf(w) = "both" /\ w.at[1] = w.at[2]
Climbing(w) == CASE LoopOf(w) = "target" -> {1}
                 [] LoopOf(w) = "source" -> {2}
                 [] LoopOf(w) = "both"   -> {1, 2}
Climbed(w) == Len(w.path[1]) + Len(w.path[2])
push_edge(w, i, n) ==
    IF n = MaxPath THEN "TreeTooDeep" ELSE IF w.row[i].edge = NoEdge THEN "MissingEdge" ELSE "none"
Refusal(w) ==
    LET root  == \E i \in Climbing(w) : w.row[i].parent = NoFrame
        first == push_edge(w, IF 1 \in Climbing(w) THEN 1 ELSE 2, Climbed(w))
        both  == LoopOf(w) = "both"
    IN  IF both /\ root THEN "Disconnected"
        ELSE IF first # "none" THEN first
        ELSE IF both /\ push_edge(w, 2, Climbed(w) + 1) # "none" THEN push_edge(w, 2, Climbed(w) + 1)
        ELSE IF root THEN "Disconnected" ELSE "none"
MovedUp(w) ==
    [w EXCEPT !.at   = [i \in Sides |-> IF i \in Climbing(w) THEN w.row[i].parent ELSE @[i]],
              !.path = [i \in Sides |-> IF i \in Climbing(w) THEN Append(@[i], w.row[i].edge)
                                                              ELSE @[i]],
              !.loop = LoopOf(w),
              !.want = Climbing(w)]

\* The row is accepted; when it completes a pair of rows, the walk takes a turn.
RowTaken ==
    LET w == [walk EXCEPT !.row[Side] = row, !.want = @ \ {Side}] IN
    /\ rpc = "check"
    /\ word = seen
    /\ seen.generation = start
    /\ tries' = 0
    /\ IF w.want # {}
       THEN walk' = w /\ rpc' = "row" /\ UNCHANGED plan
       ELSE IF Met(w)
       THEN walk' = w /\ rpc' = "end" /\ UNCHANGED plan
       ELSE IF Refusal(w) # "none"
       THEN walk' = w /\ rpc' = "refuse" /\ Compiled(start, Refused(Refusal(w)))
       ELSE walk' = MovedUp(w) /\ rpc' = "row" /\ UNCHANGED plan
    /\ UNCHANGED <<arena, locks, record, mutators, query, key, start, seen, row, loads, cache,
                   hist, holder, crashes>>

\* The walk is complete; its generation is compared once more.
CompileEnd ==
    /\ rpc = "end"
    /\ IF generation = start
       THEN Compiled(start, Found(walk.path[1], walk.path[2])) /\ rpc' = "store"
       ELSE UNCHANGED plan /\ rpc' = "begin"
    /\ UNCHANGED <<arena, locks, record, mutators, query, key, start, walk, seen, row, loads, tries,
                   cache, hist, holder, crashes>>

\* with_plan stores the plan under the key.
StorePlan ==
    /\ rpc = "store"
    /\ Store
    /\ rpc' = "pin"
    /\ UNCHANGED <<arena, locks, record, mutators, query, key, start, walk, seen, row, loads, tries,
                   plan, hist, holder, crashes>>

\* store_refusal: a refusal is kept only if the key's generation still is current.
StoreRefusal ==
    /\ rpc = "refuse"
    /\ IF generation = key THEN Store ELSE UNCHANGED cache
    /\ rpc' = "done"
    /\ UNCHANGED <<arena, locks, record, mutators, query, key, start, walk, seen, row, loads, tries,
                   plan, hist, holder, crashes>>

\* The guard pins the generation, and Plan::at refuses a plan of another one.
PinGuard ==
    /\ rpc = "pin"
    /\ IF plan.result.status = "ok" /\ plan.generation # generation
       THEN Compiled(plan.generation, Refused("TopologyChanged")) ELSE UNCHANGED plan
    /\ rpc' = "done"
    /\ UNCHANGED <<arena, locks, record, mutators, query, key, start, walk, seen, row, loads, tries,
                   cache, hist, holder, crashes>>

\* The caller has its answer; the locals are gone.
Return ==
    /\ rpc = "done"
    /\ rpc' = "idle"
    /\ query' = NoQuery /\ key' = BuildSteps /\ start' = BuildSteps /\ walk' = NoWalk
    /\ seen' = FirstWord /\ row' = NoRow /\ plan' = NoPlan
    /\ UNCHANGED <<arena, locks, record, mutators, loads, tries, cache, hist, holder, crashes>>

-------------------------------------------------------------------------------
Acquire(p)    == LockCas(p) \/ Inspect(p)
set_parent(p) == LoadWord(p) \/ Copy(p) \/ Link(p) \/ CheckCycle(p) \/ recompute_depths(p) \/ Publish(p)
DropGuards(p) == ReleaseWord(p) \/ ReleaseByte(p)
Mutate(p)     == Acquire(p) \/ ReadEdge(p) \/ set_parent(p) \/ DropGuards(p)

read_frame == RowBegin \/ (\E f \in Fields : RowLoad(f)) \/ RowTorn \/ RowNewer \/ RowTaken
compile    == CompileBegin \/ read_frame \/ CompileEnd
with_plan  == compile \/ StorePlan \/ StoreRefusal
Read       == with_plan \/ PinGuard \/ Return

Next ==
    \/ \E p \in Procs :
          \/ \E s \in Slots : Register(p, s)
          \/ \E m \in Moves : Reparent(p, m)
          \/ Mutate(p) \/ Kill(p)
    \/ \E s \in Slots : Reclaim(s)
    \/ \E q \in Queries : Lookup(q)
    \/ Read

Spec == Init /\ [][Next]_vars

\* A thread inside lookup keeps running; nothing is asked of the mutators.
FairSpec == Spec /\ WF_vars(Read)

-------------------------------------------------------------------------------
(* Properties. *)

Words == [generation : Nat, active : 0 .. Blocks - 1]
BlockValues == [parent : [Frames -> Frames \cup {NoFrame}], edge : [Frames -> Nat],
                depth : [Frames -> Nat]]
Walks == [at : [Sides -> Frames \cup {NoFrame}], row : [Sides -> Rows], want : SUBSET Sides,
          loop : {"target", "source", "both"}, path : [Sides -> Seq(Nat)]]
Steps == {"new", "idle", "dead", "spin", "inspect", "settle", "refused", "edge", "load",
          "copy", "link", "check", "depth", "publish", "word", "unlock"}

TypeOK ==
    /\ word \in Words
    /\ blocks \in [0 .. Blocks - 1 -> BlockValues]
    /\ owner \in Slots \cup {None}
    /\ byte \in Procs \cup {None}
    /\ record \in [Slots -> Procs \cup {None}]
    /\ mpc \in [Procs -> Steps]
    /\ slot \in [Procs -> Slots \cup {None}]
    /\ move \in [Procs -> Moves \cup {NoMove}]
    /\ expect \in [Procs -> Slots \cup {None}]
    /\ edge \in [Procs -> Nat]
    /\ base \in [Procs -> Words]
    /\ todo \in [Procs -> SUBSET Frames]
    /\ rpc \in {"idle", "begin", "row", "loads", "check", "end", "store", "refuse", "pin", "done"}
    /\ query \in Queries \cup {NoQuery}
    /\ key \in Nat /\ start \in Nat /\ tries \in Nat
    /\ seen \in Words
    /\ row \in Rows
    /\ loads \subseteq Fields
    /\ walk \in Walks
    /\ hist \in [0 .. generation -> Forests]
    /\ holder \in Procs \cup {None}
    /\ crashes \in Nat

\* Whatever a mutator does, and wherever it is killed, the active block is the
\* forest of the current generation: a dead writer leaves the arena as if it had
\* not begun (topology.rs, set_parent; docs/PHASE2.md A1).
ActiveIntact == blocks[word.active] = BlockOf(hist[generation])

\* What is published is a forest: no frame is its own ancestor, however the moves
\* of several processes follow each other, every frame's depth is one more than
\* its parent's, and every link has its edge.
PublishedForest ==
    LET b == blocks[word.active] IN
    /\ Acyclic(b.parent)
    /\ \A f \in Frames :
          /\ b.depth[f] = IF b.parent[f] = NoFrame THEN 0 ELSE b.depth[b.parent[f]] + 1
          /\ b.parent[f] # NoFrame => b.edge[f] # NoEdge

\* T2 of decision 0029: who holds the byte and does not have the word, yet finds
\* it taken, is looking at a dead process' word.
ByteMeansDead ==
    \A p \in Procs :
        mpc[p] \in {"spin", "inspect", "settle"} /\ owner # None => mpc[holder] = "dead"

\* A row that read_frame is about to accept is the frame's row of the generation
\* it names, also when the block was refilled meanwhile and the word came round.
RowWhole ==
    rpc = "check" /\ word = seen =>
        row = RowOf(BlockOf(hist[seen.generation]), walk.at[Side])

\* The lookup as the caller sees it.
LookupCall ==
    IF rpc = "idle" THEN Idle
    ELSE IF rpc = "done" THEN Answered(query, key, plan.result) ELSE Called(query, key)

Log == INSTANCE ForestLog WITH call <- LookupCall

\* The topology implements an atomic sequence of forests: a lookup, cached or
\* compiled out of rows read one by one while others reparent, answers the route
\* of a forest that was current while it ran (plan.rs, compile; cache.rs).
ImplementsForestLog == Log!LogSpec

\* A lookup returns once nobody reparents any more: compile's walk loop has no
\* limit, so nothing is promised while generations keep coming.
LookupReturns == rpc # "idle" ~> rpc = "idle"

-------------------------------------------------------------------------------
(* The inductive invariant behind the safety properties. *)

InLock(p)  == mpc[p] \notin {"new", "idle", "dead"}
HasWord(p) == mpc[p] \in {"edge", "load", "copy", "link", "check", "depth", "publish", "word"}
Filling(p) == mpc[p] \in {"copy", "link", "check", "depth", "publish"}

\* The byte is held from reparent's first step to its last, the word in between;
\* a taken word has a holder that will free it, or that is dead.
LockInv ==
    /\ \A p \in Procs : mpc[p] # "new" => slot[p] \in Slots
    /\ \A p \in Procs : InLock(p) => byte = p /\ move[p] \in Moves
    /\ \A p \in Procs : HasWord(p) => owner = slot[p] /\ holder = p
    /\ owner # None => holder \in Procs /\ (HasWord(holder) \/ mpc[holder] = "dead")

Linked(src, dst, p) ==
    /\ dst.parent = [src.parent EXCEPT ![move[p].child] = move[p].parent]
    /\ dst.edge = [src.edge EXCEPT ![move[p].child] = edge[p]]

\* How far the next block has become the forest that will be published.
FillAt(p) ==
    LET src == blocks[word.active]
        dst == blocks[NextBlock(word)]
    IN  /\ base[p] = word
        /\ mpc[p] = "copy" => \A f \in Frames \ todo[p] :
              dst.parent[f] = src.parent[f] /\ dst.edge[f] = src.edge[f]
        /\ mpc[p] = "link" =>
              todo[p] = {move[p].child} /\ dst.parent = src.parent /\ dst.edge = src.edge
        /\ mpc[p] \in {"check", "depth", "publish"} => Linked(src, dst, p)
        /\ mpc[p] = "depth" => \A f \in Frames \ todo[p] : dst.depth[f] = depth_of(dst.parent, f)
        /\ mpc[p] = "publish" => dst.depth = [f \in Frames |-> depth_of(dst.parent, f)]

FillInv == \A p \in Procs : Filling(p) => FillAt(p)

\* What the reader has loaded is right as long as the word has not moved.
ReaderInv ==
    /\ rpc # "idle" => query \in Queries
    /\ rpc \in {"row", "loads", "check"} => \A i \in Sides : walk.at[i] \in Frames
    /\ seen.generation <= generation /\ BuildSteps <= generation
    /\ rpc = "check" => loads = {}
    /\ rpc \in {"loads", "check"} /\ word = seen =>
          \A f \in Fields \ loads : row[f] = blocks[word.active][f][walk.at[Side]]

IInv == TypeOK /\ LockInv /\ ActiveIntact /\ FillInv /\ ReaderInv

-------------------------------------------------------------------------------
(* What keeps the published block a forest: the move about to be published    *)
(* was checked against the block that is still active, because nobody else    *)
(* publishes in between, and carries the edge of the frame it moves.          *)

\* A forest all of whose links have edges.
Rooted(forest) ==
    /\ Acyclic(forest.parent)
    /\ \A f \in Frames : forest.parent[f] # NoFrame => forest.edge[f] # NoEdge

Moving(p)  == mpc[p] \in {"load", "copy", "link", "check", "depth", "publish"}
Checked(p) == mpc[p] \in {"depth", "publish"}

ForestInv ==
    LET now == blocks[word.active] IN
    /\ Rooted(now)
    /\ \A p \in Procs : Moving(p) => edge[p] = now.edge[move[p].child] /\ edge[p] # NoEdge
    /\ \A p \in Procs : Checked(p) =>
          Acyclic([now.parent EXCEPT ![move[p].child] = move[p].parent])

-------------------------------------------------------------------------------
(* What a lookup rests on: the walk of compile has climbed, in the forest it  *)
(* began at, frames that only one of the two ends hangs from; and a plan that *)
(* is stored or cached is the route of a generation that it can still name.   *)

\* path is the edges of the frames of chain, the lowest frame first.
Lists(forest, chain, path) ==
    \E e \in [1 .. Len(path) -> Frames] :
        /\ chain = {e[k] : k \in 1 .. Len(path)}
        /\ path = [k \in 1 .. Len(path) |-> forest.edge[e[k]]]
        /\ \A j, k \in 1 .. Len(path) :
              j < k => depth_of(forest.parent, e[k]) < depth_of(forest.parent, e[j])

WalkAt(forest, q, w) ==
    LET up(f)    == Ancestors(forest.parent, f)
        depth(f) == depth_of(forest.parent, f)
        from(i)  == WalkFrom(q).at[i]
        past(i)  == up(from(i)) \ up(w.at[i])
    IN  /\ \A i \in Sides :
              /\ w.at[i] \in up(from(i))
              /\ Lists(forest, past(i), w.path[i])
              /\ \A f \in past(i) : forest.parent[f] # NoFrame /\ depth(w.at[i]) < depth(f)
              /\ i \notin w.want => w.row[i] = RowOf(BlockOf(forest), w.at[i])
        /\ past(1) \cap up(from(2)) = {} /\ past(2) \cap up(from(1)) = {}
        /\ w.loop = "source" => depth(w.at[1]) <= depth(w.at[2])
        /\ w.loop = "both" => depth(w.at[1]) = depth(w.at[2])
        /\ Climbed(w) <= MaxPath

\* The plan p of a lookup of q that began at generation k.
Settled(p, q, k) ==
    LET g == IF p.result.status = "ok" THEN p.generation ELSE k IN
    g \in k .. generation /\ p.result = Route(hist[g], q)

RouteInv ==
    /\ key <= generation /\ cache.key \in 0 .. generation
    /\ rpc \in {"row", "loads", "check", "end", "refuse"} => start \in key .. generation
    /\ rpc \in {"row", "loads", "check"} => walk.want # {} /\ WalkAt(hist[start], query, walk)
    /\ rpc \in {"loads", "check"} =>
          key <= seen.generation /\ (seen.generation = generation => seen = word)
    /\ rpc = "end" => Found(walk.path[1], walk.path[2]) = Route(hist[start], query)
    /\ rpc = "refuse" =>
          /\ plan.result.status # "ok"
          /\ \/ plan.result = Route(hist[start], query)
             \/ generation > key /\ plan.result.status = "FrameOutOfRange"
    /\ rpc \in {"store", "pin"} => Settled(plan, query, key)
    /\ cache.query # NoQuery => Settled(cache.plan, cache.query, cache.key)
===============================================================================

---------------------------- MODULE TopologyProofs ----------------------------
(***************************************************************************)
(* Proofs about Topology, for any number of processes, slots, frames,      *)
(* blocks and generations.                                                 *)
(***************************************************************************)
EXTENDS Topology, FrameRouteProofs

(* Helpers. *)

LEMMA NextBlockDiffers ==
    ASSUME NEW w \in Words
    PROVE  NextBlock(w) \in 0 .. Blocks - 1 /\ NextBlock(w) # w.active
  <1>1. w.active \in 0 .. Blocks - 1 /\ Blocks \in Nat /\ Blocks >= 2
    BY TopologyAssumption DEF Words
  <1>2. CASE w.active + 1 < Blocks
    <2>1. (w.active + 1) % Blocks = w.active + 1
      BY <1>1, <1>2
    <2> QED
      BY <1>1, <1>2, <2>1 DEF NextBlock
  <1>3. CASE w.active + 1 = Blocks
    <2>1. Blocks % Blocks = 0
      BY <1>1
    <2> QED
      BY <1>1, <1>3, <2>1 DEF NextBlock
  <1> QED
    BY <1>1, <1>2, <1>3

LEMMA BlockOfType ==
    ASSUME NEW forest \in Forests
    PROVE  BlockOf(forest) \in BlockValues
  BY DepthType DEF BlockOf, BlockValues, Forests

LEMMA FirstWordType == FirstWord \in Words /\ FirstWord.generation = BuildSteps
  BY TopologyAssumption DEF FirstWord, pack_topo, Words

\* What building left behind: the active block holds the last forest.
LEMMA BuiltBlocks ==
    /\ \A b \in 0 .. Blocks - 1 : BuiltBlock(b) \in BlockValues
    /\ BuiltBlock(FirstWord.active) = BlockOf(Built[BuildSteps])
  <1> DEFINE ago(b) == (FirstWord.active + Blocks - b) % Blocks
  <1>1. FirstWord.active \in 0 .. Blocks - 1 /\ Blocks \in Nat /\ Blocks >= 2 /\ BuildSteps \in Nat
    BY FirstWordType, TopologyAssumption DEF Words
  <1>2. ASSUME NEW b \in 0 .. Blocks - 1 PROVE BuiltBlock(b) \in BlockValues
    <2>1. ago(b) \in Nat
      BY <1>1
    <2>2. Built[IF ago(b) <= BuildSteps THEN BuildSteps - ago(b) ELSE 0] \in Forests
      BY <1>1, <2>1, TopologyAssumption
    <2> QED
      BY <2>2, BlockOfType DEF BuiltBlock
  <1>3. ago(FirstWord.active) = 0
    <2>1. Blocks % Blocks = 0 /\ FirstWord.active + Blocks - FirstWord.active = Blocks
      BY <1>1
    <2> QED
      BY <2>1
  <1>4. BuiltBlock(FirstWord.active) = BlockOf(Built[BuildSteps])
    BY <1>1, <1>3 DEF BuiltBlock
  <1> QED
    BY <1>2, <1>4

LEMMA WalkFromType ==
    ASSUME NEW q \in Queries \cup {NoQuery}
    PROVE  WalkFrom(q) \in Walks
  <1>1. q.target \in Frames \cup {NoFrame} /\ q.source \in Frames \cup {NoFrame}
    BY TopologyAssumption DEF NoQuery, NoFrame
  <1>2. NoRow \in Rows /\ <<>> \in Seq(Nat)
    BY DEF NoRow, Rows, NoFrame, NoEdge
  <1> QED
    BY <1>1, <1>2 DEF WalkFrom, Walks, Sides

-------------------------------------------------------------------------------
(* The invariant holds initially. *)

LEMMA InitIInv == Init => IInv
  <1> SUFFICES ASSUME Init PROVE IInv
    OBVIOUS
  <1> USE TopologyAssumption
  <1>1. TypeOK
    <2>1. NoWalk \in Walks
      BY WalkFromType DEF NoWalk
    <2>2. blocks \in [0 .. Blocks - 1 -> BlockValues]
      BY BuiltBlocks DEF Init
    <2>3. NoRow \in Rows
      BY DEF NoRow, Rows, NoFrame, NoEdge
    <2>4. hist \in [0 .. generation -> Forests]
      BY FirstWordType DEF Init, generation
    <2> QED
      BY <2>1, <2>2, <2>3, <2>4, FirstWordType DEF Init, TypeOK, Steps, NoEdge
  <1>2. LockInv
    BY DEF Init, LockInv, InLock, HasWord
  <1>3. ActiveIntact
    BY BuiltBlocks, FirstWordType DEF Init, ActiveIntact, generation, Words
  <1>4. FillInv
    BY DEF Init, FillInv, Filling
  <1>5. ReaderInv
    BY FirstWordType DEF Init, ReaderInv, generation
  <1> QED
    BY <1>1, <1>2, <1>3, <1>4, <1>5 DEF IInv

-------------------------------------------------------------------------------
(* Steps of the processes. *)

\* The reader is unaffected by a step that leaves the arena alone.
LEMMA ReaderFrame ==
    ASSUME ReaderInv, UNCHANGED <<arena, reader>>
    PROVE  ReaderInv'
  BY DEF ReaderInv, arena, reader, generation, Side

\* So are the blocks, by a step that also leaves the mutators alone.
LEMMA FillFrame ==
    ASSUME ActiveIntact, FillInv, UNCHANGED <<arena, hist, mpc, move, edge, base, todo>>
    PROVE  ActiveIntact' /\ FillInv'
  BY DEF ActiveIntact, FillInv, FillAt, arena, generation, Filling, Linked

\* A step that takes p to a place where it fills nothing.
LEMMA FillLeave ==
    ASSUME TypeOK, ActiveIntact, FillInv, NEW p \in Procs, UNCHANGED <<arena, hist>>,
           \A q \in Procs \ {p} : /\ mpc'[q] = mpc[q] /\ move'[q] = move[q] /\ edge'[q] = edge[q]
                                  /\ base'[q] = base[q] /\ todo'[q] = todo[q],
           ~Filling(p)'
    PROVE  ActiveIntact' /\ FillInv'
  <1>1. ActiveIntact'
    BY DEF ActiveIntact, arena, generation
  <1>2. ASSUME NEW q \in Procs, Filling(q)' PROVE FillAt(q)'
    <2>1. q # p
      BY <1>2
    <2>2. /\ mpc'[q] = mpc[q] /\ move'[q] = move[q] /\ edge'[q] = edge[q]
          /\ base'[q] = base[q] /\ todo'[q] = todo[q]
      BY <2>1
    <2>3. FillAt(q)
      BY <1>2, <2>2 DEF FillInv, Filling
    <2> QED
      BY <2>2, <2>3 DEF FillAt, arena, Linked, NextBlock
  <1> QED
    BY <1>1, <1>2 DEF FillInv

LEMMA LifecycleStep ==
    ASSUME IInv, NEW p \in Procs, NEW s \in Slots, Register(p, s) \/ Kill(p) \/ Reclaim(s)
    PROVE  IInv'
  <1> USE TopologyAssumption DEF IInv
  <1>1. CASE Register(p, s)
    <2> USE <1>1 DEF Register, Jump, At
    <2>1. TypeOK'
      BY DEF TypeOK, arena, locks, reader, Steps, generation
    <2>2. LockInv'
      BY DEF TypeOK, LockInv, InLock, HasWord, locks
    <2>3. ActiveIntact' /\ FillInv'
      BY FillLeave DEF TypeOK, Filling, Steps
    <2>4. ReaderInv'
      BY ReaderFrame
    <2> QED
      BY <2>1, <2>2, <2>3, <2>4
  <1>2. CASE Kill(p)
    <2> USE <1>2 DEF Kill, Jump, At, Forget
    <2>1. TypeOK'
      <3>1. base' \in [Procs -> Words] /\ edge' \in [Procs -> Nat] /\ move' \in [Procs -> Moves \cup {NoMove}]
        BY FirstWordType DEF TypeOK, NoEdge
      <3>2. mpc' \in [Procs -> Steps] /\ todo' \in [Procs -> SUBSET Frames]
            /\ expect' \in [Procs -> Slots \cup {None}]
        BY DEF TypeOK, Steps
      <3>3. byte' \in Procs \cup {None} /\ crashes' \in Nat
            /\ UNCHANGED <<arena, owner, record, slot, reader, hist, holder>>
        BY DEF TypeOK
      <3> HIDE DEF Kill, Forget
      <3> QED
        BY <3>1, <3>2, <3>3 DEF TypeOK, arena, reader, generation
    <2>2. LockInv'
      BY DEF TypeOK, LockInv, InLock, HasWord
    <2>3. ActiveIntact' /\ FillInv'
      BY FillLeave DEF TypeOK, Filling, Steps
    <2>4. ReaderInv'
      BY ReaderFrame
    <2> QED
      BY <2>1, <2>2, <2>3, <2>4
  <1>3. CASE Reclaim(s)
    <2> USE <1>3 DEF Reclaim
    <2>1. TypeOK'
      BY DEF TypeOK, arena, locks, mutators, reader, generation
    <2>2. LockInv'
      BY DEF LockInv, InLock, HasWord, locks, mutators
    <2>3. ActiveIntact' /\ FillInv' /\ ReaderInv'
      BY ReaderFrame, FillFrame DEF mutators
    <2> QED
      BY <2>1, <2>2, <2>3
  <1> QED
    BY <1>1, <1>2, <1>3

LEMMA LockStep ==
    ASSUME IInv, NEW p \in Procs, NEW m \in Moves,
           Reparent(p, m) \/ LockCas(p) \/ Inspect(p) \/ ReleaseWord(p) \/ ReleaseByte(p)
    PROVE  IInv'
  <1> USE TopologyAssumption DEF IInv
  <1>1. CASE Reparent(p, m)
    <2> USE <1>1 DEF Reparent, Jump, At
    <2>1. TypeOK'
      BY DEF TypeOK, arena, reader, Steps, generation
    <2>2. LockInv'
      BY DEF TypeOK, LockInv, InLock, HasWord
    <2>3. ActiveIntact' /\ FillInv'
      BY FillLeave DEF TypeOK, Filling, Steps
    <2> QED
      BY <2>1, <2>2, <2>3, ReaderFrame
  <1>2. CASE LockCas(p)
    <2> USE <1>2 DEF LockCas, Jump, At
    <2>0. /\ mpc' \in [Procs -> Steps] /\ mpc'[p] \in {"edge", "inspect", "refused"}
          /\ \A q \in Procs \ {p} : mpc'[q] = mpc[q]
      <3>1. CASE owner = expect[p]
        BY <3>1 DEF TypeOK, Steps
      <3>2. CASE owner # expect[p]
        BY <3>2 DEF TypeOK, Steps
      <3> QED
        BY <3>1, <3>2
    <2>1. TypeOK'
      <3>1. owner' \in Slots \cup {None} /\ holder' \in Procs \cup {None}
        BY DEF TypeOK
      <3>2. UNCHANGED <<arena, byte, record, slot, move, expect, edge, base, todo, reader, hist, crashes>>
        OBVIOUS
      <3> HIDE DEF LockCas
      <3> QED
        BY <2>0, <3>1, <3>2 DEF TypeOK, arena, reader, generation
    <2>2. LockInv'
      <3>1. byte = p /\ move[p] \in Moves /\ slot[p] \in Slots
        BY DEF LockInv, InLock
      <3>2. \A q \in Procs \ {p} : ~InLock(q) /\ ~HasWord(q) /\ mpc'[q] = mpc[q]
        BY <2>0, <3>1 DEF LockInv, InLock, HasWord
      <3>3. CASE owner = expect[p]
        <4>1. owner' = slot[p] /\ holder' = p /\ UNCHANGED <<byte, slot, move>> /\ mpc'[p] = "edge"
          BY <3>3 DEF TypeOK
        <4>2. mpc[p] # "new" /\ \A q \in Procs : mpc[q] # "new" => slot[q] \in Slots
          BY DEF LockInv
        <4> HIDE DEF LockCas
        <4> QED
          BY <3>1, <3>2, <4>1, <4>2 DEF LockInv, InLock, HasWord
      <3>4. CASE owner # expect[p]
        BY <3>1, <3>2, <3>4 DEF LockInv, TypeOK, InLock, HasWord
      <3> QED
        BY <3>3, <3>4
    <2>3. ActiveIntact' /\ FillInv'
      <3>1. ~Filling(p)'
        BY <2>0 DEF Filling
      <3>2. UNCHANGED <<arena, hist, move, edge, base, todo>>
        OBVIOUS
      <3> HIDE DEF LockCas
      <3> QED
        BY <2>0, <3>1, <3>2, FillLeave
    <2> QED
      BY <2>1, <2>2, <2>3, ReaderFrame
  <1>3. CASE Inspect(p)
    <2> USE <1>3 DEF Inspect, Jump, At
    <2>1. TypeOK'
      BY DEF TypeOK, arena, locks, reader, Steps, generation
    <2>2. LockInv'
      BY DEF TypeOK, LockInv, InLock, HasWord, locks
    <2>3. ActiveIntact' /\ FillInv'
      BY FillLeave DEF TypeOK, Filling, Steps
    <2> QED
      BY <2>1, <2>2, <2>3, ReaderFrame
  <1>4. CASE ReleaseWord(p)
    <2> USE <1>4 DEF ReleaseWord, Jump, At
    <2>1. TypeOK'
      BY DEF TypeOK, arena, reader, Steps, generation
    <2>2. LockInv'
      BY DEF TypeOK, LockInv, InLock, HasWord
    <2>3. ActiveIntact' /\ FillInv'
      BY FillLeave DEF TypeOK, Filling, Steps
    <2> QED
      BY <2>1, <2>2, <2>3, ReaderFrame
  <1>5. CASE ReleaseByte(p)
    <2> USE <1>5 DEF ReleaseByte, Jump, At, Forget
    <2>1. TypeOK'
      <3>1. base' \in [Procs -> Words] /\ edge' \in [Procs -> Nat] /\ move' \in [Procs -> Moves \cup {NoMove}]
        BY FirstWordType DEF TypeOK, NoEdge
      <3>2. mpc' \in [Procs -> Steps] /\ todo' \in [Procs -> SUBSET Frames]
            /\ expect' \in [Procs -> Slots \cup {None}]
        BY DEF TypeOK, Steps
      <3> QED
        BY <3>1, <3>2 DEF TypeOK, arena, reader, generation
    <2>2. LockInv'
      BY DEF TypeOK, LockInv, InLock, HasWord
    <2>3. ActiveIntact' /\ FillInv'
      BY FillLeave DEF TypeOK, Filling, Steps
    <2> QED
      BY <2>1, <2>2, <2>3, ReaderFrame
  <1> QED
    BY <1>1, <1>2, <1>3, <1>4, <1>5

-------------------------------------------------------------------------------
(* Steps of set_parent.  The lock excludes the other processes, and the stores *)
(* go into a block that is not the active one.                                 *)

\* Only p fills a block.
LEMMA OthersDoNotFill ==
    ASSUME TypeOK, LockInv, NEW p \in Procs, InLock(p),
           \A q \in Procs \ {p} : mpc'[q] = mpc[q]
    PROVE  \A q \in Procs \ {p} : ~Filling(q)'
  BY DEF LockInv, InLock, Filling, TypeOK

\* A step of the lock's holder that leaves both locks alone.
LEMMA LockKept ==
    ASSUME TypeOK, LockInv, NEW p \in Procs, HasWord(p), HasWord(p)',
           UNCHANGED <<locks, holder, slot, move>>, mpc' \in [Procs -> Steps],
           \A q \in Procs \ {p} : mpc'[q] = mpc[q]
    PROVE  LockInv'
  BY DEF TypeOK, LockInv, InLock, HasWord, locks

LEMMA PrepareStep ==
    ASSUME IInv, NEW p \in Procs, ReadEdge(p) \/ LoadWord(p) \/ CheckCycle(p)
    PROVE  IInv'
  <1> USE TopologyAssumption DEF IInv
  <1>1. CASE ReadEdge(p)
    <2> USE <1>1 DEF ReadEdge, Jump, At
    <2>1. TypeOK'
      <3>1. move[p].child \in Frames /\ blocks[word.active] \in BlockValues
        BY DEF LockInv, InLock, TypeOK, Words
      <3>2. edge' \in [Procs -> Nat] /\ mpc' \in [Procs -> Steps]
        BY <3>1 DEF TypeOK, BlockValues, Steps
      <3> QED
        BY <3>2 DEF TypeOK, arena, locks, reader, generation
    <2>2. LockInv'
      BY <2>1, LockKept DEF HasWord, TypeOK
    <2>3. ActiveIntact' /\ FillInv'
      BY FillLeave DEF TypeOK, Filling
    <2> QED
      BY <2>1, <2>2, <2>3, ReaderFrame
  <1>2. CASE LoadWord(p)
    <2> USE <1>2 DEF LoadWord, Jump, At
    <2>1. TypeOK'
      BY DEF TypeOK, arena, locks, reader, generation, Steps
    <2>2. LockInv'
      BY <2>1, LockKept DEF HasWord, TypeOK
    <2>3. ActiveIntact'
      BY DEF ActiveIntact, arena, generation
    <2>4. FillInv'
      <3>1. \A q \in Procs \ {p} : ~Filling(q)'
        BY OthersDoNotFill DEF InLock, TypeOK
      <3>2. FillAt(p)'
        BY DEF FillAt, TypeOK, arena
      <3> QED
        BY <3>1, <3>2 DEF FillInv
    <2> QED
      BY <2>1, <2>2, <2>3, <2>4, ReaderFrame
  <1>3. CASE CheckCycle(p)
    <2> USE <1>3 DEF CheckCycle, Jump, At
    <2> HIDE DEF creates_cycle
    <2>1. TypeOK'
      BY DEF TypeOK, arena, locks, reader, generation, Steps
    <2>2. LockInv'
      BY <2>1, LockKept DEF HasWord, TypeOK
    <2>3. ActiveIntact'
      BY DEF ActiveIntact, arena, generation
    <2>4. FillInv'
      <3>1. \A q \in Procs \ {p} : ~Filling(q)'
        BY OthersDoNotFill DEF InLock, TypeOK
      <3>2. FillAt(p)
        BY DEF FillInv, Filling
      <3>3. mpc'[p] = "word" \/ (mpc'[p] = "depth" /\ todo'[p] = Frames)
        BY DEF TypeOK
      <3>4. Filling(p)' => FillAt(p)'
        BY <3>2, <3>3 DEF FillAt, Filling, TypeOK, arena, Linked, NextBlock
      <3> QED
        BY <3>1, <3>4 DEF FillInv
    <2> QED
      BY <2>1, <2>2, <2>3, <2>4, ReaderFrame
  <1> QED
    BY <1>1, <1>2, <1>3

\* A row of the next block is stored: it becomes the forest that will be
\* published, and nothing else changes.
LEMMA StoreStep ==
    ASSUME IInv, NEW p \in Procs, Filling(p), NEW f \in Frames,
           NEW parent \in Frames \cup {NoFrame}, NEW e \in Nat, NEW depth \in Nat,
           NEW l \in {"link", "check", "publish"}, NEW rest \in SUBSET Frames,
           StoreRow(p, f, parent, e, depth, l, rest),
           \/ /\ mpc[p] = "copy" /\ l = "link" /\ rest = {move[p].child}
              /\ parent = blocks[word.active].parent[f] /\ e = blocks[word.active].edge[f]
           \/ mpc[p] = "link" /\ l = "check" /\ parent = move[p].parent /\ e = edge[p]
           \/ /\ mpc[p] = "depth" /\ l = "publish" /\ rest = {}
              /\ parent = blocks[NextBlock(word)].parent[f]
              /\ e = blocks[NextBlock(word)].edge[f]
              /\ depth = depth_of(blocks[NextBlock(word)].parent, f)
    PROVE  IInv'
  <1> USE TopologyAssumption DEF IInv
  <1> DEFINE src == blocks[word.active]
             dst == blocks[NextBlock(word)]
             new == blocks'[NextBlock(word)]
  <1>1. /\ HasWord(p) /\ InLock(p) /\ FillAt(p)
        /\ base[p] = word /\ move[p] \in Moves
        /\ src \in BlockValues /\ dst \in BlockValues
        /\ NextBlock(word) # word.active
    <2>1. HasWord(p) /\ InLock(p)
      BY DEF HasWord, Filling, InLock
    <2>2. FillAt(p)
      BY DEF FillInv
    <2> QED
      BY <2>1, <2>2, NextBlockDiffers DEF FillAt, LockInv, TypeOK, Words
  <1>2. /\ blocks' \in [0 .. Blocks - 1 -> BlockValues]
        /\ blocks'[word.active] = src
        /\ new \in BlockValues
        /\ new.parent = [dst.parent EXCEPT ![f] = parent]
        /\ new.edge = [dst.edge EXCEPT ![f] = e]
        /\ new.depth = [dst.depth EXCEPT ![f] = depth]
    <2> DEFINE b == NextBlock(word)
    <2>1. b \in 0 .. Blocks - 1 /\ b # word.active /\ word.active \in 0 .. Blocks - 1
      BY NextBlockDiffers DEF TypeOK, Words
    <2>2. blocks[b] \in BlockValues
      BY <2>1 DEF TypeOK
    <2>3. blocks' = [blocks EXCEPT ![b] =
                        [blocks[b] EXCEPT !.parent[f] = parent, !.edge[f] = e, !.depth[f] = depth]]
      BY <1>1, <2>1, <2>2 DEF StoreRow, TypeOK, BlockValues
    <2>4. blocks'[b] = [parent |-> [blocks[b].parent EXCEPT ![f] = parent],
                        edge |-> [blocks[b].edge EXCEPT ![f] = e],
                        depth |-> [blocks[b].depth EXCEPT ![f] = depth]]
      BY <2>1, <2>2, <2>3 DEF TypeOK, BlockValues
    <2>5. blocks'[b] \in BlockValues
      BY <2>2, <2>4 DEF BlockValues
    <2>6. blocks' \in [0 .. Blocks - 1 -> BlockValues] /\ blocks'[word.active] = src
      BY <2>1, <2>3, <2>4, <2>5 DEF TypeOK
    <2> QED
      BY <2>4, <2>5, <2>6
  <1>fun. /\ src.parent \in [Frames -> Frames \cup {NoFrame}] /\ src.edge \in [Frames -> Nat]
          /\ dst.parent \in [Frames -> Frames \cup {NoFrame}] /\ dst.edge \in [Frames -> Nat]
          /\ dst.depth \in [Frames -> Nat]
          /\ new.parent \in [Frames -> Frames \cup {NoFrame}] /\ new.edge \in [Frames -> Nat]
          /\ new.depth \in [Frames -> Nat]
    BY <1>1, <1>2 DEF BlockValues
  <1>row. /\ new.parent[f] = parent /\ \A g \in Frames \ {f} : new.parent[g] = dst.parent[g]
          /\ new.edge[f] = e /\ \A g \in Frames \ {f} : new.edge[g] = dst.edge[g]
          /\ new.depth[f] = depth /\ \A g \in Frames \ {f} : new.depth[g] = dst.depth[g]
    <2> HIDE DEF src, dst, new
    <2>1. new.parent[f] = parent /\ \A g \in Frames \ {f} : new.parent[g] = dst.parent[g]
      BY <1>2, <1>fun
    <2>2. new.edge[f] = e /\ \A g \in Frames \ {f} : new.edge[g] = dst.edge[g]
      BY <1>2, <1>fun
    <2>3. new.depth[f] = depth /\ \A g \in Frames \ {f} : new.depth[g] = dst.depth[g]
      BY <1>2, <1>fun
    <2> QED
      BY <2>1, <2>2, <2>3
  <1>3. UNCHANGED <<word, locks, record, slot, move, expect, edge, base, reader, hist, holder, crashes>>
    BY DEF StoreRow
  <1>4. /\ f \in todo[p]
        /\ mpc' \in [Procs -> Steps] /\ todo' \in [Procs -> SUBSET Frames]
        /\ \A q \in Procs \ {p} : mpc'[q] = mpc[q]
        /\ \/ todo[p] = {f} /\ mpc'[p] = l /\ todo'[p] = rest
           \/ mpc'[p] = mpc[p] /\ todo'[p] = todo[p] \ {f} /\ todo[p] # {f}
    <2>1. /\ f \in todo[p]
          /\ IF todo[p] = {f}
             THEN todo' = [todo EXCEPT ![p] = rest] /\ mpc' = [mpc EXCEPT ![p] = l]
             ELSE todo' = [todo EXCEPT ![p] = todo[p] \ {f}] /\ mpc' = mpc
      BY DEF StoreRow, Jump
    <2>2. l \in Steps /\ mpc \in [Procs -> Steps] /\ todo \in [Procs -> SUBSET Frames]
      BY DEF Steps, TypeOK
    <2>3. CASE todo[p] = {f}
      BY <2>1, <2>2, <2>3
    <2>4. CASE todo[p] # {f}
      BY <2>1, <2>2, <2>4
    <2> QED
      BY <2>3, <2>4
  <1>5. TypeOK'
    BY <1>2, <1>3, <1>4 DEF TypeOK, locks, reader, generation
  <1>6. LockInv'
    <2>1. HasWord(p)'
      BY <1>1, <1>4 DEF HasWord
    <2> QED
      BY <1>1, <1>3, <1>4, <2>1, LockKept
  <1>7. ActiveIntact'
    BY <1>2, <1>3 DEF ActiveIntact, generation
  <1>8. FillInv'
    <2>1. \A q \in Procs \ {p} : ~Filling(q)'
      BY <1>1, <1>4, OthersDoNotFill
    <2>2. FillAt(p)'
      <3>1. NextBlock(word)' = NextBlock(word) /\ base'[p] = word' /\ blocks'[word'.active] = src
        BY <1>1, <1>2, <1>3 DEF NextBlock
      <3>2. CASE mpc[p] = "copy"
        <4>1. \A g \in Frames \ todo[p] : dst.parent[g] = src.parent[g] /\ dst.edge[g] = src.edge[g]
          BY <1>1, <3>2 DEF FillAt
        <4>2. \A g \in (Frames \ todo[p]) \cup {f} :
                 new.parent[g] = src.parent[g] /\ new.edge[g] = src.edge[g]
          <5>1. parent = src.parent[f] /\ e = src.edge[f]
            BY <3>2
          <5> HIDE DEF src, dst, new
          <5> QED
            BY <1>row, <4>1, <5>1
        <4>3. todo[p] = {f} => new.parent = src.parent /\ new.edge = src.edge
          <5> HIDE DEF src, dst, new
          <5>1. todo[p] = {f} => \A g \in Frames : new.parent[g] = src.parent[g] /\ new.edge[g] = src.edge[g]
            BY <4>2
          <5>2. (\A g \in Frames : new.parent[g] = src.parent[g]) => new.parent = src.parent
            BY <1>fun
          <5>3. (\A g \in Frames : new.edge[g] = src.edge[g]) => new.edge = src.edge
            BY <1>fun
          <5> QED
            BY <5>1, <5>2, <5>3
        <4> HIDE DEF src, dst, new
        <4>4. CASE mpc'[p] = "link"
          BY <1>3, <1>4, <3>1, <3>2, <4>2, <4>3, <4>4 DEF FillAt, new
        <4>5. CASE mpc'[p] = "copy"
          BY <1>3, <1>4, <3>1, <3>2, <4>2, <4>5 DEF FillAt, new
        <4> QED
          BY <1>4, <3>2, <4>4, <4>5
      <3>3. CASE mpc[p] = "link"
        <4>1. todo[p] = {move[p].child} /\ dst.parent = src.parent /\ dst.edge = src.edge
          BY <1>1, <3>3 DEF FillAt
        <4>2. f = move[p].child /\ mpc'[p] = "check"
          BY <1>4, <3>3, <4>1
        <4> QED
          BY <1>2, <1>3, <3>1, <3>3, <4>1, <4>2 DEF FillAt, Linked
      <3>4. CASE mpc[p] = "depth"
        <4>1. Linked(src, dst, p) /\ \A g \in Frames \ todo[p] : dst.depth[g] = depth_of(dst.parent, g)
          BY <1>1, <3>4 DEF FillAt
        <4>2. new.parent = dst.parent /\ new.edge = dst.edge
          <5>1. parent = dst.parent[f] /\ e = dst.edge[f]
            BY <3>4
          <5> HIDE DEF src, dst, new
          <5>2. new.parent = dst.parent
            <6>1. \A g \in Frames : new.parent[g] = dst.parent[g]
              BY <1>row, <5>1
            <6> QED
              BY <1>fun, <6>1
          <5>3. new.edge = dst.edge
            <6>1. \A g \in Frames : new.edge[g] = dst.edge[g]
              BY <1>row, <5>1
            <6> QED
              BY <1>fun, <6>1
          <5> QED
            BY <5>2, <5>3
        <4>3. \A g \in (Frames \ todo[p]) \cup {f} : new.depth[g] = depth_of(new.parent, g)
          <5>1. depth = depth_of(dst.parent, f)
            BY <3>4
          <5> HIDE DEF src, dst, new
          <5> QED
            BY <1>row, <4>1, <4>2, <5>1
        <4>4. todo[p] = {f} => new.depth = [g \in Frames |-> depth_of(new.parent, g)]
          <5> HIDE DEF src, dst, new
          <5> QED
            BY <1>fun, <4>3
        <4> HIDE DEF src, dst, new
        <4>5. /\ new.parent = [src.parent EXCEPT ![move'[p].child] = move'[p].parent]
              /\ new.edge = [src.edge EXCEPT ![move'[p].child] = edge'[p]]
          BY <1>3, <4>1, <4>2 DEF Linked
        <4>6. CASE mpc'[p] = "publish"
          BY <1>3, <1>4, <3>1, <3>4, <4>4, <4>5, <4>6 DEF FillAt, Linked, new
        <4>7. CASE mpc'[p] = "depth"
          BY <1>3, <1>4, <3>1, <3>4, <4>3, <4>5, <4>7 DEF FillAt, Linked, new
        <4> QED
          BY <1>4, <3>4, <4>6, <4>7
      <3> QED
        BY <3>2, <3>3, <3>4
    <2> QED
      BY <2>1, <2>2 DEF FillInv
  <1>9. ReaderInv'
    <2>1. /\ word' = word /\ blocks'[word.active] = blocks[word.active]
          /\ UNCHANGED <<rpc, query, walk, seen, row, loads>>
      BY <1>2, <1>3 DEF reader
    <2>2. ReaderInv
      OBVIOUS
    <2> HIDE TopologyAssumption DEF IInv, src, dst, new
    <2> QED
      BY <2>1, <2>2 DEF ReaderInv, generation, Side
  <1> QED
    BY <1>5, <1>6, <1>7, <1>8, <1>9

LEMMA FillStep ==
    ASSUME IInv, NEW p \in Procs, Copy(p) \/ Link(p) \/ recompute_depths(p)
    PROVE  IInv'
  <1>1. Filling(p) /\ base[p] = word /\ move[p] \in Moves
    BY DEF IInv, Copy, Link, recompute_depths, At, Filling, FillInv, FillAt, LockInv, InLock
  <1>2. /\ blocks[word.active] \in BlockValues /\ blocks[NextBlock(word)] \in BlockValues
        /\ move[p].child \in Frames /\ move[p].parent \in Frames /\ edge[p] \in Nat
    BY <1>1, NextBlockDiffers, TopologyAssumption DEF IInv, TypeOK, Words
  <1> DEFINE src == blocks[word.active]
             dst == blocks[NextBlock(word)]
  <1>3. \A f \in Frames : /\ src.parent[f] \in Frames \cup {NoFrame} /\ src.edge[f] \in Nat
                          /\ dst.parent[f] \in Frames \cup {NoFrame} /\ dst.edge[f] \in Nat
                          /\ dst.depth[f] \in Nat
    BY <1>2 DEF BlockValues
  <1>4. CASE Copy(p)
    <2>1. PICK f \in Frames :
             StoreRow(p, f, src.parent[f], src.edge[f], dst.depth[f], "link", {move[p].child})
      BY <1>1, <1>4 DEF Copy
    <2>2. mpc[p] = "copy"
      BY <1>4 DEF Copy, At
    <2> QED
      BY <1>1, <1>2, <1>3, <2>1, <2>2, StoreStep
  <1>5. CASE Link(p)
    <2>1. PICK f \in Frames :
             StoreRow(p, f, move[p].parent, edge[p], dst.depth[f], "check", {})
      BY <1>1, <1>5 DEF Link
    <2>2. mpc[p] = "link"
      BY <1>5 DEF Link, At
    <2> QED
      BY <1>1, <1>2, <1>3, <2>1, <2>2, StoreStep
  <1>6. CASE recompute_depths(p)
    <2>1. PICK f \in Frames :
             StoreRow(p, f, dst.parent[f], dst.edge[f], depth_of(dst.parent, f), "publish", {})
      BY <1>1, <1>6 DEF recompute_depths
    <2>2. mpc[p] = "depth"
      BY <1>6 DEF recompute_depths, At
    <2>3. PICK d \in Nat, parent \in Frames \cup {NoFrame}, e \in Nat :
             d = depth_of(dst.parent, f) /\ parent = dst.parent[f] /\ e = dst.edge[f]
      BY <1>3, DepthType
    <2>4. StoreRow(p, f, parent, e, d, "publish", {})
      BY <2>1, <2>3
    <2> QED
      BY <1>1, <2>2, <2>3, <2>4, StoreStep
  <1> QED
    BY <1>4, <1>5, <1>6

\* The filled block becomes the active one, and it holds the next forest.
LEMMA PublishStep ==
    ASSUME IInv, NEW p \in Procs, Publish(p)
    PROVE  IInv'
  <1> USE TopologyAssumption DEF IInv, Publish, Jump, At
  <1> DEFINE next == Attach(hist[generation], move[p].child, move[p].parent, edge[p])
  <1>1. /\ base[p] = word /\ FillAt(p) /\ move[p] \in Moves /\ HasWord(p) /\ InLock(p)
    BY DEF FillInv, Filling, FillAt, LockInv, InLock, HasWord
  <1>2. generation \in Nat /\ hist[generation] \in Forests /\ edge[p] \in Nat
    BY DEF TypeOK, Words, generation
  <1>3. next \in Forests
    BY <1>1, <1>2 DEF Attach, Forests
  <1>4. /\ word' \in Words /\ word'.active = NextBlock(word) /\ generation' = generation + 1
    <2>1. word' = [generation |-> word.generation + 1, active |-> NextBlock(word)]
      BY <1>1 DEF pack_topo
    <2>2. NextBlock(word) \in 0 .. Blocks - 1
      BY NextBlockDiffers DEF TypeOK
    <2>3. word.generation + 1 \in Nat
      BY <1>2 DEF generation
    <2> HIDE DEF Publish
    <2> QED
      BY <2>1, <2>2, <2>3 DEF Words, generation
  <1>5. hist' \in [0 .. generation' -> Forests] /\ hist'[generation'] = next
    <2>1. ASSUME NEW g \in 0 .. generation + 1 PROVE g = generation + 1 \/ g \in 0 .. generation
      BY <1>2
    <2>2. \A g \in 0 .. generation : hist[g] \in Forests
      BY DEF TypeOK
    <2> QED
      BY <1>2, <1>3, <1>4, <2>1, <2>2
  <1>6. TypeOK'
    BY <1>4, <1>5 DEF TypeOK, locks, reader, Steps
  <1>7. LockInv'
    BY <1>1, <1>6, LockKept DEF HasWord, TypeOK
  <1>8. ActiveIntact'
    <2> DEFINE src == blocks[word.active]
               dst == blocks[NextBlock(word)]
    <2>1. /\ Linked(src, dst, p) /\ dst.depth = [f \in Frames |-> depth_of(dst.parent, f)]
          /\ src = BlockOf(hist[generation])
      BY <1>1 DEF FillAt, ActiveIntact
    <2>2. dst \in BlockValues
      BY NextBlockDiffers DEF TypeOK
    <2>3. dst.parent = next.parent /\ dst.edge = next.edge
      BY <2>1 DEF Linked, BlockOf, Attach
    <2>4. dst = BlockOf(next)
      BY <2>1, <2>2, <2>3 DEF BlockOf, BlockValues
    <2>5. blocks'[word'.active] = dst
      BY <1>4
    <2> QED
      BY <1>5, <2>4, <2>5 DEF ActiveIntact, BlockOf
  <1>9. FillInv'
    <2>1. \A q \in Procs \ {p} : ~Filling(q)'
      BY <1>1, OthersDoNotFill DEF TypeOK
    <2> QED
      BY <2>1 DEF FillInv, Filling, TypeOK
  <1>10. ReaderInv'
    <2> HIDE DEF generation
    <2>a. seen.generation \in Nat /\ seen.generation <= generation /\ BuildSteps <= generation
      BY DEF ReaderInv, TypeOK, Words
    <2>b. seen.generation < generation' /\ seen.generation <= generation' /\ BuildSteps <= generation'
      BY <1>2, <1>4, <2>a
    <2>1. word' # seen /\ seen.generation <= generation' /\ BuildSteps <= generation'
      BY <2>a, <2>b DEF generation
    <2> QED
      BY <2>1 DEF ReaderInv, reader, generation
  <1> QED
    BY <1>6, <1>7, <1>8, <1>9, <1>10

-------------------------------------------------------------------------------
(* Steps of the reader.  It stores nothing the mutators or the lock look at. *)

rest == <<arena, locks, record, mutators, hist, holder, crashes>>

LEMMA RestKept ==
    ASSUME IInv, UNCHANGED rest
    PROVE  LockInv' /\ ActiveIntact' /\ FillInv' /\ generation' = generation /\ word' = word /\ blocks' = blocks
  <1>1. LockInv'
    BY DEF IInv, rest, LockInv, InLock, HasWord, locks, mutators
  <1>2. ActiveIntact' /\ FillInv'
    BY FillFrame DEF IInv, rest, mutators
  <1> QED
    BY <1>1, <1>2 DEF rest, arena, generation

\* What is left to show of a step of the reader.
LEMMA ReaderTypes ==
    ASSUME TypeOK, UNCHANGED rest,
           rpc' \in {"idle", "begin", "row", "loads", "check", "end", "store", "refuse", "pin", "done"},
           query' \in Queries \cup {NoQuery}, key' \in Nat, start' \in Nat, tries' \in Nat,
           seen' \in Words, row' \in Rows, loads' \subseteq Fields, walk' \in Walks
    PROVE  TypeOK'
  BY DEF TypeOK, rest, arena, locks, mutators, generation

\* A step that reads no row, and moves to a place where none is held.
LEMMA ReaderElsewhere ==
    ASSUME IInv, UNCHANGED rest,
           rpc' \notin {"idle", "row", "loads", "check"}, rpc # "idle",
           query' = query, key' = key, seen' = seen, walk' = walk, row' = row, loads' = loads,
           tries' \in Nat, start' = start,
           rpc' \in {"begin", "end", "store", "refuse", "pin", "done"}
    PROVE  IInv'
  <1>1. TypeOK'
    BY ReaderTypes DEF IInv, TypeOK
  <1>2. ReaderInv'
    BY RestKept DEF IInv, ReaderInv
  <1> QED
    BY <1>1, <1>2, RestKept DEF IInv

LEMMA CallStep ==
    ASSUME IInv, NEW q \in Queries, Lookup(q) \/ CompileBegin \/ Return
    PROVE  IInv'
  <1> USE TopologyAssumption
  <1>1. CASE Lookup(q)
    <2> USE <1>1 DEF Lookup
    <2>1. UNCHANGED rest
      BY DEF rest
    <2>2. TypeOK'
      BY <2>1, ReaderTypes DEF IInv, TypeOK, Words, generation
    <2>3. ReaderInv'
      BY <2>1, RestKept DEF IInv, ReaderInv
    <2> QED
      BY <2>1, <2>2, <2>3, RestKept DEF IInv
  <1>2. CASE CompileBegin
    <2> USE <1>2 DEF CompileBegin
    <2>1. UNCHANGED rest
      BY DEF rest
    <2>2. query \in Queries /\ rpc' \in {"store", "row"}
      BY DEF IInv, ReaderInv
    <2>3. walk' \in Walks /\ generation \in Nat
      BY <2>2, WalkFromType DEF IInv, TypeOK, Words, generation
    <2>4. TypeOK'
      BY <2>1, <2>2, <2>3, ReaderTypes DEF IInv, TypeOK
    <2>5. \A i \in Sides : walk'.at[i] \in Frames
      BY <2>2 DEF WalkFrom, Sides
    <2>6. ReaderInv'
      BY <2>1, <2>2, <2>5, RestKept DEF IInv, ReaderInv
    <2> QED
      BY <2>1, <2>4, <2>6, RestKept DEF IInv
  <1>3. CASE Return
    <2> USE <1>3 DEF Return
    <2>1. UNCHANGED rest
      BY DEF rest
    <2>2. NoWalk \in Walks /\ NoRow \in Rows
      BY WalkFromType DEF NoWalk, NoRow, Rows, NoFrame, NoEdge
    <2>3. TypeOK'
      BY <2>1, <2>2, ReaderTypes, FirstWordType DEF IInv, TypeOK
    <2>4. ReaderInv'
      BY <2>1, RestKept, FirstWordType DEF IInv, ReaderInv
    <2> QED
      BY <2>1, <2>3, <2>4, RestKept DEF IInv
  <1> QED
    BY <1>1, <1>2, <1>3

LEMMA AnswerStep ==
    ASSUME IInv, RowNewer \/ CompileEnd \/ StorePlan \/ StoreRefusal \/ PinGuard
    PROVE  IInv'
  <1>1. UNCHANGED rest /\ tries' = tries /\ tries \in Nat
    BY DEF RowNewer, CompileEnd, StorePlan, StoreRefusal, PinGuard, rest, IInv, TypeOK
  <1>2. CASE RowNewer
    BY <1>1, <1>2, ReaderElsewhere DEF RowNewer
  <1>3. CASE CompileEnd
    BY <1>1, <1>3, ReaderElsewhere DEF CompileEnd
  <1>4. CASE StorePlan
    BY <1>1, <1>4, ReaderElsewhere DEF StorePlan
  <1>5. CASE StoreRefusal
    BY <1>1, <1>5, ReaderElsewhere DEF StoreRefusal
  <1>6. CASE PinGuard
    BY <1>1, <1>6, ReaderElsewhere DEF PinGuard
  <1> QED
    BY <1>2, <1>3, <1>4, <1>5, <1>6

\* A step of read_frame: what has been loaded from the active block is right.
LEMMA RowStep ==
    ASSUME IInv, RowBegin \/ (\E f \in Fields : RowLoad(f)) \/ RowTorn
    PROVE  IInv'
  <1> USE TopologyAssumption
  <1>1. CASE RowBegin
    <2> USE <1>1 DEF RowBegin
    <2>1. UNCHANGED rest
      BY DEF rest
    <2>2. NoRow \in Rows
      BY DEF NoRow, Rows, NoFrame, NoEdge
    <2>3. TypeOK'
      BY <2>1, <2>2, ReaderTypes DEF IInv, TypeOK
    <2>4. generation \in Nat /\ seen'.generation <= generation
      BY DEF IInv, TypeOK, Words, generation
    <2>5. ReaderInv'
      BY <2>1, <2>4, RestKept DEF IInv, ReaderInv, Fields
    <2> QED
      BY <2>1, <2>3, <2>5, RestKept DEF IInv
  <1>2. ASSUME NEW f \in Fields, RowLoad(f) PROVE IInv'
    <2> USE <1>2 DEF RowLoad
    <2> DEFINE v == blocks[seen.active][f][walk.at[Side]]
    <2>1. UNCHANGED rest /\ Side' = Side
      BY DEF rest, Side
    <2>2. walk.at[Side] \in Frames /\ blocks[seen.active] \in BlockValues
      BY DEF IInv, ReaderInv, TypeOK, Words, Side, Sides
    <2>3. row' \in Rows /\ row'[f] = v /\ \A g \in Fields \ {f} : row'[g] = row[g]
      <3>0. row' = [row EXCEPT ![f] = v] /\ row \in Rows
        BY DEF IInv, TypeOK
      <3>1. CASE f = "parent"
        BY <2>2, <3>0, <3>1 DEF Rows, BlockValues, Fields
      <3>2. CASE f = "edge"
        BY <2>2, <3>0, <3>2 DEF Rows, BlockValues, Fields
      <3>3. CASE f = "depth"
        BY <2>2, <3>0, <3>3 DEF Rows, BlockValues, Fields
      <3> QED
        BY <3>1, <3>2, <3>3 DEF Fields
    <2>4. loads' \subseteq Fields /\ rpc' \in {"loads", "check"} /\ (rpc' = "check" => loads' = {})
      BY DEF IInv, TypeOK
    <2>5. TypeOK'
      BY <2>1, <2>3, <2>4, ReaderTypes DEF IInv, TypeOK
    <2>6. word = seen => \A g \in Fields \ loads' : row'[g] = blocks[word.active][g][walk.at[Side]]
      BY <2>3 DEF IInv, ReaderInv
    <2>7. ReaderInv'
      BY <2>1, <2>4, <2>6, RestKept DEF IInv, ReaderInv
    <2> QED
      BY <2>1, <2>5, <2>7, RestKept DEF IInv
  <1>3. CASE RowTorn
    <2> USE <1>3 DEF RowTorn
    <2>1. UNCHANGED rest
      BY DEF rest
    <2>2. tries' \in Nat /\ rpc' \in {"refuse", "row"}
      BY DEF IInv, TypeOK
    <2>3. TypeOK'
      BY <2>1, <2>2, ReaderTypes DEF IInv, TypeOK
    <2>4. ReaderInv'
      BY <2>1, <2>2, RestKept DEF IInv, ReaderInv
    <2> QED
      BY <2>1, <2>3, <2>4, RestKept DEF IInv
  <1> QED
    BY <1>1, <1>2, <1>3

\* A turn of compile's loops moves to frames, never past a root.
LEMMA TurnMoves ==
    ASSUME NEW w \in Walks, \A i \in Sides : w.at[i] \in Frames, Refusal(w) = "none"
    PROVE  MovedUp(w) \in Walks /\ \A i \in Sides : MovedUp(w).at[i] \in Frames
  <1>1. LoopOf(w) \in {"target", "source", "both"}
    BY DEF LoopOf
  <1>2. Climbing(w) \subseteq Sides
    BY <1>1 DEF Climbing, Sides
  <1>3. \A i \in Climbing(w) : w.row[i].parent # NoFrame
    BY DEF Refusal
  <1>4. \A i \in Sides : w.row[i] \in Rows /\ w.path[i] \in Seq(Nat)
    BY DEF Walks
  <1>5. \A i \in Climbing(w) : w.row[i].parent \in Frames /\ Append(w.path[i], w.row[i].edge) \in Seq(Nat)
    BY <1>2, <1>3, <1>4 DEF Rows
  <1> DEFINE at == [i \in Sides |-> IF i \in Climbing(w) THEN w.row[i].parent ELSE w.at[i]]
             path == [i \in Sides |-> IF i \in Climbing(w) THEN Append(w.path[i], w.row[i].edge)
                                                           ELSE w.path[i]]
  <1>6. at \in [Sides -> Frames] /\ path \in [Sides -> Seq(Nat)]
    BY <1>4, <1>5
  <1>7. MovedUp(w) = [w EXCEPT !.at = at, !.path = path, !.loop = LoopOf(w), !.want = Climbing(w)]
    BY DEF MovedUp
  <1> HIDE DEF at, path
  <1>8. MovedUp(w) = [at |-> at, row |-> w.row, want |-> Climbing(w), loop |-> LoopOf(w), path |-> path]
    BY <1>7 DEF Walks
  <1> QED
    BY <1>1, <1>2, <1>6, <1>8 DEF Walks

LEMMA RowTakenStep ==
    ASSUME IInv, RowTaken
    PROVE  IInv'
  <1> DEFINE w == [walk EXCEPT !.row[Side] = row, !.want = @ \ {Side}]
  <1>1. UNCHANGED rest /\ rpc = "check" /\ UNCHANGED <<query, key, start, seen, row, loads, cache>> /\ tries' = 0
    BY DEF RowTaken, rest
  <1>2. w \in Walks /\ \A i \in Sides : w.at[i] \in Frames
    BY <1>1 DEF IInv, TypeOK, ReaderInv, Walks, Side, Sides
  <1>3. \/ walk' = w /\ rpc' \in {"row", "end", "refuse"}
        \/ walk' = MovedUp(w) /\ rpc' = "row" /\ Refusal(w) = "none"
    BY DEF RowTaken
  <1> HIDE DEF w
  <1>4. walk' \in Walks /\ rpc' \in {"row", "end", "refuse"} /\ \A i \in Sides : walk'.at[i] \in Frames
    BY <1>2, <1>3, TurnMoves
  <1>5. TypeOK'
    BY <1>1, <1>4, ReaderTypes DEF IInv, TypeOK
  <1>6. ReaderInv'
    BY <1>1, <1>4, RestKept DEF IInv, ReaderInv
  <1> QED
    BY <1>1, <1>5, <1>6, RestKept DEF IInv

-------------------------------------------------------------------------------
(* The invariant and what follows from it. *)

LEMMA StepIInv == IInv /\ [Next]_vars => IInv'
  <1> SUFFICES ASSUME IInv, [Next]_vars PROVE IInv'
    OBVIOUS
  <1>1. ASSUME NEW p \in Procs, NEW s \in Slots, Register(p, s) PROVE IInv'
    BY <1>1, LifecycleStep
  <1>2. ASSUME NEW p \in Procs, NEW m \in Moves, Reparent(p, m) PROVE IInv'
    BY <1>2, LockStep
  <1>3. ASSUME NEW p \in Procs, Mutate(p) PROVE IInv'
    <2>1. CASE Acquire(p) \/ DropGuards(p)
      <3>1. \/ LockCas(p) \/ Inspect(p) \/ ReleaseWord(p) \/ ReleaseByte(p)
        BY <2>1 DEF Acquire, DropGuards
      <3>2. PICK m \in Moves : TRUE
        BY <3>1 DEF IInv, LockInv, InLock, LockCas, Inspect, ReleaseWord, ReleaseByte, At
      <3> QED
        BY <3>1, <3>2, LockStep
    <2>2. CASE ReadEdge(p) \/ set_parent(p)
      BY <2>2, PrepareStep, FillStep, PublishStep DEF set_parent
    <2> QED
      BY <1>3, <2>1, <2>2 DEF Mutate
  <1>4. ASSUME NEW p \in Procs, Kill(p) PROVE IInv'
    BY <1>4, LifecycleStep, TopologyAssumption
  <1>5. ASSUME NEW s \in Slots, Reclaim(s) PROVE IInv'
    BY <1>5, LifecycleStep, TopologyAssumption
  <1>6. ASSUME NEW q \in Queries, Lookup(q) PROVE IInv'
    BY <1>6, CallStep
  <1>7. CASE Read
    <2>1. CASE CompileBegin \/ Return
      <3>1. query \in Queries
        BY <2>1 DEF IInv, ReaderInv, CompileBegin, Return
      <3> QED
        BY <2>1, <3>1, CallStep
    <2>2. CASE RowNewer \/ CompileEnd \/ StorePlan \/ StoreRefusal \/ PinGuard
      BY <2>2, AnswerStep
    <2>3. CASE RowBegin \/ (\E f \in Fields : RowLoad(f)) \/ RowTorn
      BY <2>3, RowStep
    <2>4. CASE RowTaken
      BY <2>4, RowTakenStep
    <2> QED
      BY <1>7, <2>1, <2>2, <2>3, <2>4 DEF Read, with_plan, compile, read_frame
  <1>8. CASE UNCHANGED vars
    <2>1. UNCHANGED rest /\ UNCHANGED reader
      BY <1>8 DEF vars, rest
    <2>2. TypeOK'
      BY <2>1, ReaderTypes DEF IInv, TypeOK, reader
    <2>3. ReaderInv'
      BY <2>1, ReaderFrame DEF IInv, rest
    <2> QED
      BY <2>1, <2>2, <2>3, RestKept DEF IInv
  <1> QED
    BY <1>1, <1>2, <1>3, <1>4, <1>5, <1>6, <1>7, <1>8 DEF Next

\* IInv is an inductive invariant of the topology.
THEOREM InvariantHolds == Spec => []IInv
  BY InitIInv, StepIInv, PTL DEF Spec

\* Every variable keeps its type: in particular the active block's index stays
\* among the blocks, and a walk never leaves the frames.
THEOREM TypeCorrect == Spec => []TypeOK
  <1>1. IInv => TypeOK
    BY DEF IInv
  <1> QED
    BY <1>1, InvariantHolds, PTL

\* The active block is the published forest, wherever mutators are and whoever
\* of them was killed, for any number of processes and blocks (set_parent).
THEOREM ActiveIntactHolds == Spec => []ActiveIntact
  <1>1. IInv => ActiveIntact
    BY DEF IInv
  <1> QED
    BY <1>1, InvariantHolds, PTL

\* T2 of decision 0029: behind the byte, a taken word is a dead process' word.
THEOREM ByteMeansDeadHolds == Spec => []ByteMeansDead
  <1>1. IInv => ByteMeansDead
    BY DEF IInv, ByteMeansDead, LockInv, InLock, HasWord
  <1> QED
    BY <1>1, InvariantHolds, PTL

LEMMA IInvRowWhole == IInv => RowWhole
  <1> SUFFICES ASSUME IInv, rpc = "check", word = seen
               PROVE  row = RowOf(BlockOf(hist[seen.generation]), walk.at[Side])
    BY DEF RowWhole
  <1>1. \A f \in Fields : row[f] = blocks[word.active][f][walk.at[Side]]
    BY DEF IInv, ReaderInv
  <1>2. blocks[word.active] = BlockOf(hist[seen.generation])
    BY DEF IInv, ActiveIntact, generation
  <1>3. row \in Rows
    BY DEF IInv, TypeOK
  <1>4. /\ row.parent = blocks[word.active].parent[walk.at[Side]]
        /\ row.edge = blocks[word.active].edge[walk.at[Side]]
        /\ row.depth = blocks[word.active].depth[walk.at[Side]]
    BY <1>1 DEF Fields
  <1> QED
    BY <1>2, <1>3, <1>4 DEF RowOf, Rows

\* A row read_frame accepts is the frame's row of the generation it names.
THEOREM RowWholeHolds == Spec => []RowWhole
  BY IInvRowWhole, InvariantHolds, PTL

-------------------------------------------------------------------------------
(* What is published stays a forest. *)

\* Only the store of the word changes the active block.
LEMMA ActiveKept ==
    ASSUME IInv, IInv', UNCHANGED <<word, hist>>
    PROVE  blocks'[word'.active] = blocks[word.active]
  BY DEF IInv, ActiveIntact, generation

\* What the moves in progress rest on, while the active block stays.
LEMMA ForestKept ==
    ASSUME IInv, IInv', ForestInv, UNCHANGED <<word, hist>>,
           \A q \in Procs : Moving(q)' =>
              Moving(q) /\ edge'[q] = edge[q] /\ move'[q] = move[q] /\ (Checked(q)' => Checked(q))
    PROVE  ForestInv'
  BY ActiveKept DEF ForestInv, Moving, Checked, Rooted

\* A step of p that changes no local of another process.
LEMMA ForestKeptBy ==
    ASSUME IInv, IInv', ForestInv, UNCHANGED <<word, hist>>, NEW p \in Procs,
           \A q \in Procs \ {p} : mpc'[q] = mpc[q] /\ edge'[q] = edge[q] /\ move'[q] = move[q],
           Moving(p)' => Moving(p) /\ edge'[p] = edge[p] /\ move'[p] = move[p] /\ (Checked(p)' => Checked(p))
    PROVE  ForestInv'
  <1>1. ASSUME NEW q \in Procs, Moving(q)'
        PROVE  Moving(q) /\ edge'[q] = edge[q] /\ move'[q] = move[q] /\ (Checked(q)' => Checked(q))
    <2>1. CASE q = p
      BY <1>1, <2>1
    <2>2. CASE q # p
      BY <1>1, <2>2 DEF Moving, Checked
    <2> QED
      BY <2>1, <2>2
  <1> QED
    BY <1>1, ForestKept

LEMMA RootedInit ==
    ASSUME Rooted(Built[BuildSteps]), Init
    PROVE  ForestInv
  <1>1. blocks[word.active] = BlockOf(Built[BuildSteps])
    BY InitIInv, FirstWordType DEF IInv, ActiveIntact, Init, generation
  <1>2. Rooted(blocks[word.active])
    BY <1>1 DEF Rooted, BlockOf
  <1>3. \A p \in Procs : ~Moving(p) /\ ~Checked(p)
    BY DEF Init, Moving, Checked
  <1> QED
    BY <1>2, <1>3 DEF ForestInv

LEMMA StepForest == IInv /\ IInv' /\ ForestInv /\ [Next]_vars => ForestInv'
  <1> SUFFICES ASSUME IInv, IInv', ForestInv, [Next]_vars PROVE ForestInv'
    OBVIOUS
  <1>0. /\ mpc \in [Procs -> Steps] /\ edge \in [Procs -> Nat] /\ move \in [Procs -> Moves \cup {NoMove}]
        /\ word \in Words /\ blocks \in [0 .. Blocks - 1 -> BlockValues]
        /\ hist \in [0 .. generation -> Forests] /\ generation \in Nat
    BY DEF IInv, TypeOK, Words, generation
  <1> DEFINE now == blocks[word.active]
  <1>1. now \in BlockValues /\ now = BlockOf(hist[generation]) /\ hist[generation] \in Forests
    BY <1>0 DEF Words, IInv, ActiveIntact
  <1>2. now.parent \in Parents /\ now.edge \in [Frames -> Nat]
        /\ now.parent = hist[generation].parent /\ now.edge = hist[generation].edge
    BY <1>1 DEF BlockValues, Parents, BlockOf
  <1>3. ASSUME NEW p \in Procs, NEW s \in Slots, Register(p, s) PROVE ForestInv'
    BY <1>0, <1>3, ForestKeptBy DEF Register, At, Jump, arena, Moving
  <1>4. ASSUME NEW p \in Procs, NEW m \in Moves, Reparent(p, m) PROVE ForestInv'
    BY <1>0, <1>4, ForestKeptBy DEF Reparent, At, Jump, arena, Moving
  <1>5. ASSUME NEW p \in Procs, Kill(p) PROVE ForestInv'
    BY <1>0, <1>5, ForestKeptBy DEF Kill, Jump, Forget, arena, Moving
  <1>6. ASSUME NEW p \in Procs, LockCas(p) PROVE ForestInv'
    BY <1>0, <1>6, ForestKeptBy DEF LockCas, At, Jump, arena, Moving
  <1>7. ASSUME NEW p \in Procs, Inspect(p) PROVE ForestInv'
    BY <1>0, <1>7, ForestKeptBy DEF Inspect, At, Jump, arena, Moving
  <1>8. ASSUME NEW p \in Procs, LoadWord(p) PROVE ForestInv'
    BY <1>0, <1>8, ForestKeptBy DEF LoadWord, At, Jump, arena, Moving, Checked
  <1>9. ASSUME NEW p \in Procs, NEW f \in Frames, NEW parent, NEW e, NEW depth, NEW l, NEW r,
               StoreRow(p, f, parent, e, depth, l, r), Moving(p),
               l \in {"link", "check"} \/ Checked(p)
        PROVE  ForestInv'
    <2>1. word' = word /\ hist' = hist /\ edge' = edge /\ move' = move
      BY <1>9 DEF StoreRow
    <2>2. mpc' = [mpc EXCEPT ![p] = l] \/ mpc' = mpc
      BY <1>9 DEF StoreRow, Jump
    <2>3. \A q \in Procs \ {p} : mpc'[q] = mpc[q]
      BY <1>0, <2>2
    <2>4. Checked(p)' => Checked(p)
      BY <1>0, <1>9, <2>2 DEF Checked
    <2> QED
      BY <1>9, <2>1, <2>3, <2>4, ForestKeptBy
  <1>10. ASSUME NEW p \in Procs, Copy(p) \/ Link(p) \/ recompute_depths(p) PROVE ForestInv'
    BY <1>9, <1>10 DEF Copy, Link, recompute_depths, At, Moving, Checked
  <1>11. ASSUME NEW p \in Procs, ReleaseWord(p) \/ ReleaseByte(p) PROVE ForestInv'
    BY <1>0, <1>11, ForestKeptBy DEF ReleaseWord, ReleaseByte, At, Jump, Forget, arena, Moving
  <1>12. ASSUME NEW p \in Procs, ReadEdge(p) PROVE ForestInv'
    <2>1. /\ mpc[p] = "edge" /\ word' = word /\ hist' = hist /\ move' = move
          /\ edge' = [edge EXCEPT ![p] = now.edge[move[p].child]]
          /\ mpc' = [mpc EXCEPT ![p] = IF now.edge[move[p].child] = NoEdge THEN "word" ELSE "load"]
      BY <1>12 DEF ReadEdge, At, Jump, arena
    <2>2. blocks'[word'.active] = now
      BY <2>1, ActiveKept
    <2>3. ASSUME NEW q \in Procs, Moving(q)'
          PROVE  edge'[q] = now.edge[move'[q].child] /\ edge'[q] # NoEdge
      <3>1. CASE q = p
        BY <1>0, <2>1, <2>3, <3>1 DEF Moving
      <3>2. CASE q # p
        BY <1>0, <2>1, <2>3, <3>2 DEF Moving, ForestInv
      <3> QED
        BY <3>1, <3>2
    <2>4. ASSUME NEW q \in Procs, Checked(q)' PROVE Checked(q) /\ move'[q] = move[q]
      BY <1>0, <2>1, <2>4 DEF Checked
    <2> QED
      BY <2>2, <2>3, <2>4 DEF ForestInv
  <1>13. ASSUME NEW p \in Procs, CheckCycle(p) PROVE ForestInv'
    <2> DEFINE next == blocks[NextBlock(base[p])].parent
    <2>1. /\ mpc[p] = "check" /\ word' = word /\ hist' = hist /\ move' = move /\ edge' = edge
          /\ mpc' = [mpc EXCEPT ![p] = IF creates_cycle(next, move[p].child) THEN "word" ELSE "depth"]
      BY <1>13 DEF CheckCycle, At, Jump, arena
    <2>2. blocks'[word'.active] = now
      BY <2>1, ActiveKept
    <2>3. /\ next = [now.parent EXCEPT ![move[p].child] = move[p].parent]
          /\ move[p].child \in Frames /\ move[p].parent \in Frames
      <3>1. base[p] = word /\ Linked(now, blocks[NextBlock(word)], p)
        BY <2>1 DEF IInv, FillInv, FillAt, Filling
      <3>2. move[p] \in Moves
        BY <2>1 DEF IInv, LockInv, InLock
      <3> QED
        BY <3>1, <3>2, TopologyAssumption DEF Linked
    <2>4. ASSUME NEW q \in Procs, Moving(q)' PROVE Moving(q)
      BY <1>0, <2>1, <2>4 DEF Moving
    <2>5. ASSUME NEW q \in Procs, Checked(q)'
          PROVE  Acyclic([now.parent EXCEPT ![move[q].child] = move[q].parent])
      <3>1. CASE q = p
        <4>1. ~creates_cycle(next, move[p].child)
          BY <1>0, <2>1, <2>5, <3>1 DEF Checked
        <4>2. Acyclic(now.parent)
          BY DEF ForestInv, Rooted
        <4> HIDE DEF next, now
        <4> QED
          BY <1>2, <2>3, <3>1, <4>1, <4>2, MoveKeepsAcyclic
      <3>2. CASE q # p
        BY <1>0, <2>1, <2>5, <3>2 DEF Checked, ForestInv
      <3> QED
        BY <3>1, <3>2
    <2> QED
      BY <2>1, <2>2, <2>4, <2>5 DEF ForestInv
  <1>14. ASSUME NEW p \in Procs, Publish(p) PROVE ForestInv'
    <2> DEFINE c == move[p].child
               m == move[p].parent
               then == blocks'[word'.active]
    <2>1. /\ mpc[p] = "publish" /\ mpc' = [mpc EXCEPT ![p] = "word"] /\ base[p] = word
      BY <1>14 DEF Publish, At, Jump, IInv, FillInv, FillAt, Filling
    <2>2. generation' = generation + 1
      BY <1>14, <2>1 DEF Publish, generation, pack_topo
    <2>3. hist'[generation + 1] = Attach(hist[generation], c, m, edge[p])
      BY <1>0, <1>14 DEF Publish
    <2>4. then = BlockOf(Attach(hist[generation], c, m, edge[p]))
      BY <2>2, <2>3 DEF IInv, ActiveIntact
    <2>5. /\ then.parent = [now.parent EXCEPT ![c] = m]
          /\ then.edge = [now.edge EXCEPT ![c] = edge[p]]
      BY <1>2, <2>4 DEF BlockOf, Attach
    <2>6. /\ Acyclic([now.parent EXCEPT ![c] = m]) /\ edge[p] # NoEdge
          /\ \A f \in Frames : now.parent[f] # NoFrame => now.edge[f] # NoEdge
      BY <2>1 DEF ForestInv, Moving, Checked, Rooted
    <2>7. \A q \in Procs : ~Moving(q)' /\ ~Checked(q)'
      <3>1. ASSUME NEW q \in Procs, q # p PROVE ~InLock(q)
        BY <2>1, <3>1 DEF IInv, LockInv, InLock
      <3> QED
        BY <1>0, <2>1, <3>1 DEF InLock, Moving, Checked
    <2>8. Rooted(then)
      <3>1. Acyclic(then.parent)
        BY <2>5, <2>6
      <3>2. ASSUME NEW f \in Frames, then.parent[f] # NoFrame PROVE then.edge[f] # NoEdge
        <4> HIDE DEF then, now, c, m
        <4>1. CASE f = c
          BY <1>2, <2>5, <2>6, <4>1
        <4>2. CASE f # c
          BY <1>2, <2>5, <2>6, <3>2, <4>2
        <4> QED
          BY <4>1, <4>2
      <3> QED
        BY <3>1, <3>2 DEF Rooted
    <2> QED
      BY <2>7, <2>8 DEF ForestInv
  <1>15. ASSUME NEW s \in Slots, Reclaim(s) PROVE ForestInv'
    BY <1>15, ForestKept DEF Reclaim, arena, mutators, Moving, Checked
  <1>16. ASSUME (\E q \in Queries : Lookup(q)) \/ Read PROVE ForestInv'
    <2>1. UNCHANGED <<arena, mutators, hist>>
      BY <1>16 DEF Lookup, Read, with_plan, compile, read_frame, CompileBegin, RowBegin, RowLoad, RowTorn,
                   RowNewer, RowTaken, CompileEnd, StorePlan, StoreRefusal, PinGuard, Return
    <2> QED
      BY <2>1, ForestKept DEF arena, mutators, Moving, Checked
  <1>17. CASE UNCHANGED vars
    BY <1>17, ForestKept DEF vars, arena, mutators, Moving, Checked
  <1> QED
    BY <1>3, <1>4, <1>5, <1>6, <1>7, <1>8, <1>10, <1>11, <1>12, <1>13, <1>14, <1>15, <1>16, <1>17
       DEF Next, Mutate, Acquire, set_parent, DropGuards

\* What is published is a forest, whatever order the moves of any number of
\* processes come in: no frame is its own ancestor, every depth is one more than
\* the parent's and every link has its edge (set_parent, creates_cycle,
\* recompute_depths), as long as the arena was built as one.
THEOREM PublishedForestHolds ==
    ASSUME Rooted(Built[BuildSteps])
    PROVE  Spec => []PublishedForest
  <1>1. Init => ForestInv
    BY RootedInit
  <1>2. IInv /\ ForestInv => PublishedForest
    <2> SUFFICES ASSUME IInv, ForestInv PROVE PublishedForest
      OBVIOUS
    <2> DEFINE now == blocks[word.active]
    <2>1. /\ now \in BlockValues /\ now = BlockOf(hist[generation])
      BY DEF IInv, TypeOK, Words, ActiveIntact
    <2>2. /\ now.parent \in Parents
          /\ \A f \in Frames : now.depth[f] = depth_of(now.parent, f)
      <3>1. now.parent = hist[generation].parent
            /\ now.depth = [f \in Frames |-> depth_of(hist[generation].parent, f)]
        BY <2>1 DEF BlockOf
      <3>2. now.parent \in Parents
        BY <2>1 DEF BlockValues, Parents
      <3> HIDE DEF now
      <3> QED
        BY <3>1, <3>2
    <2>3. Acyclic(now.parent) /\ \A f \in Frames : now.parent[f] # NoFrame => now.edge[f] # NoEdge
      BY DEF ForestInv, Rooted
    <2>4. ASSUME NEW f \in Frames
          PROVE  now.depth[f] = IF now.parent[f] = NoFrame THEN 0 ELSE now.depth[now.parent[f]] + 1
      <3>1. depth_of(now.parent, f) = IF now.parent[f] = NoFrame THEN 0
                                      ELSE depth_of(now.parent, now.parent[f]) + 1
        <4> HIDE DEF now
        <4> QED
          BY <2>2, <2>3, DepthIs
      <3>2. now.parent[f] = NoFrame \/ now.parent[f] \in Frames
        BY <2>2 DEF Parents
      <3> HIDE DEF now
      <3> QED
        BY <2>2, <3>1, <3>2
    <2> QED
      BY <2>3, <2>4 DEF PublishedForest
  <1> QED
    BY <1>1, <1>2, StepForest, InvariantHolds, PTL DEF Spec

-------------------------------------------------------------------------------
(* The walk of compile, in one forest. *)

Ends == [target : Frames, source : Frames]

\* A walk that has both its rows.
AtTurn(forest, q, w) ==
    /\ forest \in Forests /\ Rooted(forest)
    /\ q \in Ends
    /\ w \in Walks /\ w.want = {}
    /\ WalkAt(forest, q, w)

From(q, i) == IF i = 1 THEN q.target ELSE q.source
Past(forest, q, w, i) == Ancestors(forest.parent, From(q, i)) \ Ancestors(forest.parent, w.at[i])

\* WalkAt, side by side.
LEMMA WalkParts ==
    ASSUME NEW forest, NEW q, NEW w
    PROVE  WalkAt(forest, q, w) <=>
              /\ \A i \in Sides :
                    /\ w.at[i] \in Ancestors(forest.parent, From(q, i))
                    /\ Lists(forest, Past(forest, q, w, i), w.path[i])
                    /\ \A f \in Past(forest, q, w, i) :
                          /\ forest.parent[f] # NoFrame
                          /\ depth_of(forest.parent, w.at[i]) < depth_of(forest.parent, f)
                    /\ i \notin w.want => w.row[i] = RowOf(BlockOf(forest), w.at[i])
              /\ \A i, j \in Sides :
                    i # j => Past(forest, q, w, i) \cap Ancestors(forest.parent, From(q, j)) = {}
              /\ w.loop = "source" =>
                    depth_of(forest.parent, w.at[1]) <= depth_of(forest.parent, w.at[2])
              /\ w.loop = "both" =>
                    depth_of(forest.parent, w.at[1]) = depth_of(forest.parent, w.at[2])
              /\ Climbed(w) <= MaxPath
  <1>1. \A i \in Sides : WalkFrom(q).at[i] = From(q, i)
    BY DEF WalkFrom, From
  <1>2. 1 \in Sides /\ 2 \in Sides /\ \A i \in Sides : i = 1 \/ i = 2
    BY DEF Sides
  <1>3. \A i \in Sides : Past(forest, q, w, i) =
           Ancestors(forest.parent, WalkFrom(q).at[i]) \ Ancestors(forest.parent, w.at[i])
    BY <1>1 DEF Past
  <1>4. (\A i, j \in Sides :
            i # j => Past(forest, q, w, i) \cap Ancestors(forest.parent, From(q, j)) = {})
        <=> /\ Past(forest, q, w, 1) \cap Ancestors(forest.parent, From(q, 2)) = {}
            /\ Past(forest, q, w, 2) \cap Ancestors(forest.parent, From(q, 1)) = {}
    BY <1>2
  <1> DEFINE up(f) == Ancestors(forest.parent, f)
             d(f) == depth_of(forest.parent, f)
             at(i) == WalkFrom(q).at[i]
             past(i) == up(at(i)) \ up(w.at[i])
             OneSide(i) ==
                /\ w.at[i] \in up(at(i))
                /\ Lists(forest, past(i), w.path[i])
                /\ \A f \in past(i) : forest.parent[f] # NoFrame /\ d(w.at[i]) < d(f)
                /\ i \notin w.want => w.row[i] = RowOf(BlockOf(forest), w.at[i])
             Rest == /\ w.loop = "source" => d(w.at[1]) <= d(w.at[2])
                     /\ w.loop = "both" => d(w.at[1]) = d(w.at[2])
                     /\ Climbed(w) <= MaxPath
  <1>5. WalkAt(forest, q, w) <=>
           /\ \A i \in Sides : OneSide(i)
           /\ past(1) \cap up(at(2)) = {} /\ past(2) \cap up(at(1)) = {}
           /\ Rest
    BY Zenon DEF WalkAt
  <1>6. \A i \in Sides : OneSide(i) <=>
           /\ w.at[i] \in Ancestors(forest.parent, From(q, i))
           /\ Lists(forest, Past(forest, q, w, i), w.path[i])
           /\ \A f \in Past(forest, q, w, i) :
                 /\ forest.parent[f] # NoFrame
                 /\ depth_of(forest.parent, w.at[i]) < depth_of(forest.parent, f)
           /\ i \notin w.want => w.row[i] = RowOf(BlockOf(forest), w.at[i])
    BY <1>1, <1>3, Zenon
  <1>7. /\ past(1) = Past(forest, q, w, 1) /\ past(2) = Past(forest, q, w, 2)
        /\ up(at(1)) = Ancestors(forest.parent, From(q, 1))
        /\ up(at(2)) = Ancestors(forest.parent, From(q, 2))
    BY <1>1, <1>2, <1>3, Zenon
  <1> HIDE DEF OneSide, past, up, at
  <1> QED
    BY <1>4, <1>5, <1>6, <1>7, Zenon DEF Rest

\* What the two rows say, and which loop they put the walk into.
LEMMA TurnRows ==
    ASSUME NEW forest, NEW q, NEW w, AtTurn(forest, q, w)
    PROVE  /\ forest.parent \in Parents /\ Acyclic(forest.parent)
           /\ \A i \in Sides :
                /\ From(q, i) \in Frames /\ w.at[i] \in Frames
                /\ w.row[i].parent = forest.parent[w.at[i]]
                /\ w.row[i].edge = forest.edge[w.at[i]]
                /\ w.row[i].depth = depth_of(forest.parent, w.at[i])
                /\ depth_of(forest.parent, w.at[i]) \in Nat
  <1>1. forest.parent \in Parents /\ Acyclic(forest.parent)
    BY DEF AtTurn, Forests, Parents, Rooted
  <1>2. ASSUME NEW i \in Sides PROVE From(q, i) \in Frames
    BY DEF AtTurn, Ends, From
  <1>3. ASSUME NEW i \in Sides PROVE w.at[i] \in Frames
    <2>1. w.at[i] \in Ancestors(forest.parent, From(q, i))
      BY WalkParts DEF AtTurn
    <2> QED
      BY <1>1, <1>2, <2>1, AncestorsType
  <1>4. ASSUME NEW i \in Sides PROVE w.row[i] = RowOf(BlockOf(forest), w.at[i])
    BY WalkParts DEF AtTurn
  <1>5. ASSUME NEW i \in Sides
        PROVE  /\ w.row[i].parent = forest.parent[w.at[i]]
               /\ w.row[i].edge = forest.edge[w.at[i]]
               /\ w.row[i].depth = depth_of(forest.parent, w.at[i])
    <2>1. w.at[i] \in Frames
      BY <1>3
    <2>2. w.row[i] = [parent |-> forest.parent[w.at[i]], edge |-> forest.edge[w.at[i]],
                      depth |-> depth_of(forest.parent, w.at[i])]
      BY <1>4, <2>1 DEF RowOf, BlockOf
    <2> QED
      BY <2>2
  <1> QED
    BY <1>1, <1>2, <1>3, <1>5, DepthType

LEMMA TurnLoop ==
    ASSUME NEW forest, NEW q, NEW w, AtTurn(forest, q, w)
    PROVE  LET d(i) == depth_of(forest.parent, w.at[i]) IN
           /\ LoopOf(w) \in {"target", "source", "both"}
           /\ LoopOf(w) = "target" => d(2) < d(1)
           /\ LoopOf(w) = "source" => d(1) < d(2)
           /\ LoopOf(w) = "both" => d(1) = d(2)
  <1> DEFINE d(i) == depth_of(forest.parent, w.at[i])
  <1>1. /\ d(1) \in Nat /\ d(2) \in Nat
        /\ w.row[1].depth = d(1) /\ w.row[2].depth = d(2)
    BY TurnRows DEF Sides
  <1>2. (w.loop = "source" => d(1) <= d(2)) /\ (w.loop = "both" => d(1) = d(2))
    BY WalkParts DEF AtTurn
  <1>3. w.loop \in {"target", "source", "both"}
    BY DEF AtTurn, Walks
  <1> HIDE DEF d
  <1> QED
    BY <1>1, <1>2, <1>3 DEF LoopOf, d

\* A frame that is about to be climbed past is not above the other end.
LEMMA NotShared ==
    ASSUME NEW forest, NEW q, NEW w, AtTurn(forest, q, w), NEW i \in Sides, NEW j \in Sides, i # j,
           w.at[i] # w.at[j],
           depth_of(forest.parent, w.at[j]) <= depth_of(forest.parent, w.at[i])
    PROVE  /\ w.at[i] \in Ancestors(forest.parent, From(q, i))
           /\ w.at[i] \notin Ancestors(forest.parent, From(q, j))
           /\ w.at[i] \notin Past(forest, q, w, 1) \cup Past(forest, q, w, 2)
  <1>1. /\ w.at[i] \in Ancestors(forest.parent, From(q, i))
        /\ Past(forest, q, w, j) \cap Ancestors(forest.parent, From(q, i)) = {}
    BY WalkParts DEF AtTurn
  <1>2. w.at[i] \notin Ancestors(forest.parent, w.at[j])
    <2>1. w.at[j] \in Frames /\ forest.parent \in Parents /\ Acyclic(forest.parent)
          /\ depth_of(forest.parent, w.at[j]) \in Nat /\ depth_of(forest.parent, w.at[i]) \in Nat
      BY TurnRows
    <2> QED
      BY <2>1, AncestorsAbove
  <1>3. w.at[i] \in Ancestors(forest.parent, w.at[i])
    BY DEF Ancestors
  <1>4. i \in {1, 2} /\ j \in {1, 2}
    BY DEF Sides
  <1> QED
    BY <1>1, <1>2, <1>3, <1>4 DEF Past

\* One more frame is climbed past.
LEMMA PastGrows ==
    ASSUME NEW parent \in Parents, Acyclic(parent), NEW f \in Frames, NEW a \in Ancestors(parent, f),
           parent[a] # NoFrame
    PROVE  /\ parent[a] \in Ancestors(parent, f)
           /\ Ancestors(parent, f) \ Ancestors(parent, parent[a]) =
                 (Ancestors(parent, f) \ Ancestors(parent, a)) \cup {a}
           /\ depth_of(parent, a) = depth_of(parent, parent[a]) + 1
           /\ a \in Frames
  <1>1. a \in Frames /\ parent[a] \in Frames
    BY AncestorsType DEF Parents
  <1>2. Ancestors(parent, a) = {a} \cup Ancestors(parent, parent[a])
    BY <1>1, AncestorsAre
  <1>3. Ancestors(parent, a) \subseteq Ancestors(parent, f)
    BY AncestorsTransitive
  <1>4. depth_of(parent, a) = depth_of(parent, parent[a]) + 1
    BY <1>1, DepthIs
  <1>5. a \notin Ancestors(parent, parent[a])
    <2>1. depth_of(parent, a) \in Nat /\ depth_of(parent, parent[a]) \in Nat
      BY DepthType
    <2> QED
      BY <1>1, <1>4, <2>1, AncestorsAbove
  <1>6. parent[a] \in Ancestors(parent, parent[a])
    BY DEF Ancestors
  <1> QED
    BY <1>1, <1>2, <1>3, <1>4, <1>5, <1>6

LEMMA ListsMore ==
    ASSUME NEW forest \in Forests, NEW chain, NEW path \in Seq(Nat), Lists(forest, chain, path), NEW a \in Frames,
           \A f \in chain : depth_of(forest.parent, a) < depth_of(forest.parent, f)
    PROVE  Lists(forest, chain \cup {a}, Append(path, forest.edge[a]))
  <1> DEFINE n == Len(path)
             d(f) == depth_of(forest.parent, f)
             more == Append(path, forest.edge[a])
  <1>1. PICK e \in [1 .. n -> Frames] :
           /\ chain = {e[k] : k \in 1 .. n}
           /\ path = [k \in 1 .. n |-> forest.edge[e[k]]]
           /\ \A j, k \in 1 .. n : j < k => d(e[k]) < d(e[j])
    BY DEF Lists
  <1>2. n \in Nat /\ Len(more) = n + 1
    OBVIOUS
  <1> DEFINE e1 == [k \in 1 .. n + 1 |-> IF k = n + 1 THEN a ELSE e[k]]
  <1>3. e1 \in [1 .. n + 1 -> Frames]
    OBVIOUS
  <1>4. chain \cup {a} = {e1[k] : k \in 1 .. n + 1}
    <2>1. ASSUME NEW f \in chain PROVE \E k \in 1 .. n + 1 : f = e1[k]
      <3>1. PICK k \in 1 .. n : f = e[k]
        BY <1>1
      <3>2. k \in 1 .. n + 1 /\ k # n + 1
        BY <1>2
      <3> QED
        BY <3>1, <3>2
    <2>2. n + 1 \in 1 .. n + 1 /\ e1[n + 1] = a
      BY <1>2
    <2>3. ASSUME NEW k \in 1 .. n + 1 PROVE e1[k] \in chain \cup {a}
      <3>1. k # n + 1 => k \in 1 .. n
        BY <1>2
      <3> QED
        BY <1>1, <3>1
    <2> HIDE DEF e1
    <2> QED
      BY <2>1, <2>2, <2>3
  <1>5. more = [k \in 1 .. n + 1 |-> forest.edge[e1[k]]]
    <2>1. \A k \in 1 .. n : path[k] = forest.edge[e[k]]
      BY <1>1
    <2>2. more = [k \in 1 .. n + 1 |-> IF k = n + 1 THEN forest.edge[a] ELSE path[k]]
      <3>1. more \in Seq(Nat)
        BY DEF Forests
      <3>2. \A k \in 1 .. n + 1 : more[k] = IF k = n + 1 THEN forest.edge[a] ELSE path[k]
        OBVIOUS
      <3>3. more = [k \in 1 .. n + 1 |-> more[k]]
        BY <1>2, <3>1
      <3> HIDE DEF more
      <3> QED
        BY <3>2, <3>3
    <2>3. ASSUME NEW k \in 1 .. n + 1
          PROVE  forest.edge[e1[k]] = IF k = n + 1 THEN forest.edge[a] ELSE path[k]
      <3>1. k # n + 1 => k \in 1 .. n
        BY <1>2
      <3> QED
        BY <2>1, <3>1
    <2> HIDE DEF e1, more
    <2> QED
      BY <2>2, <2>3
  <1>6. ASSUME NEW j \in 1 .. n + 1, NEW k \in 1 .. n + 1, j < k PROVE d(e1[k]) < d(e1[j])
    <2>1. j \in 1 .. n /\ e1[j] = e[j] /\ e[j] \in chain
      BY <1>1, <1>2, <1>6
    <2>2. CASE k = n + 1
      BY <2>1, <2>2
    <2>3. CASE k # n + 1
      <3>1. k \in 1 .. n
        BY <1>2, <2>3
      <3> QED
        BY <1>1, <1>6, <2>1, <2>3, <3>1
    <2> QED
      BY <2>2, <2>3
  <1> HIDE DEF e1, more
  <1> QED
    BY <1>2, <1>3, <1>4, <1>5, <1>6 DEF Lists, more

\* What has been climbed past is as many frames as the two paths have edges, and
\* the two paths are the edges above them.
LEMMA PastSize ==
    ASSUME NEW forest, NEW q, NEW w, AtTurn(forest, q, w)
    PROVE  LET P(i) == Past(forest, q, w, i) IN
           /\ \A i \in Sides : P(i) \subseteq Frames /\ IsFiniteSet(P(i))
                               /\ w.path[i] = EdgesUp(forest, P(i))
           /\ Cardinality(P(1) \cup P(2)) = Climbed(w)
           /\ Climbed(w) \in Nat /\ Climbed(w) <= MaxPath
           /\ \A f \in P(1) \cup P(2) : forest.parent[f] # NoFrame
  <1> DEFINE P(i) == Past(forest, q, w, i)
             n(i) == Len(w.path[i])
  <1>1. forest \in Forests /\ forest.parent \in Parents /\ Acyclic(forest.parent)
    BY TurnRows DEF AtTurn
  <1>2. ASSUME NEW i \in Sides
        PROVE  /\ P(i) \subseteq Frames /\ IsFiniteSet(P(i)) /\ Cardinality(P(i)) = n(i)
               /\ w.path[i] = EdgesUp(forest, P(i)) /\ n(i) \in Nat
    <2>1. Lists(forest, P(i), w.path[i])
      BY WalkParts DEF AtTurn
    <2>2. n(i) \in Nat
      BY DEF AtTurn, Walks
    <2>3. PICK e \in [1 .. n(i) -> Frames] :
             /\ P(i) = {e[k] : k \in 1 .. n(i)}
             /\ w.path[i] = [k \in 1 .. n(i) |-> forest.edge[e[k]]]
             /\ \A j, k \in 1 .. n(i) :
                   j < k => depth_of(forest.parent, e[k]) < depth_of(forest.parent, e[j])
      BY <2>1, Zenon DEF Lists
    <2>4. P(i) \subseteq Frames
      BY <1>1, TurnRows, AncestorsType DEF Past
    <2> HIDE DEF P, n
    <2> QED
      BY <1>1, <2>2, <2>3, <2>4, EdgesUpAre
  <1>3. 1 \in Sides /\ 2 \in Sides
    BY DEF Sides
  <1>4. P(1) \cap P(2) = {}
    <2>1. P(2) \cap Ancestors(forest.parent, From(q, 1)) = {}
      BY <1>3, WalkParts DEF AtTurn
    <2> QED
      BY <2>1 DEF Past
  <1>5. Cardinality(P(1) \cup P(2)) = n(1) + n(2)
    <2> HIDE DEF P, n
    <2>1. Cardinality(P(1) \cup P(2)) =
             Cardinality(P(1)) + Cardinality(P(2)) - Cardinality(P(1) \cap P(2))
      BY <1>2, <1>3, FS_Union
    <2>2. Cardinality(P(1) \cap P(2)) = 0
      BY <1>4, FS_EmptySet
    <2>3. Cardinality(P(1)) = n(1) /\ Cardinality(P(2)) = n(2) /\ n(1) \in Nat /\ n(2) \in Nat
      BY <1>2, <1>3
    <2> QED
      BY <2>1, <2>2, <2>3
  <1>6. Climbed(w) = n(1) + n(2) /\ Climbed(w) <= MaxPath
    BY WalkParts DEF AtTurn, Climbed
  <1>7. \A f \in P(1) \cup P(2) : forest.parent[f] # NoFrame
    BY <1>3, WalkParts DEF AtTurn
  <1> HIDE DEF P, n
  <1> QED
    BY <1>2, <1>3, <1>5, <1>6, <1>7 DEF P

\* push_edge refuses an edge only when the route has too many.
LEMMA TooDeep ==
    ASSUME NEW forest, NEW q, NEW w, AtTurn(forest, q, w), NEW X,
           IsFiniteSet(X), X \cap (Past(forest, q, w, 1) \cup Past(forest, q, w, 2)) = {},
           \A f \in X : forest.parent[f] # NoFrame,
           LET T == Ancestors(forest.parent, q.target)
               S == Ancestors(forest.parent, q.source)
           IN  X \subseteq (T \ S) \cup (S \ T),
           Climbed(w) + Cardinality(X) > MaxPath
    PROVE  Route(forest, q) = Refused("TreeTooDeep")
  <1> DEFINE T == Ancestors(forest.parent, q.target)
             S == Ancestors(forest.parent, q.source)
             P == Past(forest, q, w, 1) \cup Past(forest, q, w, 2)
             climbed == {f \in (T \ S) \cup (S \ T) : forest.parent[f] # NoFrame}
  <1>1. 1 \in Sides /\ 2 \in Sides /\ From(q, 1) = q.target /\ From(q, 2) = q.source
    BY DEF Sides, From
  <1>2. P \subseteq climbed
    <2>1. Past(forest, q, w, 1) \cap S = {} /\ Past(forest, q, w, 2) \cap T = {}
      BY <1>1, WalkParts DEF AtTurn
    <2>2. Past(forest, q, w, 1) \subseteq T /\ Past(forest, q, w, 2) \subseteq S
      BY <1>1 DEF Past
    <2>3. \A f \in P : forest.parent[f] # NoFrame
      BY PastSize
    <2> QED
      BY <2>1, <2>2, <2>3
  <1>3. IsFiniteSet(P) /\ Cardinality(P) = Climbed(w) /\ Climbed(w) \in Nat
    BY <1>1, PastSize, FS_Union
  <1>4. IsFiniteSet(climbed)
    <2>1. T \subseteq Frames /\ S \subseteq Frames
      BY <1>1, TurnRows, AncestorsType
    <2> QED
      BY <2>1, FramesAssumption, FS_Subset
  <1> HIDE DEF climbed, P
  <1>5. X \cup P \subseteq climbed
    BY <1>2 DEF climbed
  <1>6. X \cap P = {}
    BY DEF P
  <1>7. Cardinality(X \cup P) = Cardinality(X) + Cardinality(P)
    <2>1. Cardinality(X \cup P) = Cardinality(X) + Cardinality(P) - Cardinality(X \cap P)
      BY <1>3, FS_Union
    <2>2. Cardinality(X) \in Nat
      BY FS_CardinalityType
    <2>3. Cardinality(X \cap P) = 0
      BY <1>6, FS_EmptySet
    <2> QED
      BY <1>3, <2>1, <2>2, <2>3
  <1>8. Cardinality(X \cup P) <= Cardinality(climbed)
    BY <1>4, <1>5, FS_Subset
  <1>9. Cardinality(climbed) > MaxPath
    <2>1. Cardinality(X) \in Nat /\ Cardinality(climbed) \in Nat
      BY <1>4, FS_CardinalityType
    <2> QED
      BY <1>3, <1>7, <1>8, <2>1, PathAssumption
  <1> QED
    BY <1>9, Zenon DEF Route, climbed

\* The two ends have met: the paths are the route.
LEMMA MetIsRoute ==
    ASSUME NEW forest, NEW q, NEW w, AtTurn(forest, q, w), w.at[1] = w.at[2]
    PROVE  Found(w.path[1], w.path[2]) = Route(forest, q)
  <1> DEFINE T == Ancestors(forest.parent, q.target)
             S == Ancestors(forest.parent, q.source)
             P(i) == Past(forest, q, w, i)
             up == Ancestors(forest.parent, w.at[1])
             climbed == {f \in (T \ S) \cup (S \ T) : forest.parent[f] # NoFrame}
  <1>1. 1 \in Sides /\ 2 \in Sides /\ From(q, 1) = q.target /\ From(q, 2) = q.source
    BY DEF Sides, From
  <1>2. P(1) = T \ up /\ P(2) = S \ up
    BY <1>1 DEF Past
  <1>3. P(1) \cap S = {} /\ P(2) \cap T = {}
    BY <1>1, WalkParts DEF AtTurn
  <1>4. w.at[1] \in T /\ w.at[2] \in S
    BY <1>1, WalkParts DEF AtTurn
  <1>5. up \subseteq T /\ up \subseteq S /\ w.at[1] \in up
    <2>1. \A i \in Sides : From(q, i) \in Frames
      BY TurnRows
    <2>2. forest.parent \in Parents /\ Acyclic(forest.parent)
      BY TurnRows
    <2>3. up \subseteq T
      BY <1>1, <1>4, <2>1, <2>2, AncestorsTransitive
    <2>4. up \subseteq S
      BY <1>1, <1>4, <2>1, <2>2, AncestorsTransitive
    <2>5. w.at[1] \in up
      BY DEF Ancestors
    <2> QED
      BY <2>3, <2>4, <2>5
  <1>6. P(1) = T \ S /\ P(2) = S \ T
    BY <1>2, <1>3, <1>5
  <1>7. \A f \in P(1) \cup P(2) : forest.parent[f] # NoFrame
    BY PastSize
  <1>8. climbed = P(1) \cup P(2)
    BY <1>6, <1>7
  <1>9. Cardinality(P(1) \cup P(2)) = Climbed(w) /\ Climbed(w) \in Nat /\ Climbed(w) <= MaxPath
    BY PastSize
  <1>10. ~(Cardinality(climbed) > MaxPath)
    BY <1>8, <1>9, PathAssumption
  <1>11. T \cap S # {}
    BY <1>4
  <1>12. w.path[1] = EdgesUp(forest, T \ S) /\ w.path[2] = EdgesUp(forest, S \ T)
    <2>1. \A i \in Sides : w.path[i] = EdgesUp(forest, P(i))
      BY PastSize
    <2> HIDE DEF P
    <2> QED
      BY <1>1, <1>6, <2>1
  <1> QED
    BY <1>10, <1>11, <1>12, Zenon DEF Route

\* Both walks are at roots, which differ: there is no route.
LEMMA RootsApart ==
    ASSUME NEW forest, NEW q, NEW w, AtTurn(forest, q, w), w.at[1] # w.at[2],
           \A i \in Sides : forest.parent[w.at[i]] = NoFrame
    PROVE  Route(forest, q) = Refused("Disconnected")
  <1> DEFINE T == Ancestors(forest.parent, q.target)
             S == Ancestors(forest.parent, q.source)
             P(i) == Past(forest, q, w, i)
             climbed == {f \in (T \ S) \cup (S \ T) : forest.parent[f] # NoFrame}
  <1>1. 1 \in Sides /\ 2 \in Sides /\ From(q, 1) = q.target /\ From(q, 2) = q.source
    BY DEF Sides, From
  <1>2. ASSUME NEW i \in Sides PROVE Ancestors(forest.parent, w.at[i]) = {w.at[i]}
    BY TurnRows, AncestorsAre
  <1>3. w.at[1] \in T /\ w.at[2] \in S
    BY <1>1, WalkParts DEF AtTurn
  <1>4. T = P(1) \cup {w.at[1]} /\ S = P(2) \cup {w.at[2]}
    BY <1>1, <1>2, <1>3 DEF Past
  <1>5. P(1) \cap S = {} /\ P(2) \cap T = {}
    BY <1>1, WalkParts DEF AtTurn
  <1>6. T \cap S = {}
    BY <1>4, <1>5
  <1>7. \A f \in P(1) \cup P(2) : forest.parent[f] # NoFrame
    BY PastSize
  <1>8. climbed = P(1) \cup P(2)
    BY <1>1, <1>4, <1>5, <1>6, <1>7
  <1>9. Cardinality(P(1) \cup P(2)) = Climbed(w) /\ Climbed(w) \in Nat /\ Climbed(w) <= MaxPath
    BY PastSize
  <1>10. ~(Cardinality(climbed) > MaxPath)
    BY <1>8, <1>9, PathAssumption
  <1> QED
    BY <1>6, <1>10, Zenon DEF Route

\* Who climbs in a turn, when the two ends have not met.
LEMMA Climbers ==
    ASSUME NEW forest, NEW q, NEW w, AtTurn(forest, q, w), ~Met(w)
    PROVE  LET d(i) == depth_of(forest.parent, w.at[i]) IN
           /\ w.at[1] # w.at[2]
           /\ LoopOf(w) \in {"target", "source", "both"}
           /\ LoopOf(w) = "target" => Climbing(w) = {1} /\ forest.parent[w.at[1]] # NoFrame
           /\ LoopOf(w) = "source" => Climbing(w) = {2} /\ forest.parent[w.at[2]] # NoFrame
           /\ LoopOf(w) = "both" => Climbing(w) = {1, 2}
           /\ \A i \in Climbing(w), j \in Sides : d(j) <= d(i)
  <1> DEFINE d(i) == depth_of(forest.parent, w.at[i])
  <1>1. /\ d(1) \in Nat /\ d(2) \in Nat
        /\ \A i \in Sides : w.at[i] \in Frames
        /\ forest.parent \in Parents /\ Acyclic(forest.parent)
    BY TurnRows DEF Sides
  <1>2. ASSUME NEW i \in Sides, 0 < d(i) PROVE forest.parent[w.at[i]] # NoFrame
    <2>1. d(i) = IF forest.parent[w.at[i]] = NoFrame THEN 0
                 ELSE depth_of(forest.parent, forest.parent[w.at[i]]) + 1
      BY <1>1, DepthIs
    <2> QED
      BY <1>2, <2>1
  <1>3. /\ LoopOf(w) \in {"target", "source", "both"}
        /\ LoopOf(w) = "target" => d(2) < d(1)
        /\ LoopOf(w) = "source" => d(1) < d(2)
        /\ LoopOf(w) = "both" => d(1) = d(2)
    BY TurnLoop
  <1>4. w.at[1] # w.at[2]
    BY <1>1, <1>3 DEF Met
  <1>5. 1 \in Sides /\ 2 \in Sides /\ Sides = {1, 2}
    BY DEF Sides
  <1>6. /\ LoopOf(w) = "target" => Climbing(w) = {1}
        /\ LoopOf(w) = "source" => Climbing(w) = {2}
        /\ LoopOf(w) = "both" => Climbing(w) = {1, 2}
    BY DEF Climbing
  <1> HIDE DEF d
  <1>7. \A i \in Climbing(w), j \in Sides : d(j) <= d(i)
    BY <1>1, <1>3, <1>5, <1>6
  <1>8. /\ LoopOf(w) = "target" => forest.parent[w.at[1]] # NoFrame
        /\ LoopOf(w) = "source" => forest.parent[w.at[2]] # NoFrame
    BY <1>1, <1>2, <1>3, <1>5
  <1> QED
    BY <1>3, <1>4, <1>6, <1>7, <1>8 DEF d

\* What a turn refuses, the forest refuses; and a turn that refuses nothing has
\* parents to climb to and room for their edges.
LEMMA TurnRefusal ==
    ASSUME NEW forest, NEW q, NEW w, AtTurn(forest, q, w), ~Met(w)
    PROVE  /\ Refusal(w) # "none" => /\ Route(forest, q) = Refused(Refusal(w))
                                     /\ Refusal(w) \in {"Disconnected", "TreeTooDeep"}
           /\ Refusal(w) = "none" =>
                 /\ \A i \in Climbing(w) : forest.parent[w.at[i]] # NoFrame
                 /\ Climbed(w) + 1 <= MaxPath
                 /\ LoopOf(w) = "both" => Climbed(w) + 2 <= MaxPath
  <1> DEFINE d(i) == depth_of(forest.parent, w.at[i])
             root == \E i \in Climbing(w) : forest.parent[w.at[i]] = NoFrame
             both == LoopOf(w) = "both"
             k == IF 1 \in Climbing(w) THEN 1 ELSE 2
             T == Ancestors(forest.parent, q.target)
             S == Ancestors(forest.parent, q.source)
             P == Past(forest, q, w, 1) \cup Past(forest, q, w, 2)
             n == Climbed(w)
  <1>1. /\ w.at[1] # w.at[2]
        /\ LoopOf(w) \in {"target", "source", "both"}
        /\ LoopOf(w) = "target" => Climbing(w) = {1} /\ forest.parent[w.at[1]] # NoFrame
        /\ LoopOf(w) = "source" => Climbing(w) = {2} /\ forest.parent[w.at[2]] # NoFrame
        /\ both => Climbing(w) = {1, 2}
        /\ \A i \in Climbing(w), j \in Sides : d(j) <= d(i)
    BY Climbers
  <1>2. /\ Sides = {1, 2} /\ Climbing(w) \subseteq Sides /\ k \in Climbing(w) /\ k \in Sides
        /\ From(q, 1) = q.target /\ From(q, 2) = q.source
    BY <1>1 DEF Sides, From
  <1>3. /\ forest.parent \in Parents /\ Acyclic(forest.parent)
        /\ \A i \in Sides : /\ w.at[i] \in Frames
                            /\ w.row[i].parent = forest.parent[w.at[i]]
                            /\ w.row[i].edge = forest.edge[w.at[i]]
                            /\ d(i) \in Nat
    BY TurnRows
  <1>4. n \in Nat /\ n <= MaxPath
    BY PastSize
  <1>5. ~both => ~root
    BY <1>1
  <1>6. ~root => \A i \in Climbing(w) : w.row[i].edge # NoEdge
    BY <1>2, <1>3 DEF AtTurn, Rooted
  <1>7. ASSUME NEW i \in Climbing(w)
        PROVE  w.at[i] \in (T \ S) \cup (S \ T) /\ w.at[i] \notin P
    <2>1. ASSUME NEW j \in Sides, i # j
          PROVE  /\ w.at[i] \in Ancestors(forest.parent, From(q, i))
                 /\ w.at[i] \notin Ancestors(forest.parent, From(q, j))
                 /\ w.at[i] \notin P
      <3>1. i \in Sides /\ w.at[i] # w.at[j] /\ d(j) <= d(i)
        BY <1>1, <1>2, <2>1
      <3> QED
        BY <2>1, <3>1, NotShared
    <2>2. i = 1 \/ i = 2
      BY <1>2
    <2> QED
      BY <1>2, <2>1, <2>2
  <1>8. CASE both /\ root
    <2>1. d(1) = d(2)
      BY <1>2, <1>8, TurnLoop
    <2>2. ASSUME NEW i \in Sides PROVE d(i) = IF forest.parent[w.at[i]] = NoFrame THEN 0
                          ELSE depth_of(forest.parent, forest.parent[w.at[i]]) + 1
      BY <1>3, DepthIs
    <2>3. \A i \in Sides : depth_of(forest.parent, forest.parent[w.at[i]]) \in Nat
      BY DepthType
    <2>4. \A i \in Sides : forest.parent[w.at[i]] = NoFrame
      <3> HIDE DEF d
      <3> QED
        BY <1>1, <1>2, <1>8, <2>1, <2>2, <2>3
    <2>5. Route(forest, q) = Refused("Disconnected")
      BY <1>1, <2>4, RootsApart
    <2>6. Refusal(w) = "Disconnected"
      BY <1>2, <1>3, <1>8 DEF Refusal
    <2> QED
      BY <2>5, <2>6
  <1>9. CASE ~root /\ n = MaxPath
    <2>1. Refusal(w) = "TreeTooDeep"
      BY <1>2, <1>3, <1>9 DEF Refusal, push_edge
    <2>2. Cardinality({w.at[k]}) = 1 /\ IsFiniteSet({w.at[k]})
      BY FS_Singleton
    <2>3. Route(forest, q) = Refused("TreeTooDeep")
      <3>1. n + Cardinality({w.at[k]}) > MaxPath
        BY <1>4, <1>9, <2>2
      <3>2. {w.at[k]} \cap P = {} /\ {w.at[k]} \subseteq (T \ S) \cup (S \ T)
        BY <1>2, <1>7
      <3>3. \A f \in {w.at[k]} : forest.parent[f] # NoFrame
        BY <1>2, <1>9
      <3> HIDE DEF k
      <3> QED
        BY <2>2, <3>1, <3>2, <3>3, TooDeep
    <2> QED
      BY <2>1, <2>3
  <1>10. CASE ~root /\ n # MaxPath /\ both /\ n + 1 = MaxPath
    <2> DEFINE X == {w.at[1], w.at[2]}
    <2>1. Refusal(w) = "TreeTooDeep"
      BY <1>1, <1>2, <1>3, <1>6, <1>10 DEF Refusal, push_edge
    <2>2. Cardinality(X) = 2 /\ IsFiniteSet(X)
      <3>1. IsFiniteSet({w.at[1]}) /\ Cardinality({w.at[1]}) = 1
        BY FS_Singleton
      <3>2. X = {w.at[1]} \cup {w.at[2]} /\ w.at[2] \notin {w.at[1]}
        BY <1>1
      <3>3. /\ IsFiniteSet({w.at[1]} \cup {w.at[2]})
            /\ Cardinality({w.at[1]} \cup {w.at[2]}) = Cardinality({w.at[1]}) + 1
        BY <3>1, <3>2, FS_AddElement
      <3> QED
        BY <3>1, <3>2, <3>3
    <2>3. Route(forest, q) = Refused("TreeTooDeep")
      <3>1. n + Cardinality(X) > MaxPath
        BY <1>4, <1>10, <2>2
      <3>2. X \cap P = {} /\ X \subseteq (T \ S) \cup (S \ T)
        BY <1>1, <1>7, <1>10
      <3>3. \A f \in X : forest.parent[f] # NoFrame
        BY <1>1, <1>10
      <3> HIDE DEF X
      <3> QED
        BY <2>2, <3>1, <3>2, <3>3, TooDeep
    <2> QED
      BY <2>1, <2>3
  <1>11. CASE ~root /\ n # MaxPath /\ ~(both /\ n + 1 = MaxPath)
    <2>1. push_edge(w, k, n) = "none"
      BY <1>2, <1>6, <1>11 DEF push_edge
    <2>2. both => push_edge(w, 2, n + 1) = "none"
      BY <1>1, <1>2, <1>6, <1>11 DEF push_edge
    <2>3. ~ \E i \in Climbing(w) : w.row[i].parent = NoFrame
      BY <1>2, <1>3, <1>11
    <2>4. Refusal(w) = "none"
      BY <2>1, <2>2, <2>3 DEF Refusal
    <2>5. n + 1 <= MaxPath /\ (both => n + 2 <= MaxPath)
      BY <1>4, <1>11, PathAssumption
    <2> QED
      BY <1>11, <2>4, <2>5
  <1> QED
    BY <1>5, <1>8, <1>9, <1>10, <1>11

\* A turn that refuses nothing leaves the walk where it has climbed past one
\* frame more, or two.
LEMMA TurnMovesUp ==
    ASSUME NEW forest, NEW q, NEW w, AtTurn(forest, q, w), ~Met(w), Refusal(w) = "none"
    PROVE  WalkAt(forest, q, MovedUp(w)) /\ MovedUp(w).want # {}
  <1> DEFINE m == MovedUp(w)
             d(x) == depth_of(forest.parent, x)
             up(x) == Ancestors(forest.parent, x)
             C == Climbing(w)
             n(i) == Len(w.path[i])
  <1>1. /\ w.at[1] # w.at[2]
        /\ LoopOf(w) \in {"target", "source", "both"}
        /\ LoopOf(w) = "target" => C = {1}
        /\ LoopOf(w) = "source" => C = {2}
        /\ LoopOf(w) = "both" => C = {1, 2}
        /\ \A i \in C, j \in Sides : d(w.at[j]) <= d(w.at[i])
    BY Climbers
  <1>2. /\ Sides = {1, 2} /\ C \subseteq Sides /\ C # {}
    BY <1>1 DEF Sides
  <1>3. /\ \A i \in C : forest.parent[w.at[i]] # NoFrame
        /\ Climbed(w) + 1 <= MaxPath
        /\ LoopOf(w) = "both" => Climbed(w) + 2 <= MaxPath
    BY TurnRefusal
  <1>4. /\ forest \in Forests /\ forest.parent \in Parents /\ Acyclic(forest.parent)
        /\ \A i \in Sides : /\ From(q, i) \in Frames /\ w.at[i] \in Frames
                            /\ w.row[i].parent = forest.parent[w.at[i]]
                            /\ w.row[i].edge = forest.edge[w.at[i]]
                            /\ d(w.at[i]) \in Nat
    BY TurnRows DEF AtTurn
  <1>5. w.path \in [Sides -> Seq(Nat)] /\ w.want = {}
        /\ DOMAIN w = {"at", "row", "want", "loop", "path"} /\ w.at \in [Sides -> Frames \cup {NoFrame}]
    BY DEF AtTurn, Walks
  <1>6. /\ m.row = w.row /\ m.want = C /\ m.loop = LoopOf(w)
        /\ \A i \in C : m.at[i] = forest.parent[w.at[i]]
                        /\ m.path[i] = Append(w.path[i], forest.edge[w.at[i]])
        /\ \A i \in Sides \ C : m.at[i] = w.at[i] /\ m.path[i] = w.path[i]
    BY <1>2, <1>4, <1>5 DEF MovedUp, AtTurn, Walks
  <1>7. \A i \in Sides :
          /\ w.at[i] \in up(From(q, i))
          /\ Lists(forest, Past(forest, q, w, i), w.path[i])
          /\ \A f \in Past(forest, q, w, i) : forest.parent[f] # NoFrame /\ d(w.at[i]) < d(f)
          /\ i \notin w.want => w.row[i] = RowOf(BlockOf(forest), w.at[i])
    BY WalkParts DEF AtTurn
  <1>8. /\ \A i, j \in Sides : i # j => Past(forest, q, w, i) \cap up(From(q, j)) = {}
        /\ w.loop = "source" => d(w.at[1]) <= d(w.at[2])
        /\ w.loop = "both" => d(w.at[1]) = d(w.at[2])
        /\ Climbed(w) <= MaxPath
    BY WalkParts DEF AtTurn
  <1> HIDE DEF m, C
  <1>9. ASSUME NEW i \in C
        PROVE  /\ m.at[i] \in up(From(q, i))
               /\ Past(forest, q, m, i) = Past(forest, q, w, i) \cup {w.at[i]}
               /\ d(w.at[i]) = d(m.at[i]) + 1 /\ d(m.at[i]) \in Nat
    <2>1. i \in Sides /\ m.at[i] = forest.parent[w.at[i]] /\ forest.parent[w.at[i]] # NoFrame
      BY <1>2, <1>3, <1>6
    <2>2. w.at[i] \in up(From(q, i)) /\ From(q, i) \in Frames
      BY <1>4, <1>7, <2>1
    <2>3. /\ forest.parent[w.at[i]] \in up(From(q, i))
          /\ up(From(q, i)) \ up(forest.parent[w.at[i]]) = (up(From(q, i)) \ up(w.at[i])) \cup {w.at[i]}
          /\ d(w.at[i]) = d(forest.parent[w.at[i]]) + 1
      BY <1>4, <2>1, <2>2, PastGrows
    <2>4. d(m.at[i]) \in Nat
      BY DepthType
    <2> QED
      BY <2>1, <2>3, <2>4 DEF Past
  <1>10. ASSUME NEW i \in Sides
         PROVE  /\ m.at[i] \in up(From(q, i))
                /\ Lists(forest, Past(forest, q, m, i), m.path[i])
                /\ \A f \in Past(forest, q, m, i) : forest.parent[f] # NoFrame /\ d(m.at[i]) < d(f)
                /\ i \notin m.want => m.row[i] = RowOf(BlockOf(forest), m.at[i])
                /\ \A j \in Sides : i # j => Past(forest, q, m, i) \cap up(From(q, j)) = {}
    <2>1. CASE i \in C
      <3>1. Lists(forest, Past(forest, q, w, i) \cup {w.at[i]}, Append(w.path[i], forest.edge[w.at[i]]))
        <4>1. w.path[i] \in Seq(Nat) /\ w.at[i] \in Frames
          BY <1>4, <1>5
        <4>2. Lists(forest, Past(forest, q, w, i), w.path[i])
          BY <1>7
        <4>3. \A f \in Past(forest, q, w, i) : d(w.at[i]) < d(f)
          BY <1>7
        <4> QED
          BY <1>4, <4>1, <4>2, <4>3, ListsMore
      <3>2. ASSUME NEW f \in Past(forest, q, m, i) PROVE forest.parent[f] # NoFrame /\ d(m.at[i]) < d(f)
        <4>1. CASE f = w.at[i]
          BY <1>3, <1>9, <2>1, <4>1
        <4>2. CASE f # w.at[i]
          <5>1. f \in Past(forest, q, w, i)
            BY <1>9, <2>1, <4>2
          <5>2. forest.parent[f] # NoFrame /\ d(w.at[i]) < d(f) /\ d(f) \in Nat
            BY <1>7, <5>1, DepthType
          <5> QED
            BY <1>9, <2>1, <5>2
        <4> QED
          BY <4>1, <4>2
      <3>3. ASSUME NEW j \in Sides, i # j PROVE w.at[i] \notin up(From(q, j))
        <4>1. w.at[i] # w.at[j] /\ d(w.at[j]) <= d(w.at[i])
          BY <1>1, <1>2, <2>1, <3>3
        <4> QED
          BY <3>3, <4>1, NotShared
      <3>4. m.at[i] \in up(From(q, i)) /\ Past(forest, q, m, i) = Past(forest, q, w, i) \cup {w.at[i]}
        BY <1>9, <2>1
      <3>5. Lists(forest, Past(forest, q, m, i), m.path[i])
        BY <1>6, <2>1, <3>1, <3>4
      <3>6. i \in m.want
        BY <1>6, <2>1
      <3>7. \A j \in Sides : i # j => Past(forest, q, m, i) \cap up(From(q, j)) = {}
        BY <1>8, <3>3, <3>4
      <3> QED
        BY <3>2, <3>4, <3>5, <3>6, <3>7
    <2>2. CASE i \notin C
      <3>1. m.at[i] = w.at[i] /\ m.path[i] = w.path[i] /\ m.row[i] = w.row[i]
        BY <1>6, <2>2
      <3>2. Past(forest, q, m, i) = Past(forest, q, w, i)
        BY <3>1 DEF Past
      <3> QED
        BY <1>5, <1>7, <1>8, <3>1, <3>2
    <2> QED
      BY <2>1, <2>2
  <1>11. /\ m.loop = "source" => d(m.at[1]) <= d(m.at[2])
         /\ m.loop = "both" => d(m.at[1]) = d(m.at[2])
    <2>1. LoopOf(w) = "source" => d(w.at[1]) < d(w.at[2])
      BY TurnLoop
    <2>2. LoopOf(w) = "both" => d(w.at[1]) = d(w.at[2])
      BY TurnLoop
    <2>3. d(w.at[1]) \in Nat /\ d(w.at[2]) \in Nat
      BY <1>2, <1>4
    <2>4. CASE LoopOf(w) = "source"
      <3>1. m.at[1] = w.at[1] /\ d(w.at[2]) = d(m.at[2]) + 1 /\ d(m.at[2]) \in Nat
        BY <1>1, <1>2, <1>6, <1>9, <2>4
      <3> HIDE DEF d
      <3> QED
        BY <1>6, <2>1, <2>3, <2>4, <3>1
    <2>5. CASE LoopOf(w) = "both"
      <3>1. /\ d(w.at[1]) = d(m.at[1]) + 1 /\ d(m.at[1]) \in Nat
            /\ d(w.at[2]) = d(m.at[2]) + 1 /\ d(m.at[2]) \in Nat
        BY <1>1, <1>9, <2>5
      <3> HIDE DEF d
      <3> QED
        BY <1>6, <2>2, <2>5, <3>1
    <2> QED
      BY <1>6, <2>4, <2>5
  <1>12. Climbed(m) <= MaxPath
    <2>1. /\ n(1) \in Nat /\ n(2) \in Nat /\ Climbed(w) = n(1) + n(2)
      BY <1>2, <1>5 DEF Climbed
    <2>2. \A i \in C : Len(m.path[i]) = n(i) + 1
      BY <1>2, <1>5, <1>6
    <2>3. \A i \in Sides \ C : Len(m.path[i]) = n(i)
      BY <1>6
    <2>4. Climbed(m) = Len(m.path[1]) + Len(m.path[2])
      BY DEF Climbed
    <2>5. CASE LoopOf(w) = "both"
      <3>1. 1 \in C /\ 2 \in C
        BY <1>1, <2>5
      <3>2. Climbed(m) = (n(1) + 1) + (n(2) + 1)
        BY <2>2, <2>4, <3>1
      <3> HIDE DEF n
      <3> QED
        BY <1>3, <2>1, <2>5, <3>2, PathAssumption
    <2>6. CASE LoopOf(w) # "both"
      <3>1. (1 \in C /\ 2 \in Sides \ C) \/ (2 \in C /\ 1 \in Sides \ C)
        BY <1>1, <1>2, <2>6
      <3>2. Climbed(m) = (n(1) + 1) + n(2) \/ Climbed(m) = n(1) + (n(2) + 1)
        BY <2>2, <2>3, <2>4, <3>1
      <3> HIDE DEF n
      <3> QED
        BY <1>3, <2>1, <3>2, PathAssumption
    <2> QED
      BY <2>5, <2>6
  <1>13. WalkAt(forest, q, m)
    BY <1>10, <1>11, <1>12, WalkParts
  <1> QED
    BY <1>2, <1>6, <1>13 DEF m

\* The shortcut of compile: a frame is where it is.
LEMMA RouteToSelf ==
    ASSUME NEW forest, NEW q, q.target = q.source
    PROVE  Route(forest, q) = Found(<<>>, <<>>)
  <1> DEFINE T == Ancestors(forest.parent, q.target)
             S == Ancestors(forest.parent, q.source)
             climbed == {f \in (T \ S) \cup (S \ T) : forest.parent[f] # NoFrame}
  <1>1. T \ S = {} /\ S \ T = {} /\ climbed = {} /\ T \cap S # {}
    BY DEF Ancestors
  <1>2. Cardinality({}) = 0
    BY FS_EmptySet
  <1>3. ~(Cardinality(climbed) > MaxPath)
    BY <1>1, <1>2, PathAssumption
  <1>4. EdgesUp(forest, {}) = <<>>
    <2>1. DOMAIN EdgesUp(forest, {}) = 1 .. 0
      BY <1>2 DEF EdgesUp
    <2>2. EdgesUp(forest, {}) = [i \in DOMAIN EdgesUp(forest, {}) |-> EdgesUp(forest, {})[i]]
      BY DEF EdgesUp
    <2>3. 1 .. 0 = {}
      OBVIOUS
    <2> QED
      BY <2>1, <2>2, <2>3
  <1>5. EdgesUp(forest, T \ S) = <<>> /\ EdgesUp(forest, S \ T) = <<>>
    BY <1>1, <1>4
  <1> QED
    BY <1>1, <1>3, <1>5, Zenon DEF Route

LEMMA WalkBegins ==
    ASSUME NEW forest \in Forests, NEW q \in Ends
    PROVE  WalkAt(forest, q, WalkFrom(q)) /\ WalkFrom(q).want # {}
  <1> DEFINE w == WalkFrom(q)
  <1>1. /\ w.at = [i \in Sides |-> IF i = 1 THEN q.target ELSE q.source]
        /\ w.want = Sides /\ w.loop = "target" /\ w.path = [i \in Sides |-> <<>>]
    BY DEF WalkFrom
  <1>2. \A i \in Sides : w.at[i] = From(q, i) /\ w.path[i] = <<>>
    BY <1>1 DEF From
  <1> HIDE DEF w
  <1>3. \A i \in Sides : Past(forest, q, w, i) = {}
    BY <1>2 DEF Past
  <1>4. \A i \in Sides : w.at[i] \in Ancestors(forest.parent, From(q, i))
    BY <1>2 DEF Ancestors
  <1>5. Lists(forest, {}, <<>>)
    <2> DEFINE e == [k \in 1 .. 0 |-> NoFrame]
    <2>1. Len(<<>>) = 0 /\ 1 .. 0 = {}
      OBVIOUS
    <2>2. e \in [1 .. 0 -> Frames]
      BY <2>1
    <2>3. {} = {e[k] : k \in 1 .. 0}
      BY <2>1
    <2>4. <<>> = [k \in 1 .. 0 |-> forest.edge[e[k]]]
      BY <2>1
    <2> HIDE DEF e
    <2> QED
      BY <2>1, <2>2, <2>3, <2>4 DEF Lists
  <1>6. Climbed(w) <= MaxPath
    <2>1. w.path[1] = <<>> /\ w.path[2] = <<>>
      BY <1>2 DEF Sides
    <2>2. Len(<<>>) = 0
      OBVIOUS
    <2>3. Climbed(w) = 0
      BY <2>1, <2>2 DEF Climbed
    <2> QED
      BY <2>3, PathAssumption
  <1>7. WalkAt(forest, q, w)
    BY <1>1, <1>2, <1>3, <1>4, <1>5, <1>6, WalkParts
  <1> QED
    BY <1>1, <1>7 DEF w, Sides

-------------------------------------------------------------------------------
(* Every answer is the route of a forest. *)

LEMMA RouteTypes ==
    ASSUME IInv
    PROVE  /\ generation \in Nat /\ key \in Nat /\ start \in Nat /\ word \in Words /\ seen \in Words
           /\ seen.generation \in Nat /\ hist \in [0 .. generation -> Forests]
           /\ query \in Queries \cup {NoQuery} /\ walk \in Walks
           /\ (rpc # "idle" => query \in Queries)
           /\ Queries \subseteq Ends /\ seen.generation <= generation
  <1>1. Queries \subseteq Ends
    BY TopologyAssumption DEF Ends
  <1> QED
    BY <1>1 DEF IInv, TypeOK, Words, generation, ReaderInv

\* Steps of the mutators, short of publishing.
LEMMA RouteFrame ==
    ASSUME RouteInv, UNCHANGED <<word, hist, reader>>
    PROVE  RouteInv'
  BY DEF RouteInv, Settled, reader, generation

\* Publishing adds a generation, and no reader has seen its word.
LEMMA RoutePublish ==
    ASSUME IInv, RouteInv, UNCHANGED reader, generation' = generation + 1,
           \A g \in 0 .. generation : hist'[g] = hist[g]
    PROVE  RouteInv'
  <1>1. generation \in Nat /\ key \in Nat /\ start \in Nat /\ seen.generation \in Nat
        /\ seen.generation <= generation
    BY RouteTypes
  <1>2. UNCHANGED <<rpc, query, key, start, walk, seen, row, loads, tries, plan, cache>>
    BY DEF reader
  <1>3. \A k \in Nat : \A g \in k .. generation : g \in k .. generation' /\ hist'[g] = hist[g]
    BY <1>1
  <1>4. key' <= generation'
    BY <1>1, <1>2 DEF RouteInv
  <1>5. rpc \in {"row", "loads", "check", "end", "refuse"} =>
           start \in key .. generation' /\ hist'[start] = hist[start]
    BY <1>1, <1>3 DEF RouteInv
  <1>6. seen.generation # generation'
    BY <1>1
  <1>7. rpc = "refuse" /\ generation > key => generation' > key
    BY <1>1
  <1>8. rpc \in {"store", "pin"} => Settled(plan, query, key)'
    BY <1>1, <1>2, <1>3 DEF RouteInv, Settled
  <1>9. cache.query # NoQuery => Settled(cache.plan, cache.query, cache.key)'
    <2>1. cache.key \in Nat
      BY <1>1 DEF RouteInv
    <2> QED
      BY <1>1, <1>2, <1>3, <2>1 DEF RouteInv, Settled
  <1>10. cache'.key \in 0 .. generation'
    BY <1>1, <1>2 DEF RouteInv
  <1> QED
    BY <1>2, <1>4, <1>5, <1>6, <1>7, <1>8, <1>9, <1>10 DEF RouteInv

LEMMA RouteInit == Init => RouteInv
  <1> SUFFICES ASSUME Init PROVE RouteInv
    OBVIOUS
  <1>1. /\ rpc = "idle" /\ key = BuildSteps /\ generation = BuildSteps /\ BuildSteps \in Nat
        /\ cache.query = NoQuery /\ cache.key = BuildSteps
    BY FirstWordType, TopologyAssumption DEF Init, generation
  <1> QED
    BY <1>1 DEF RouteInv

LEMMA RouteLookup ==
    ASSUME IInv, RouteInv, NEW q \in Queries, Lookup(q)
    PROVE  RouteInv'
  <1>1. /\ generation \in Nat /\ UNCHANGED <<word, hist, cache>> /\ generation' = generation
        /\ key' = generation /\ query' = q
    BY RouteTypes DEF Lookup, arena, generation
  <1>2. q # NoQuery
    BY TopologyAssumption, FramesAssumption DEF NoQuery, NoFrame
  <1>3. CASE cache.query = q /\ cache.key = generation
    <2>1. rpc' = "pin" /\ plan' = cache.plan
      BY <1>3 DEF Lookup
    <2>2. Settled(cache.plan, q, generation)
      BY <1>2, <1>3 DEF RouteInv
    <2>3. Settled(plan, query, key)'
      BY <1>1, <2>1, <2>2 DEF Settled
    <2>4. cache'.query # NoQuery => Settled(cache.plan, cache.query, cache.key)'
      BY <1>1 DEF RouteInv, Settled
    <2> QED
      BY <1>1, <2>1, <2>3, <2>4 DEF RouteInv
  <1>4. CASE ~(cache.query = q /\ cache.key = generation)
    <2>1. rpc' = "begin"
      BY <1>4 DEF Lookup
    <2>2. cache'.query # NoQuery => Settled(cache.plan, cache.query, cache.key)'
      BY <1>1 DEF RouteInv, Settled
    <2> QED
      BY <1>1, <2>1, <2>2 DEF RouteInv
  <1> QED
    BY <1>3, <1>4

\* The steps of the reader, the cache apart: nothing is published meanwhile.
LEMMA CacheKept ==
    ASSUME RouteInv, UNCHANGED <<word, hist, cache, key>>
    PROVE  /\ key' <= generation' /\ cache'.key \in 0 .. generation' /\ generation' = generation
           /\ cache'.query # NoQuery => Settled(cache.plan, cache.query, cache.key)'
  BY DEF RouteInv, Settled, generation

LEMMA RouteBegin ==
    ASSUME IInv, RouteInv, CompileBegin
    PROVE  RouteInv'
  <1>1. UNCHANGED <<word, hist, cache, key, query>> /\ start' = generation /\ walk' = WalkFrom(query)
        /\ rpc = "begin"
    BY DEF CompileBegin, arena
  <1>2. /\ key \in Nat /\ generation \in Nat /\ query \in Ends /\ generation' = generation
        /\ start' \in key' .. generation'
    BY <1>1, RouteTypes DEF RouteInv, generation
  <1>3. hist[generation] \in Forests
    BY <1>2, RouteTypes
  <1>4. CASE query.target = query.source
    <2>1. plan' = [generation |-> generation, result |-> Found(<<>>, <<>>)] /\ rpc' = "store"
      BY <1>4 DEF CompileBegin, Compiled
    <2>2. plan'.result.status = "ok" /\ plan'.generation = generation /\ plan'.result = Found(<<>>, <<>>)
      BY <2>1 DEF Found
    <2>3. Route(hist[generation], query) = Found(<<>>, <<>>)
      BY <1>4, RouteToSelf
    <2>4. Settled(plan, query, key)'
      BY <1>1, <1>2, <2>2, <2>3 DEF Settled
    <2> QED
      BY <1>1, <2>1, <2>4, CacheKept DEF RouteInv
  <1>5. CASE query.target # query.source
    <2>1. rpc' = "row"
      BY <1>5 DEF CompileBegin
    <2>2. WalkAt(hist[start], query, walk)' /\ walk'.want # {}
      BY <1>1, <1>2, <1>3, WalkBegins
    <2> QED
      BY <1>1, <1>2, <2>1, <2>2, CacheKept DEF RouteInv
  <1> QED
    BY <1>4, <1>5

LEMMA RouteRead ==
    ASSUME IInv, RouteInv, RowBegin \/ (\E f \in Fields : RowLoad(f)) \/ RowTorn \/ RowNewer
    PROVE  RouteInv'
  <1>1. UNCHANGED <<word, hist, cache, key, query, start, walk>> /\ generation' = generation
    BY DEF RowBegin, RowLoad, RowTorn, RowNewer, arena, generation
  <1>2. /\ key \in Nat /\ generation \in Nat /\ key <= generation
        /\ seen.generation \in Nat /\ seen.generation <= generation
    BY RouteTypes DEF RouteInv
  <1>3. rpc \in {"row", "loads", "check"} =>
           start' \in key' .. generation' /\ walk'.want # {} /\ WalkAt(hist[start], query, walk)'
    BY <1>1 DEF RouteInv
  <1>4. CASE RowBegin
    <2>1. rpc = "row" /\ rpc' = "loads" /\ seen' = word
      BY <1>4 DEF RowBegin
    <2>2. key' <= seen'.generation /\ (seen'.generation = generation' => seen' = word')
      BY <1>1, <1>2, <2>1 DEF generation
    <2> QED
      BY <1>1, <1>3, <2>1, <2>2, CacheKept DEF RouteInv
  <1>5. CASE \E f \in Fields : RowLoad(f)
    <2>1. rpc = "loads" /\ rpc' \in {"loads", "check"} /\ seen' = seen
      BY <1>5 DEF RowLoad
    <2> QED
      BY <1>1, <1>3, <2>1, CacheKept DEF RouteInv
  <1>6. CASE RowTorn
    <2>1. rpc = "check" /\ word # seen /\ seen' = seen
      BY <1>6 DEF RowTorn
    <2>2. generation > key
      BY <1>2, <2>1 DEF RouteInv
    <2>3. CASE tries + 1 = RetryLimit
      <3>1. rpc' = "refuse" /\ plan' = [generation |-> start, result |-> Refused("FrameOutOfRange")]
        BY <1>6, <2>3 DEF RowTorn, Compiled
      <3>2. plan'.result.status = "FrameOutOfRange"
        BY <3>1 DEF Refused
      <3> QED
        BY <1>1, <1>3, <2>1, <2>2, <3>1, <3>2, CacheKept DEF RouteInv
    <2>4. CASE tries + 1 # RetryLimit
      <3>1. rpc' = "row"
        BY <1>6, <2>4 DEF RowTorn
      <3> QED
        BY <1>1, <1>3, <2>1, <3>1, CacheKept DEF RouteInv
    <2> QED
      BY <2>3, <2>4
  <1>7. CASE RowNewer
    <2>1. rpc' = "begin"
      BY <1>7 DEF RowNewer
    <2> QED
      BY <1>1, <2>1, CacheKept DEF RouteInv
  <1> QED
    BY <1>4, <1>5, <1>6, <1>7

LEMMA RouteTurn ==
    ASSUME IInv, ForestInv, RouteInv, RowTaken
    PROVE  RouteInv'
  <1> DEFINE w == [walk EXCEPT !.row[Side] = row, !.want = @ \ {Side}]
             F == hist[start]
  <1>1. /\ UNCHANGED <<word, hist, cache, key, query, start>> /\ generation' = generation
        /\ rpc = "check" /\ word = seen /\ start = generation
    BY DEF RowTaken, arena, generation
  <1>2. /\ key \in Nat /\ generation \in Nat /\ key <= generation /\ query \in Ends
        /\ F \in Forests /\ walk \in Walks /\ start' \in key' .. generation'
    BY <1>1, RouteTypes DEF RouteInv
  <1>3. Rooted(F)
    <2>1. Rooted(BlockOf(F))
      BY <1>1 DEF IInv, ActiveIntact, ForestInv
    <2> QED
      BY <2>1 DEF Rooted, BlockOf
  <1>4. row = RowOf(BlockOf(F), walk.at[Side]) /\ row \in Rows
    <2>1. RowWhole
      BY IInvRowWhole
    <2> QED
      BY <1>1, <2>1 DEF RowWhole, IInv, TypeOK, generation
  <1>5. walk.want # {} /\ WalkAt(F, query, walk)
    BY <1>1 DEF RouteInv
  <1>6. Side \in Sides /\ Side \in walk.want
    BY <1>2, <1>5 DEF Side, Sides, Walks
  <1>7. /\ w.at = walk.at /\ w.loop = walk.loop /\ w.path = walk.path /\ w.want = walk.want \ {Side}
        /\ w.row[Side] = row /\ \A i \in Sides \ {Side} : w.row[i] = walk.row[i]
        /\ w \in Walks
    BY <1>2, <1>4, <1>6 DEF Walks
  <1> HIDE DEF w, F
  <1>8. WalkAt(F, query, w)
    <2>1. \A i \in Sides : Past(F, query, w, i) = Past(F, query, walk, i)
      BY <1>7 DEF Past
    <2>2. \A i \in Sides : i \notin w.want => w.row[i] = RowOf(BlockOf(F), w.at[i])
      <3>1. \A i \in Sides : i \notin walk.want => walk.row[i] = RowOf(BlockOf(F), walk.at[i])
        BY <1>5, WalkParts
      <3> QED
        BY <1>4, <1>7, <3>1
    <2>3. Climbed(w) = Climbed(walk)
      BY <1>7 DEF Climbed
    <2>4. \A i \in Sides :
             /\ w.at[i] \in Ancestors(F.parent, From(query, i))
             /\ Lists(F, Past(F, query, w, i), w.path[i])
             /\ \A f \in Past(F, query, w, i) :
                   F.parent[f] # NoFrame /\ depth_of(F.parent, w.at[i]) < depth_of(F.parent, f)
      BY <1>5, <1>7, <2>1, WalkParts
    <2>5. /\ \A i, j \in Sides :
               i # j => Past(F, query, w, i) \cap Ancestors(F.parent, From(query, j)) = {}
          /\ w.loop = "source" => depth_of(F.parent, w.at[1]) <= depth_of(F.parent, w.at[2])
          /\ w.loop = "both" => depth_of(F.parent, w.at[1]) = depth_of(F.parent, w.at[2])
          /\ Climbed(w) <= MaxPath
      BY <1>5, <1>7, <2>1, <2>3, WalkParts
    <2> QED
      BY <2>2, <2>4, <2>5, WalkParts
  <1>9. CASE w.want # {}
    <2>1. walk' = w /\ rpc' = "row"
      BY <1>9 DEF RowTaken, w
    <2>2. WalkAt(hist[start], query, walk)'
      BY <1>1, <1>8, <2>1 DEF F
    <2> QED
      BY <1>1, <1>2, <1>9, <2>1, <2>2, CacheKept DEF RouteInv
  <1>10. CASE w.want = {}
    <2>1. AtTurn(F, query, w)
      BY <1>2, <1>3, <1>7, <1>8, <1>10 DEF AtTurn
    <2>2. CASE Met(w)
      <3>1. walk' = w /\ rpc' = "end"
        BY <1>10, <2>2 DEF RowTaken, w
      <3>2. Found(w.path[1], w.path[2]) = Route(F, query)
        BY <2>1, <2>2, MetIsRoute DEF Met
      <3>3. Found(walk'.path[1], walk'.path[2]) = Route(hist'[start'], query')
        BY <1>1, <3>1, <3>2 DEF F
      <3> QED
        BY <1>1, <1>2, <3>1, <3>3, CacheKept DEF RouteInv
    <2>3. CASE ~Met(w) /\ Refusal(w) # "none"
      <3>1. rpc' = "refuse" /\ plan' = [generation |-> start, result |-> Refused(Refusal(w))]
        BY <1>10, <2>3 DEF RowTaken, w, Compiled
      <3>2. Route(F, query) = Refused(Refusal(w)) /\ Refusal(w) \in {"Disconnected", "TreeTooDeep"}
        BY <2>1, <2>3, TurnRefusal
      <3>3. plan'.result.status # "ok" /\ plan'.result = Route(hist'[start'], query')
        BY <1>1, <3>1, <3>2 DEF F, Refused
      <3> QED
        BY <1>1, <1>2, <3>1, <3>3, CacheKept DEF RouteInv
    <2>4. CASE ~Met(w) /\ Refusal(w) = "none"
      <3>1. walk' = MovedUp(w) /\ rpc' = "row"
        BY <1>10, <2>4 DEF RowTaken, w
      <3>2. WalkAt(F, query, MovedUp(w)) /\ MovedUp(w).want # {}
        BY <2>1, <2>4, TurnMovesUp
      <3>3. WalkAt(hist[start], query, walk)' /\ walk'.want # {}
        BY <1>1, <3>1, <3>2 DEF F
      <3> QED
        BY <1>1, <1>2, <3>1, <3>3, CacheKept DEF RouteInv
    <2> QED
      BY <2>2, <2>3, <2>4
  <1> QED
    BY <1>9, <1>10

LEMMA RouteAnswer ==
    ASSUME IInv, RouteInv, CompileEnd \/ StorePlan \/ StoreRefusal \/ PinGuard \/ Return
    PROVE  RouteInv'
  <1>1. UNCHANGED <<word, hist>> /\ generation' = generation
    BY DEF CompileEnd, StorePlan, StoreRefusal, PinGuard, Return, arena, generation
  <1>2. /\ key \in Nat /\ start \in Nat /\ generation \in Nat /\ key <= generation
        /\ BuildSteps \in Nat /\ BuildSteps <= generation
    BY RouteTypes, TopologyAssumption DEF RouteInv, IInv, ReaderInv
  <1>3. CASE CompileEnd
    <2>1. rpc = "end" /\ UNCHANGED <<cache, key, query, start, walk>>
      BY <1>3 DEF CompileEnd
    <2>2. CASE generation = start
      <3>1. rpc' = "store"
            /\ plan' = [generation |-> start, result |-> Found(walk.path[1], walk.path[2])]
        BY <1>3, <2>2 DEF CompileEnd, Compiled
      <3>2. plan'.generation = start /\ plan'.result = Found(walk.path[1], walk.path[2])
            /\ plan'.result.status = "ok"
        BY <3>1 DEF Found
      <3>3. Found(walk.path[1], walk.path[2]) = Route(hist[start], query) /\ start \in key .. generation
        BY <2>1 DEF RouteInv
      <3>4. Settled(plan, query, key)'
        BY <1>1, <2>1, <3>2, <3>3 DEF Settled
      <3> QED
        BY <1>1, <2>1, <3>1, <3>4, CacheKept DEF RouteInv
    <2>3. CASE generation # start
      <3>1. rpc' = "begin"
        BY <1>3, <2>3 DEF CompileEnd
      <3> QED
        BY <1>1, <2>1, <3>1, CacheKept DEF RouteInv
    <2> QED
      BY <2>2, <2>3
  <1>4. CASE StorePlan
    <2>1. /\ rpc = "store" /\ rpc' = "pin" /\ UNCHANGED <<key, query, plan>>
          /\ cache' = [query |-> query, key |-> key, plan |-> plan]
      BY <1>4 DEF StorePlan, Store
    <2>2. Settled(plan, query, key)
      BY <2>1 DEF RouteInv
    <2>3. Settled(plan, query, key)' /\ Settled(cache.plan, cache.query, cache.key)'
      BY <1>1, <2>1, <2>2 DEF Settled
    <2>4. cache'.key \in 0 .. generation'
      BY <1>1, <1>2, <2>1
    <2> QED
      BY <1>1, <1>2, <2>1, <2>3, <2>4 DEF RouteInv
  <1>5. CASE StoreRefusal
    <2>1. rpc = "refuse" /\ rpc' = "done" /\ UNCHANGED <<key, query, plan, start>>
      BY <1>5 DEF StoreRefusal
    <2>2. CASE generation = key
      <3>1. cache' = [query |-> query, key |-> key, plan |-> plan]
        BY <1>5, <2>2 DEF StoreRefusal, Store
      <3>2. start = key /\ plan.result.status # "ok" /\ plan.result = Route(hist[start], query)
        BY <1>2, <2>1, <2>2 DEF RouteInv
      <3>3. Settled(cache.plan, cache.query, cache.key)'
        BY <1>1, <1>2, <3>1, <3>2 DEF Settled
      <3>4. cache'.key \in 0 .. generation'
        BY <1>1, <1>2, <3>1
      <3> QED
        BY <1>1, <1>2, <2>1, <3>3, <3>4 DEF RouteInv
    <2>3. CASE generation # key
      <3>1. cache' = cache
        BY <1>5, <2>3 DEF StoreRefusal
      <3> QED
        BY <1>1, <2>1, <3>1, CacheKept DEF RouteInv
    <2> QED
      BY <2>2, <2>3
  <1>6. CASE PinGuard
    <2>1. rpc' = "done" /\ UNCHANGED <<key, cache>>
      BY <1>6 DEF PinGuard
    <2> QED
      BY <1>1, <2>1, CacheKept DEF RouteInv
  <1>7. CASE Return
    <2>1. rpc' = "idle" /\ key' = BuildSteps /\ cache' = cache
      BY <1>7 DEF Return
    <2>2. cache'.query # NoQuery => Settled(cache.plan, cache.query, cache.key)'
      BY <1>1, <2>1 DEF RouteInv, Settled
    <2> QED
      BY <1>1, <1>2, <2>1, <2>2 DEF RouteInv
  <1> QED
    BY <1>3, <1>4, <1>5, <1>6, <1>7

\* What publishing does to the history.
LEMMA PublishExtends ==
    ASSUME IInv, NEW p \in Procs, Publish(p)
    PROVE  /\ generation' = generation + 1 /\ UNCHANGED reader
           /\ hist' = [g \in 0 .. generation + 1 |->
                         IF g = generation + 1
                         THEN Attach(hist[generation], move[p].child, move[p].parent, edge[p])
                         ELSE hist[g]]
           /\ \A g \in 0 .. generation : hist'[g] = hist[g]
  <1>1. mpc[p] = "publish" /\ base[p] = word
    BY DEF Publish, At, IInv, FillInv, FillAt, Filling
  <1>2. generation' = generation + 1 /\ generation \in Nat
    BY <1>1, RouteTypes DEF Publish, generation, pack_topo
  <1> QED
    BY <1>2 DEF Publish

LEMMA StepRoute == IInv /\ ForestInv /\ RouteInv /\ [Next]_vars => RouteInv'
  <1> SUFFICES ASSUME IInv, ForestInv, RouteInv, [Next]_vars PROVE RouteInv'
    OBVIOUS
  <1>1. ASSUME NEW p \in Procs,
               (\E s \in Slots : Register(p, s)) \/ (\E m \in Moves : Reparent(p, m)) \/ Kill(p)
               \/ Acquire(p) \/ ReadEdge(p) \/ LoadWord(p) \/ CheckCycle(p) \/ DropGuards(p)
        PROVE  RouteInv'
    <2>1. UNCHANGED <<word, hist, reader>>
      BY <1>1 DEF Register, Reparent, Kill, Acquire, LockCas, Inspect, ReadEdge, LoadWord, CheckCycle,
                  DropGuards, ReleaseWord, ReleaseByte, arena
    <2> QED
      BY <2>1, RouteFrame
  <1>2. ASSUME NEW p \in Procs, Copy(p) \/ Link(p) \/ recompute_depths(p) PROVE RouteInv'
    <2>1. UNCHANGED <<word, hist, reader>>
      BY <1>2 DEF Copy, Link, recompute_depths, StoreRow
    <2> QED
      BY <2>1, RouteFrame
  <1>3. ASSUME NEW p \in Procs, Publish(p) PROVE RouteInv'
    BY <1>3, PublishExtends, RoutePublish
  <1>4. ASSUME NEW s \in Slots, Reclaim(s) PROVE RouteInv'
    BY <1>4, RouteFrame DEF Reclaim, arena
  <1>5. ASSUME NEW q \in Queries, Lookup(q) PROVE RouteInv'
    BY <1>5, RouteLookup
  <1>6. CASE Read
    BY <1>6, RouteBegin, RouteRead, RouteTurn, RouteAnswer DEF Read, with_plan, compile, read_frame
  <1>7. CASE UNCHANGED vars
    BY <1>7, RouteFrame DEF vars, arena
  <1> QED
    BY <1>1, <1>2, <1>3, <1>4, <1>5, <1>6, <1>7 DEF Next, Mutate, set_parent

-------------------------------------------------------------------------------
(* Refinement: the topology implements the sequence of forests. *)

\* The instance speaks of forests, routes and calls in the same terms.
LEMMA SameTerms ==
    ASSUME NEW forest, NEW parent, NEW q, NEW c, NEW p, NEW e, NEW g, NEW r
    PROVE  /\ Log!Route(forest, q) = Route(forest, q)
           /\ Log!Acyclic(parent) <=> Acyclic(parent)
           /\ Log!Attach(forest, c, p, e) = Attach(forest, c, p, e)
           /\ Log!NoEdge = NoEdge
           /\ Log!Idle = Idle /\ Log!Called(q, g) = Called(q, g)
           /\ Log!Answered(q, g, r) = Answered(q, g, r)
  <1>0. \A S : Log!Cardinality(S) = Cardinality(S)
    BY Zenon DEF Log!Cardinality, Cardinality
  <1>1. Log!Budget = Budget /\ Log!NoFrame = NoFrame /\ Log!NoEdge = NoEdge
    BY <1>0, Zenon DEF Log!Budget, Budget, Log!NoFrame, NoFrame, Log!NoEdge, NoEdge
  <1>2. \A x, f : Log!Climb(x, f) = Climb(x, f)
    BY <1>1, ZenonT(30) DEF Log!Climb, Climb
  <1>3. \A x, f : Log!Ancestors(x, f) = Ancestors(x, f)
    BY <1>1, <1>2, Zenon DEF Log!Ancestors, Ancestors
  <1>4. \A x : Log!EdgesUp(forest, x) = EdgesUp(forest, x)
    BY Zenon DEF Log!EdgesUp, EdgesUp, Log!Ancestors, Ancestors, Log!Climb, Climb, Log!Budget, Budget,
                 Log!NoFrame, NoFrame, Log!Cardinality, Cardinality
  <1>5. (\A x : Log!Refused(x) = Refused(x)) /\ (\A x, y : Log!Found(x, y) = Found(x, y))
    BY DEF Log!Refused, Refused, Log!Found, Found
  <1>6. Log!Route(forest, q) = Route(forest, q)
    BY Zenon DEF Log!Route, Route, Log!Found, Found, Log!Refused, Refused,
                 Log!EdgesUp, EdgesUp, Log!Ancestors, Ancestors, Log!Climb, Climb, Log!Budget, Budget,
                 Log!NoFrame, NoFrame, Log!Cardinality, Cardinality
  <1>7. Log!Acyclic(parent) <=> Acyclic(parent)
    BY DEF Log!Acyclic, Acyclic
  <1>8. Log!Attach(forest, c, p, e) = Attach(forest, c, p, e)
    BY DEF Log!Attach, Attach
  <1> QED
    BY <1>1, <1>6, <1>7, <1>8
       DEF Log!Idle, Idle, Log!Called, Called, Log!Answered, Answered

\* A step that the caller of a lookup and the history do not notice.
LEMMA Unseen ==
    ASSUME UNCHANGED <<hist, word, query, key>>,
           \/ rpc \notin {"idle", "done"} /\ rpc' \notin {"idle", "done"}
           \/ UNCHANGED <<rpc, plan>>
    PROVE  UNCHANGED Log!logvars
  BY DEF Log!logvars, LookupCall, generation

LEMMA LookupRefines ==
    ASSUME IInv, RouteInv, (\E q \in Queries : Lookup(q)) \/ Read
    PROVE  Log!LogNext \/ UNCHANGED Log!logvars
  <1>1. UNCHANGED <<word, hist>> /\ generation' = generation
    BY DEF Lookup, Read, with_plan, compile, read_frame, CompileBegin, RowBegin, RowLoad, RowTorn, RowNewer,
           RowTaken, CompileEnd, StorePlan, StoreRefusal, PinGuard, Return, arena, generation
  <1>2. key \in Nat /\ generation \in Nat /\ key <= generation
    BY RouteTypes DEF RouteInv
  <1>3. ASSUME NEW q \in Queries, Lookup(q) PROVE Log!LogNext
    <2>1. rpc = "idle" /\ rpc' \in {"pin", "begin"} /\ query' = q /\ key' = generation
      BY <1>3 DEF Lookup
    <2>2. LookupCall = Idle /\ LookupCall' = Called(q, generation)
      BY <2>1 DEF LookupCall
    <2>3. Log!Call(q)
      BY <1>1, <2>2, SameTerms DEF Log!Call, Idle
    <2> QED
      BY <2>3 DEF Log!LogNext
  <1>4. ASSUME rpc \notin {"idle", "done"}, rpc' = "done", UNCHANGED <<query, key>>,
               \/ \E g \in key .. generation : plan'.result = Route(hist[g], query)
               \/ generation > key /\ plan'.result.status \in Log!Interrupted
        PROVE  Log!LogNext
    <2>1. LookupCall = Called(query, key) /\ LookupCall' = Answered(query, key, plan'.result)
      BY <1>4 DEF LookupCall
    <2>2. Log!Answer
      BY <1>1, <1>4, <2>1, SameTerms DEF Log!Answer, Called, Answered
    <2> QED
      BY <2>2 DEF Log!LogNext
  <1>5. CASE StoreRefusal
    <2>1. rpc = "refuse" /\ rpc' = "done" /\ UNCHANGED <<query, key, plan>>
      BY <1>5 DEF StoreRefusal
    <2>2. /\ start \in key .. generation
          /\ \/ plan.result = Route(hist[start], query)
             \/ generation > key /\ plan.result.status = "FrameOutOfRange"
      BY <2>1 DEF RouteInv
    <2>3. \/ \E g \in key .. generation : plan'.result = Route(hist[g], query)
          \/ generation > key /\ plan'.result.status \in Log!Interrupted
      BY <2>1, <2>2 DEF Log!Interrupted
    <2> QED
      BY <1>4, <2>1, <2>3
  <1>6. CASE PinGuard
    <2>1. rpc = "pin" /\ rpc' = "done" /\ UNCHANGED <<query, key>>
      BY <1>6 DEF PinGuard
    <2>2. Settled(plan, query, key)
      BY <2>1 DEF RouteInv
    <2>3. CASE plan.result.status = "ok" /\ plan.generation # generation
      <3>1. plan' = [generation |-> plan.generation, result |-> Refused("TopologyChanged")]
        BY <1>6, <2>3 DEF PinGuard, Compiled
      <3>2. plan.generation \in key .. generation
        BY <2>2, <2>3 DEF Settled
      <3>3. generation > key
        BY <1>2, <2>3, <3>2
      <3>4. plan'.result.status = "TopologyChanged"
        BY <3>1 DEF Refused
      <3> QED
        BY <1>4, <2>1, <3>3, <3>4 DEF Log!Interrupted
    <2>4. CASE ~(plan.result.status = "ok" /\ plan.generation # generation)
      <3>1. plan' = plan
        BY <1>6, <2>4 DEF PinGuard
      <3>2. \E g \in key .. generation : plan'.result = Route(hist[g], query)
        BY <2>2, <3>1, Zenon DEF Settled
      <3> QED
        BY <1>4, <2>1, <3>2
    <2> QED
      BY <2>3, <2>4
  <1>7. CASE Return
    <2>1. rpc = "done" /\ rpc' = "idle"
      BY <1>7 DEF Return
    <2>2. LookupCall = Answered(query, key, plan.result) /\ LookupCall' = Idle
      BY <2>1 DEF LookupCall
    <2>3. Log!Leave
      BY <1>1, <2>2, SameTerms DEF Log!Leave, Answered
    <2> QED
      BY <2>3 DEF Log!LogNext
  <1>8. CASE compile \/ StorePlan
    <2>1. rpc \notin {"idle", "done"} /\ rpc' \notin {"idle", "done"} /\ UNCHANGED <<query, key>>
      <3>1. CASE CompileBegin \/ RowBegin \/ RowTorn \/ RowNewer \/ CompileEnd \/ StorePlan
        BY <3>1 DEF CompileBegin, RowBegin, RowTorn, RowNewer, CompileEnd, StorePlan
      <3>2. CASE \E f \in Fields : RowLoad(f)
        BY <3>2 DEF RowLoad
      <3>3. CASE RowTaken
        BY <3>3 DEF RowTaken
      <3> QED
        BY <1>8, <3>1, <3>2, <3>3 DEF compile, read_frame
    <2> QED
      BY <1>1, <2>1, Unseen
  <1> QED
    BY <1>3, <1>5, <1>6, <1>7, <1>8 DEF Read, with_plan

\* The store of the word is the move; whatever a mutator does besides is not seen.
LEMMA MutatorRefines ==
    ASSUME IInv, ForestInv, [Next]_vars, ~((\E q \in Queries : Lookup(q)) \/ Read)
    PROVE  Log!LogNext \/ UNCHANGED Log!logvars
  <1>1. ASSUME UNCHANGED <<word, hist, reader>> PROVE UNCHANGED Log!logvars
    BY <1>1, Unseen DEF reader
  <1>2. ASSUME NEW p \in Procs,
               (\E s \in Slots : Register(p, s)) \/ (\E m \in Moves : Reparent(p, m)) \/ Kill(p)
               \/ Acquire(p) \/ ReadEdge(p) \/ LoadWord(p) \/ CheckCycle(p) \/ DropGuards(p)
        PROVE  UNCHANGED <<word, hist, reader>>
    BY <1>2 DEF Register, Reparent, Kill, Acquire, LockCas, Inspect, ReadEdge, LoadWord, CheckCycle,
                DropGuards, ReleaseWord, ReleaseByte, arena
  <1>3. ASSUME NEW p \in Procs, Copy(p) \/ Link(p) \/ recompute_depths(p)
        PROVE  UNCHANGED <<word, hist, reader>>
    BY <1>3 DEF Copy, Link, recompute_depths, StoreRow
  <1>4. (\E s \in Slots : Reclaim(s)) \/ UNCHANGED vars => UNCHANGED <<word, hist, reader>>
    BY DEF Reclaim, vars, arena
  <1>5. ASSUME NEW p \in Procs, Publish(p) PROVE Log!LogNext
    <2> DEFINE m == move[p]
               now == hist[generation]
               next == Attach(now, m.child, m.parent, now.edge[m.child])
    <2>1. mpc[p] = "publish"
      BY <1>5 DEF Publish, At
    <2>2. m \in Moves
      BY <2>1 DEF IInv, LockInv, InLock
    <2>3. /\ blocks[word.active].edge = now.edge /\ blocks[word.active].parent = now.parent
      BY DEF IInv, ActiveIntact, BlockOf
    <2>4. /\ edge[p] = now.edge[m.child] /\ edge[p] # NoEdge
          /\ Acyclic([now.parent EXCEPT ![m.child] = m.parent])
      BY <2>1, <2>3 DEF ForestInv, Moving, Checked
    <2>5. /\ generation' = generation + 1 /\ UNCHANGED reader
          /\ hist' = [g \in 0 .. generation + 1 |-> IF g = generation + 1 THEN next ELSE hist[g]]
      BY <1>5, <2>4, PublishExtends
    <2>6. LookupCall' = LookupCall
      BY <2>5 DEF reader, LookupCall
    <2>7. Acyclic(next.parent)
      BY <2>4 DEF Attach
    <2>8. Log!Move(m)
      <3>1. /\ Log!Attach(now, m.child, m.parent, now.edge[m.child]) = next
            /\ Log!Acyclic(next.parent) /\ Log!NoEdge = NoEdge
        BY <2>7, SameTerms
      <3> HIDE DEF next
      <3> QED
        BY <2>4, <2>5, <2>6, <3>1 DEF Log!Move
    <2> QED
      BY <2>2, <2>8 DEF Log!LogNext
  <1> QED
    BY <1>1, <1>2, <1>3, <1>4, <1>5 DEF Next, Mutate, set_parent

\* The topology implements an atomic sequence of forests: a lookup, cached or
\* compiled out of rows read one by one while any number of processes reparent
\* and die, answers the route of a forest that was current while it ran, or
\* reports a change that did happen (plan.rs, compile; cache.rs, with_plan), as
\* long as the arena was built as a forest.
THEOREM TopologyImplementsForestLog ==
    ASSUME Rooted(Built[BuildSteps])
    PROVE  Spec => ImplementsForestLog
  <1>1. Init => Log!LogInit
    BY SameTerms, FirstWordType DEF Init, Log!LogInit, LookupCall, generation
  <1>2. Init => ForestInv /\ RouteInv
    BY RootedInit, RouteInit
  <1>3. /\ IInv /\ IInv' /\ ForestInv /\ [Next]_vars => ForestInv'
        /\ IInv /\ ForestInv /\ RouteInv /\ [Next]_vars => RouteInv'
    BY StepForest, StepRoute
  <1>4. IInv /\ ForestInv /\ RouteInv /\ [Next]_vars => [Log!LogNext]_(Log!logvars)
    BY LookupRefines, MutatorRefines
  <1> QED
    BY <1>1, <1>2, <1>3, <1>4, InvariantHolds, PTL DEF Spec, ImplementsForestLog, Log!LogSpec
===============================================================================
